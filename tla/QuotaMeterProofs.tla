-------------------------- MODULE QuotaMeterProofs --------------------------
(***************************************************************************)
(* The meter never passes its tier's limit, and in a clean period it      *)
(* counts exactly what it owes, for every number of callers and            *)
(* subscriptions, every tier table in which the comp tier is the largest,  *)
(* and any interleaving.                                                   *)
(***************************************************************************)
EXTENDS QuotaMeter, FiniteSetTheorems, TLAPS

\* A caller between its read and its write holds a subscription and a limit
\* that the subscription's tier, which only grants change, still reaches.
LimitsRead ==
    \A c \in Callers :
        /\ at[c] \in {"metering", "rolling", "restoring"} => read[c].sub \in Subs
        /\ at[c] = "metering" => read[c].limit <= TIER_QUOTA[tierId[read[c].sub]]

MeterInv == TypeOK /\ LimitsRead /\ MeterWithinLimit

\* A grant raises the limit of its subscription, so limits read before stand.
LEMMA GrantStep ==
  ASSUME QuotaAssumption, MeterInv, NEW s \in Subs, Grant(s), grants < MaxGrants,
         grants' = grants + 1, UNCHANGED <<now, callerVars>>
  PROVE  MeterInv'
<1> USE DEF MeterInv, Grant, callerVars
<1>1. TypeOK'
  BY DEF TypeOK, QuotaAssumption
<1>2. LimitsRead'
  BY DEF LimitsRead, TypeOK, QuotaAssumption
<1>3. MeterWithinLimit'
  BY DEF MeterWithinLimit, TypeOK, QuotaAssumption
<1> QED
  BY <1>1, <1>2, <1>3

\* One write of a caller: each keeps the meter between zero and the limit.
LEMMA CallerStep ==
  ASSUME QuotaAssumption, MeterInv, NEW c \in Callers,
         \/ ReadSubscription(c) \/ NoSubscription(c) \/ Rollover(c) \/ Increment(c)
         \/ QuotaExceeded(c) \/ RestoreRead(c) \/ RestoreWrite(c)
  PROVE  MeterInv'
<1> USE DEF MeterInv
<1>q. /\ tierId \in [Subs -> Tiers] /\ TIER_QUOTA \in [Tiers -> Nat \ {0}]
      /\ \A s \in Subs : TIER_QUOTA[tierId[s]] \in Nat /\ TIER_QUOTA[tierId[s]] >= 1
  BY DEF TypeOK, QuotaAssumption
<1>1. CASE ReadSubscription(c) \/ RestoreRead(c)
  <2>r. read' \in [Callers -> [sub : Subs \cup {NoSub}, limit : Nat]]
    <3>1. PICK s \in Subs, n \in Nat : read' = [read EXCEPT ![c] = [sub |-> s, limit |-> n]]
      BY <1>1, <1>q, 0 \in Nat DEF ReadSubscription, RestoreRead
    <3>2. [sub |-> s, limit |-> n] \in [sub : Subs \cup {NoSub}, limit : Nat]
      OBVIOUS
    <3> QED
      BY <3>1, <3>2 DEF TypeOK
  <2>1. TypeOK'
    BY <1>1, <2>r DEF ReadSubscription, RestoreRead, meterVars, TypeOK, Stages
  <2>2. LimitsRead'
    BY <1>1, <1>q DEF ReadSubscription, RestoreRead, NoRead, meterVars, LimitsRead, TypeOK
  <2> QED
    BY <1>1, <2>1, <2>2 DEF ReadSubscription, RestoreRead, meterVars, MeterWithinLimit
<1>2. CASE NoSubscription(c) \/ QuotaExceeded(c)
  BY <1>2 DEF NoSubscription, QuotaExceeded, meterVars, TypeOK, Stages, LimitsRead, MeterWithinLimit
<1>3. CASE Rollover(c)
  <2>1. read[c].sub \in Subs /\ at[c] = "rolling"
    BY <1>3 DEF Rollover, LimitsRead
  <2>2. period' \in [Subs -> Nat] /\ clean' \in [Subs -> BOOLEAN]
    BY <1>3, <2>1 DEF Rollover, TypeOK
  <2>3. TypeOK'
    BY <1>3, <2>1, <2>2 DEF Rollover, TypeOK, Stages, QuotaAssumption
  <2>4. LimitsRead' /\ MeterWithinLimit'
    BY <1>3, <1>q, <2>1 DEF Rollover, LimitsRead, MeterWithinLimit, TypeOK
  <2> QED
    BY <2>3, <2>4
<1>4. CASE Increment(c)
  <2>1. /\ read[c].sub \in Subs /\ at[c] = "metering"
        /\ read[c].limit <= TIER_QUOTA[tierId[read[c].sub]] /\ read[c].limit \in Nat
    BY <1>4 DEF Increment, LimitsRead, TypeOK
  <2>2. TypeOK'
    BY <1>4, <2>1 DEF Increment, TypeOK, Stages
  <2>3. LimitsRead' /\ MeterWithinLimit'
    BY <1>4, <1>q, <2>1 DEF Increment, LimitsRead, MeterWithinLimit, TypeOK
  <2> QED
    BY <2>2, <2>3
<1>5. CASE RestoreWrite(c)
  <2>1. read[c].sub \in Subs
    BY <1>5 DEF RestoreWrite, LimitsRead
  <2>2. clean' \in [Subs -> BOOLEAN]
    BY <1>5 DEF RestoreWrite, CleanAfterCredit, TypeOK
  <2>3. TypeOK'
    BY <1>5, <2>1, <2>2 DEF RestoreWrite, TypeOK, Stages
  <2>4. LimitsRead' /\ MeterWithinLimit'
    BY <1>5, <1>q, <2>1 DEF RestoreWrite, LimitsRead, MeterWithinLimit, TypeOK
  <2> QED
    BY <2>3, <2>4
<1> QED
  BY <1>1, <1>2, <1>3, <1>4, <1>5

\* Every step keeps it.
LEMMA MeterStep ==
  ASSUME QuotaAssumption, MeterInv, [Next]_vars
  PROVE  MeterInv'
<1>1. CASE Tick
  BY <1>1 DEF Tick, MeterInv, TypeOK, LimitsRead, MeterWithinLimit, meterVars, callerVars,
              QuotaAssumption
<1>2. CASE CompGrant
  BY <1>2, GrantStep DEF CompGrant
<1>3. CASE \E s \in Subs : CheckoutCompleted(s)
  BY <1>3 DEF CheckoutCompleted, MeterInv, TypeOK, LimitsRead, MeterWithinLimit, callerVars,
              QuotaAssumption
<1>4. CASE UNCHANGED vars
  BY <1>4 DEF vars, MeterInv, TypeOK, LimitsRead, MeterWithinLimit, meterVars, callerVars
<1> QED
  BY <1>1, <1>2, <1>3, <1>4, CallerStep DEF Next

\* It holds at first.
LEMMA MeterStart == QuotaAssumption /\ Init => MeterInv
BY DEF Init, MeterInv, TypeOK, LimitsRead, MeterWithinLimit, NoRead, NoCharge, Stages, QuotaAssumption

\* usageCount <= TIER_QUOTA of the tier at all times: the conditional update
\* with a limit that may be stale is enough, because tiers are never lowered.
THEOREM MeterBounded == Spec => []MeterWithinLimit
<1> USE QuotaAssumption
<1>1. Init => MeterInv
  BY MeterStart
<1>2. MeterInv /\ [Next]_vars => MeterInv'
  BY MeterStep
<1>3. MeterInv => MeterWithinLimit
  BY DEF MeterInv
<1> QED
  BY <1>1, <1>2, <1>3, PTL DEF Spec

-----------------------------------------------------------------------------
(* What a clean period counts.                                             *)

\* No unit was charged to a period still to come.
ChargedInThePast ==
    \A c \in Callers, s \in Subs, n \in Nat : charge[c] = <<s, n>> => n <= period[s]

OwedCounted == \A s \in Subs : clean[s] => IsFiniteSet(Owed(s)) /\ usageCount[s] = Cardinality(Owed(s))

CleanInv == MeterInv /\ ChargedInThePast /\ OwedCounted

\* A step that leaves the meter of s, its period and the callers' charges.
LEMMA OwedKept ==
  ASSUME OwedCounted, NEW s \in Subs, clean'[s] => clean[s], usageCount'[s] = usageCount[s],
         Owed(s)' = Owed(s)
  PROVE  clean'[s] => IsFiniteSet(Owed(s)') /\ usageCount'[s] = Cardinality(Owed(s)')
BY DEF OwedCounted

\* A grant starts a period that owes nothing yet.
LEMMA GrantCounts ==
  ASSUME QuotaAssumption, CleanInv, NEW g \in Subs, Grant(g), UNCHANGED callerVars
  PROVE  ChargedInThePast' /\ OwedCounted'
<1>t. /\ period \in [Subs -> Nat] /\ usageCount \in [Subs -> Nat] /\ clean \in [Subs -> BOOLEAN]
      /\ period' = [period EXCEPT ![g] = period[g] + 1] /\ usageCount' = [usageCount EXCEPT ![g] = 0]
      /\ clean' = [clean EXCEPT ![g] = TRUE] /\ charge' = charge /\ at' = at
  BY DEF CleanInv, MeterInv, TypeOK, Grant, callerVars
<1>1. ChargedInThePast'
  BY <1>t DEF CleanInv, ChargedInThePast
<1>2. ASSUME NEW s \in Subs
      PROVE  clean'[s] => IsFiniteSet(Owed(s)') /\ usageCount'[s] = Cardinality(Owed(s)')
  <2>1. CASE s = g
    <3>1. Owed(s)' = {}
      BY <1>t, <2>1 DEF Owed, CleanInv, ChargedInThePast
    <3> QED
      BY <1>t, <2>1, <3>1, FS_EmptySet
  <2>2. CASE s # g
    BY <1>t, <2>2, OwedKept DEF Owed, CleanInv
  <2> QED
    BY <2>1, <2>2
<1> QED
  BY <1>1, <1>2 DEF OwedCounted

\* A rollover starts a period that owes the caller's unit, or spoils the one
\* that another caller started; an increment adds the caller's.
LEMMA ChargeCounts ==
  ASSUME QuotaAssumption, CleanInv, NEW c \in Callers, Rollover(c) \/ Increment(c)
  PROVE  ChargedInThePast' /\ OwedCounted'
<1> DEFINE g == read[c].sub
<1>t. /\ period \in [Subs -> Nat] /\ usageCount \in [Subs -> Nat] /\ clean \in [Subs -> BOOLEAN]
      /\ g \in Subs /\ at \in [Callers -> Stages] /\ charge \in [Callers -> (Subs \cup {NoSub}) \X Nat]
  BY DEF CleanInv, MeterInv, LimitsRead, TypeOK, Rollover, Increment
<1> HIDE DEF g
<1>c. /\ at[c] \in {"rolling", "metering"} /\ at' = [at EXCEPT ![c] = "charged"]
      /\ charge' = [charge EXCEPT ![c] = <<g, period'[g]>>]
      /\ \/ period' = period
         \/ period' = [period EXCEPT ![g] = period[g] + 1]
  BY <1>t DEF Rollover, Increment, g
<1>o. \A d \in Callers : d # c => at'[d] = at[d] /\ charge'[d] = charge[d]
  BY <1>t, <1>c
<1>n. at'[c] = "charged" /\ charge'[c] = <<g, period'[g]>>
  BY <1>t, <1>c
<1>1. ChargedInThePast'
  <2> SUFFICES ASSUME NEW d \in Callers, NEW s \in Subs, NEW n \in Nat, charge'[d] = <<s, n>>
               PROVE  n <= period'[s]
    BY DEF ChargedInThePast
  <2>1. period'[s] \in Nat /\ period[s] <= period'[s]
    BY <1>t, <1>c
  <2>2. CASE d = c
    <3>1. <<g, period'[g]>> = <<s, n>>
      BY <1>n, <2>2
    <3> QED
      BY <2>1, <3>1
  <2>3. CASE d # c
    <3>1. charge[d] = <<s, n>>
      BY <1>o, <2>3
    <3>2. n <= period[s]
      BY <3>1 DEF CleanInv, ChargedInThePast
    <3> QED
      BY <1>t, <2>1, <3>2
  <2> QED
    BY <2>2, <2>3
<1>2. ASSUME NEW s \in Subs
      PROVE  clean'[s] => IsFiniteSet(Owed(s)') /\ usageCount'[s] = Cardinality(Owed(s)')
  <2>1. CASE s # g
    <3>1. Owed(s)' = Owed(s)
      <4>1. period'[s] = period[s]
        BY <1>t, <1>c, <2>1
      <4> QED
        BY <1>c, <1>o, <1>n, <2>1, <4>1 DEF Owed
    <3>2. clean'[s] = clean[s] /\ usageCount'[s] = usageCount[s]
      BY <1>t, <2>1 DEF Rollover, Increment, g
    <3> QED
      BY <3>1, <3>2, OwedKept DEF CleanInv
  <2>2. CASE s = g /\ Rollover(c)
    <3>1. CASE now > periodEnd[g]
      <4>1. period'[g] = period[g] + 1 /\ usageCount'[g] = 1
        BY <1>t, <2>2, <3>1 DEF Rollover, g
      <4>2. \A d \in Callers : d # c => charge[d] # <<g, period'[g]>>
        BY <1>t, <4>1 DEF CleanInv, ChargedInThePast
      <4>3. Owed(s)' = {c}
        BY <1>o, <1>n, <2>2, <4>2 DEF Owed
      <4>4. IsFiniteSet({c}) /\ Cardinality({c}) = 1
        BY FS_Singleton
      <4> QED
        BY <2>2, <4>1, <4>3, <4>4
    <3>2. CASE ~(now > periodEnd[g])
      <4>1. clean' = [clean EXCEPT ![g] = now > periodEnd[g]]
        BY <2>2, Zenon DEF Rollover, g
      <4>2. ~clean'[g]
        BY <1>t, <3>2, <4>1, Zenon
      <4> QED
        BY <2>2, <4>2
    <3> QED
      BY <3>1, <3>2
  <2>3. CASE s = g /\ Increment(c)
    <3>1. period' = period /\ clean' = clean /\ usageCount'[g] = usageCount[g] + 1
      BY <1>t, <2>3 DEF Increment, g
    <3>2. Owed(s)' = Owed(s) \cup {c} /\ c \notin Owed(s)
      BY <1>c, <1>o, <1>n, <2>3, <3>1 DEF Owed
    <3> QED
      BY <2>3, <3>1, <3>2, FS_AddElement DEF CleanInv, OwedCounted
  <2> QED
    BY <2>1, <2>2, <2>3
<1> QED
  BY <1>1, <1>2 DEF OwedCounted

\* A credit takes the caller's unit off the period it was charged to, or both
\* that period and the one it hits are not clean any more.
LEMMA CreditCounts ==
  ASSUME QuotaAssumption, CleanInv, NEW c \in Callers, RestoreWrite(c)
  PROVE  ChargedInThePast' /\ OwedCounted'
<1> DEFINE g == read[c].sub
<1>t. /\ period \in [Subs -> Nat] /\ usageCount \in [Subs -> Nat] /\ clean \in [Subs -> BOOLEAN]
      /\ g \in Subs /\ at \in [Callers -> Stages]
  BY DEF CleanInv, MeterInv, LimitsRead, TypeOK, RestoreWrite
<1> HIDE DEF g
<1>c. /\ at[c] = "restoring" /\ at' = [at EXCEPT ![c] = "restored"] /\ period' = period /\ charge' = charge
      /\ usageCount' = [usageCount EXCEPT ![g] = IF usageCount[g] > 0 THEN usageCount[g] - 1 ELSE usageCount[g]]
      /\ clean' = CleanAfterCredit(c, g)
  BY DEF RestoreWrite, g
<1>1. ChargedInThePast'
  BY <1>c DEF CleanInv, ChargedInThePast
<1>2. ASSUME NEW s \in Subs
      PROVE  clean'[s] => IsFiniteSet(Owed(s)') /\ usageCount'[s] = Cardinality(Owed(s)')
  <2>o. charge[c] # <<s, period[s]>> => Owed(s)' = Owed(s)
    BY <1>t, <1>c DEF Owed
  <2>1. CASE charge[c] = <<g, period[g]>> /\ s = g
    <3>1. Owed(s)' = Owed(s) \ {c} /\ c \in Owed(s)
      BY <1>t, <1>c, <2>1 DEF Owed
    <3>2. clean' = clean
      BY <1>c, <2>1 DEF CleanAfterCredit
    <3>3. ASSUME clean[s]
          PROVE  IsFiniteSet(Owed(s)') /\ usageCount'[s] = Cardinality(Owed(s)')
      <4>1. IsFiniteSet(Owed(s)) /\ usageCount[s] = Cardinality(Owed(s))
        BY <3>3 DEF CleanInv, OwedCounted
      <4>2. usageCount[s] # 0
        BY <3>1, <4>1, FS_EmptySet
      <4>3. IsFiniteSet(Owed(s)') /\ Cardinality(Owed(s)') = Cardinality(Owed(s)) - 1
        BY <3>1, <4>1, FS_RemoveElement
      <4> QED
        BY <1>t, <1>c, <2>1, <4>1, <4>2, <4>3
    <3> QED
      BY <3>2, <3>3
  <2>2. CASE charge[c] = <<g, period[g]>> /\ s # g
    <3>1. clean' = clean /\ usageCount'[s] = usageCount[s] /\ charge[c] # <<s, period[s]>>
      BY <1>t, <1>c, <2>2 DEF CleanAfterCredit
    <3> QED
      BY <2>o, <3>1, OwedKept DEF CleanInv
  <2>3. CASE charge[c] # <<g, period[g]>>
    <3>1. clean'[s] => clean[s] /\ s # g /\ charge[c] # <<s, period[s]>>
      BY <1>c, <2>3 DEF CleanAfterCredit
    <3>2. s # g => usageCount'[s] = usageCount[s]
      BY <1>t, <1>c
    <3> QED
      BY <2>o, <3>1, <3>2, OwedKept DEF CleanInv
  <2> QED
    BY <2>1, <2>2, <2>3
<1> QED
  BY <1>1, <1>2 DEF OwedCounted

\* The other steps of a caller move it between stages that owe the same.
LEMMA OtherCounts ==
  ASSUME QuotaAssumption, CleanInv,
         \/ \E c \in Callers : ReadSubscription(c) \/ NoSubscription(c) \/ QuotaExceeded(c) \/ RestoreRead(c)
         \/ \E s \in Subs : CheckoutCompleted(s)
         \/ Tick \/ UNCHANGED vars
  PROVE  ChargedInThePast' /\ OwedCounted'
<1>1. UNCHANGED <<period, charge, usageCount, clean>>
  BY DEF ReadSubscription, NoSubscription, QuotaExceeded, RestoreRead, CheckoutCompleted, Tick, vars,
     meterVars, callerVars
<1>2. \A d \in Callers : at'[d] \in {"charged", "restoring"} <=> at[d] \in {"charged", "restoring"}
  BY DEF ReadSubscription, NoSubscription, QuotaExceeded, RestoreRead, CheckoutCompleted, Tick, vars,
     meterVars, callerVars, CleanInv, MeterInv, TypeOK
<1>3. ChargedInThePast'
  BY <1>1 DEF CleanInv, ChargedInThePast
<1>4. \A s \in Subs : Owed(s)' = Owed(s)
  BY <1>1, <1>2 DEF Owed
<1> QED
  BY <1>1, <1>3, <1>4 DEF CleanInv, OwedCounted

\* In a period that no concurrent rollover and no misdirected credit hit, the
\* meter counts exactly the units charged and not given back.
THEOREM CleanMeter == Spec => []CleanMeterExact
<1> USE QuotaAssumption
<1>1. Init => CleanInv
  <2> SUFFICES ASSUME Init PROVE CleanInv
    OBVIOUS
  <2>1. ChargedInThePast
    BY DEF Init, ChargedInThePast, NoCharge, QuotaAssumption
  <2>2. \A s \in Subs : Owed(s) = {} /\ usageCount[s] = 0
    BY DEF Init, Owed
  <2> QED
    BY <2>1, <2>2, MeterStart, FS_EmptySet DEF CleanInv, OwedCounted
<1>2. CleanInv /\ [Next]_vars => CleanInv'
  <2> SUFFICES ASSUME CleanInv, [Next]_vars PROVE CleanInv'
    OBVIOUS
  <2>1. MeterInv'
    BY MeterStep DEF CleanInv
  <2>2. ASSUME NEW s \in Subs, Grant(s), UNCHANGED callerVars
        PROVE  ChargedInThePast' /\ OwedCounted'
    BY <2>2, GrantCounts
  <2>3. CompGrant => ChargedInThePast' /\ OwedCounted'
    BY <2>2 DEF CompGrant
  <2> QED
    BY <2>1, <2>3, ChargeCounts, CreditCounts, OtherCounts DEF CleanInv, Next
<1>3. CleanInv => CleanMeterExact
  BY DEF CleanInv, OwedCounted, CleanMeterExact
<1> QED
  BY <1>1, <1>2, <1>3, PTL DEF Spec

=============================================================================
