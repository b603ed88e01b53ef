-------------------------- MODULE ServiceLifecycle --------------------------
(***************************************************************************)
(* What EPS promises a filer, without workers, rows or transactions: a     *)
(* submission reserves one unit of its organization's quota, and once it   *)
(* is accepted it is either served, for that unit, or the unit is given    *)
(* back, once.  Nothing is ever both, and neither outcome is revised.  One *)
(* reservation: a mishap at the moment of success leaves an accepted       *)
(* submission in doubt, confirmed to whoever asks and yet to be settled    *)
(* either way.                                                             *)
(***************************************************************************)
EXTENDS Integers

CONSTANTS Requests, Orgs, OrgOf, Limit

VARIABLES
    phase,    \* per submission
    balance,  \* per organization, the units its submissions hold
    mishaps   \* crashes, lost answers and refused calls so far

lifecycleVars == <<phase, balance, mishaps>>

LInit ==
    /\ phase = [r \in Requests |-> "none"]
    /\ balance = [o \in Orgs |-> 0]
    /\ mishaps = 0

Move(r, from, to) ==
    /\ phase[r] \in from
    /\ phase' = [phase EXCEPT ![r] = to]

Reserve(r) ==
    /\ Move(r, {"none"}, "reserved")
    /\ IF OrgOf[r] \in Orgs
       THEN /\ balance[OrgOf[r]] < Limit[OrgOf[r]]
            /\ balance' = [balance EXCEPT ![OrgOf[r]] = @ + 1]
       ELSE UNCHANGED balance

\* The handler dies between the two writes: the unit is forfeited.
Forfeit(r) == Move(r, {"reserved"}, "forfeited") /\ UNCHANGED balance

Accept(r) == Move(r, {"reserved"}, "open") /\ UNCHANGED balance

\* Each doubt costs a mishap of its own.
Doubt(r) == Move(r, {"open"}, "doubtful") /\ mishaps' = mishaps + 1 /\ UNCHANGED balance

Serve(r) == Move(r, {"open", "doubtful"}, "served") /\ UNCHANGED balance

GiveBack(r) ==
    /\ Move(r, {"open", "doubtful"}, "returned")
    /\ OrgOf[r] \in Orgs
    /\ balance' = [balance EXCEPT ![OrgOf[r]] = @ - 1]

\* Any step may be a mishap; one that settles nothing changes nothing else.
PerhapsMishap == mishaps' \in {mishaps, mishaps + 1}

LNext ==
    /\ PerhapsMishap
    /\ \/ UNCHANGED <<phase, balance>>
       \/ \E r \in Requests :
             Reserve(r) \/ Forfeit(r) \/ Accept(r) \/ Doubt(r) \/ Serve(r) \/ GiveBack(r)

LSpec == LInit /\ [][LNext]_lifecycleVars

\* An accepted request is not left open, nor in doubt.
LFairness == \A r \in Requests : WF_lifecycleVars(PerhapsMishap /\ (Serve(r) \/ GiveBack(r)))

LFairSpec == LSpec /\ LFairness

=============================================================================
