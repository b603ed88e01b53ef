------------------------------ MODULE Dashboard ------------------------------
(***************************************************************************)
(* The filer's page of one request, app/dashboard/[id], beside intake and  *)
(* workers.  The server renders the section of the row's status            *)
(* (page.tsx); in the browser LiveStatus.tsx keeps a status of its own for *)
(* the badge, polls GET /api/service-requests/:id for it, and has the      *)
(* server render again when it changes.                                    *)
(*                                                                         *)
(* A poll is a request on its way, then the answer on its way back: several*)
(* are out at a time when answers take longer than the interval, and they  *)
(* arrive in any order.                                                    *)
(***************************************************************************)
EXTENDS Fulfilment

CONSTANTS
    Watched,  \* the request whose page is open
    Polls     \* bound on polls under way

ASSUME DashboardAssumption == Watched \in Requests

VARIABLES
    badge,      \* LiveStatus's `status`, "closed" before the page is opened
    watching,   \* the `status` the effect in force was run with
    section,    \* the status whose section the server rendered
    poll,       \* per poll, "free", "asked" or the status answered
    refreshing  \* whether a router.refresh is still to be carried out

pageVars == <<badge, watching, section, poll, refreshing>>
dashVars == <<vars, pageVars>>

DashTypeOK ==
    /\ badge \in ServiceStatus \cup {"closed"}
    /\ {watching, section} \subseteq ServiceStatus \cup {"closed"}
    /\ poll \in [Polls -> ServiceStatus \cup {"free", "asked"}]
    /\ refreshing \in BOOLEAN

DashInit ==
    /\ Init
    /\ badge = "closed" /\ watching = "closed" /\ section = "closed"
    /\ poll = [p \in Polls |-> "free"]
    /\ refreshing = FALSE

\* ServiceDetailPage finds the row by its owner and renders; LiveStatus is
\* mounted with the same status.
OpenPage ==
    /\ badge = "closed" /\ Watched \in Rows
    /\ badge' = status[Watched] /\ watching' = badge' /\ section' = badge'
    /\ UNCHANGED <<vars, poll, refreshing>>

\* Mutant of Tick: IN_PROGRESS, the last status a worker leaves open, is taken
\* for final.
TickWhileStaged(p) ==
    /\ watching = "STAGED"
    /\ poll[p] = "free"
    /\ poll' = [poll EXCEPT ![p] = "asked"]
    /\ UNCHANGED <<vars, badge, watching, section, refreshing>>

\* A tick of the interval, which an effect run with a terminal status does not
\* start.
Tick(p) ==
    /\ watching \in ServiceStatus \ Terminal
    /\ poll[p] = "free"
    /\ poll' = [poll EXCEPT ![p] = "asked"]
    /\ UNCHANGED <<vars, badge, watching, section, refreshing>>

\* GET /api/service-requests/:id.  The row is looked up by the caller's
\* organization, so only one filed by an organization is ever found.
Answer(p) ==
    /\ poll[p] = "asked"
    /\ OrgOf[Watched] # NoOrg
    /\ poll' = [poll EXCEPT ![p] = status[Watched]]
    /\ UNCHANGED <<vars, badge, watching, section, refreshing>>

\* 401, 404, 429 or a network error: the client ignores it.
PollFails(p) ==
    /\ poll[p] = "asked"
    /\ poll' = [poll EXCEPT ![p] = "free"]
    /\ UNCHANGED <<vars, badge, watching, section, refreshing>>

\* The answer arrives at a callback that is not cancelled, which compares it
\* with the status its effect was run with, not with the one shown by now.
Receive(p) ==
    /\ poll[p] \in ServiceStatus
    /\ poll' = [poll EXCEPT ![p] = "free"]
    /\ IF poll[p] = watching
       THEN UNCHANGED <<badge, refreshing>>
       ELSE badge' = poll[p] /\ refreshing' = TRUE
    /\ UNCHANGED <<vars, watching, section>>

\* Mutant of Rerun: answers still out stay valid (no `cancelled`).
RerunKeepingPolls ==
    /\ badge # watching
    /\ watching' = badge
    /\ UNCHANGED <<vars, badge, section, poll, refreshing>>

\* Some time after a new status is shown React re-runs the effect: the cleanup
\* cancels the callbacks of every poll still out, then the new interval starts.
Rerun ==
    /\ badge # watching
    /\ watching' = badge
    /\ poll' = [p \in Polls |-> "free"]
    /\ UNCHANGED <<vars, badge, section, refreshing>>

\* The refresh: the server component reads the row again and its rendering
\* replaces the old one.
Refresh ==
    /\ refreshing
    /\ section' = status[Watched] /\ refreshing' = FALSE
    /\ UNCHANGED <<vars, badge, watching, poll>>

DashNext ==
    \/ (Next /\ UNCHANGED pageVars)
    \/ OpenPage \/ Refresh \/ Rerun
    \/ \E p \in Polls : Tick(p) \/ Answer(p) \/ PollFails(p) \/ Receive(p)

DashSpec == DashInit /\ [][DashNext]_dashVars

\* On top of what Fulfilment assumes: the browser's timers and callbacks run,
\* and of the polls sent for ever some get through (the limiter refuses two of
\* twelve a minute).
DashFairness ==
    /\ Fairness
    /\ \A p \in Polls : WF_dashVars(Tick(p)) /\ SF_dashVars(Answer(p)) /\ WF_dashVars(Receive(p))
    /\ WF_dashVars(Refresh) /\ WF_dashVars(Rerun)

DashFairSpec == DashSpec /\ DashFairness

-----------------------------------------------------------------------------
\* Answers to polls arrive in any order, and one that arrives between a new
\* status and the re-run of the effect may even take the badge back; but once
\* the effect has seen an outcome nothing changes the badge any more
\* (`cancelled` in LiveStatus.tsx).
OutcomeStays == [][(watching \in Terminal) => badge' = badge]_dashVars

\* What the page shows, or is told by an answer on its way, the row has reached:
\* however old an answer is and however many workers write by id, no badge,
\* section or poll is ahead of the row, and an outcome shown is never undone.
PageNeverAhead ==
    LET told == {badge, watching, section} \cup {poll[p] : p \in Polls}
    IN  /\ told \cap ServiceStatus # {} => status[Watched] # "NONE"
        /\ "IN_PROGRESS" \in told => status[Watched] \in {"IN_PROGRESS"} \cup Terminal
        /\ told \cap Terminal # {} => status[Watched] \in Terminal

\* The page was told CONFIRMED while the row was in doubt: polling has stopped,
\* and that the row was failed after all is never told.
Misled(x) == x = "CONFIRMED" /\ status[Watched] = "FAILED" /\ faults > 0

\* The open page gets to show the outcome, badge and section, without a reload
\* (LiveStatus.tsx:18), or was misled by a lost answer: polling stops neither too
\* early nor for ever ignored.
OutcomeShown ==
    OrgOf[Watched] # NoOrg =>
        ((badge # "closed") ~> \/ badge \in Terminal /\ badge = status[Watched] /\ section = badge
                               \/ Misled(badge))

=============================================================================
