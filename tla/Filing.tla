------------------------------- MODULE Filing -------------------------------
(***************************************************************************)
(* Everything a filing goes through before a worker sees it: the form and  *)
(* its POST, then the upload widget, which is part of the page of a staged *)
(* request; beside it other filings of lib/intake.ts.                      *)
(***************************************************************************)
EXTENDS IntakeForm, Documents

filingVars == <<formVars, docVars>>

Init == FormInit /\ DocInit

Next ==
    \/ FormNext /\ UNCHANGED docVars
    \/ left /\ WidgetNext /\ UNCHANGED formVars
    \/ (\E c \in Intakes : IntakeStep(c)) /\ UNCHANGED formVars

Spec == Init /\ [][Next]_filingVars

\* The browser's timers run, and every fetch is answered or fails.
FairSpec ==
    /\ Spec
    /\ WF_formVars(StartLookup)
    /\ WF_formVars(\E up \in BOOLEAN : AnswerLookup(up))

=============================================================================
