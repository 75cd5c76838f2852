------------------------------- MODULE Pages --------------------------------
(***************************************************************************)
(* The pages side by side: the one people decide and execute actions on    *)
(* (RunsPage, with its server), and the two a Run is asked for             *)
(* (AskingPages).  They share no state; a Run asked for shows up on the    *)
(* first page as one of its initial rows.                                  *)
(***************************************************************************)
EXTENDS RunsPage

CONSTANTS Documents, Scope, Dialogs, Questions, MaxSubmits  \* of AskingPages

VARIABLES desk, dialogs, form, runs  \* of AskingPages

Ask == INSTANCE AskingPages

asking == <<desk, dialogs, form, runs>>

PagesInit == RunsInit /\ \E doc \in DOMAIN Documents : Ask!AskingInit(doc)
PagesNext ==
  \/ RunsNext /\ UNCHANGED asking
  \/ (Ask!DialogStep \/ Ask!FormStep) /\ UNCHANGED <<governance, page>>
PagesSpec == PagesInit /\ [][PagesNext]_<<governance, page, asking>>

---------------------------------------------------------------------------
\* RunsPage and AskingPages: whatever happens to their requests, the pages stay usable, show
\* only what happened, and an answer is shown with the question and the Run it belongs to.
PagesAreHonest == PageAnswers /\ NoFalseSuccess /\ Ask!DialogsAnswer /\ Ask!FormAnswers
=============================================================================
