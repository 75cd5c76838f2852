---------------------------- MODULE AskingPages ----------------------------
(***************************************************************************)
(* The two places a Run is asked for: the "Ask Synora" dialogs of a        *)
(* document's form (public/js/contextual_coach.js), and the New Run page   *)
(* (page/new_run/new_run.js).  A dialog first has a Run issued and then    *)
(* asks its question with the capability it got; the form may move to      *)
(* another document in between.  Requests and answers may be lost.         *)
(*                                                                         *)
(* Of the server, issue_run, ask_coach and start_erp_coach are what the    *)
(* pages see of them; CoachEvidence and CoachAnswer have the rest.         *)
(***************************************************************************)
EXTENDS Integers, Sequences, FiniteSets

CONSTANTS
  Documents,   \* saved documents: name -> [type, company]
  Scope,       \* what the user may read: company -> warehouses
  Dialogs,     \* dialogs opened on the form, one after the other or at once
  Questions,
  MaxSubmits   \* requests for a Run in one behaviour

VARIABLES
  desk,     \* the form: the document on it, and whether what is on it is saved
  dialogs,
  form,     \* the New Run page
  runs      \* Runs the server made: [company, goal]

NoText == "none"
NoAnswer == [question |-> NoText, run |-> 0, doc |-> NoText]
Closed == [open |-> FALSE, busy |-> FALSE, at |-> "idle", question |-> NoText, company |-> NoText, run |-> 0,
           capability |-> FALSE, doc |-> NoText, answer |-> NoAnswer, shown |-> NoAnswer]
Blank ==
  [company |-> NoText, warehouse |-> NoText, purpose |-> "PROCUREMENT_ANALYSIS", type |-> NoText, name |-> NoText]
MayIssue == Len(runs) + Cardinality({d \in Dialogs : dialogs[d].at = "issuing"}) < MaxSubmits
Issue(company, goal) == runs' = Append(runs, [company |-> company, goal |-> goal])

---------------------------------------------------------------------------
(***************************************************************************)
(* contextual_coach.js.                                                    *)
(***************************************************************************)
\* saved_context
SavedContext == desk.saved /\ desk.doc # NoText
Set(d, dialog) == dialogs' = [dialogs EXCEPT ![d] = dialog]
\* finish: the capability is forgotten and the button given back; show_failure first
Finished(dialog) ==
  [Closed EXCEPT !.open = TRUE, !.question = dialog.question, !.shown = dialog.shown]
Failed(dialog) == [Finished(dialog) EXCEPT !.shown = NoAnswer]

\* The user edits, saves, or moves the form to another document of its type
Move(doc, saved) ==
  /\ desk' = [desk EXCEPT !.doc = doc, !.saved = saved]
  /\ UNCHANGED <<dialogs, form, runs>>
OpenDialog(d) ==
  /\ ~dialogs[d].open /\ SavedContext
  /\ Set(d, [Closed EXCEPT !.open = TRUE])
  /\ UNCHANGED <<desk, form, runs>>
\* submit: the last answer stays on the dialog until the next one comes
Submit(d, question) ==
  /\ dialogs[d].open /\ ~dialogs[d].busy /\ SavedContext /\ MayIssue
  /\ Set(d, [dialogs[d] EXCEPT !.busy = TRUE, !.at = "issuing", !.question = question,
                               !.company = Documents[desk.doc].company])
  /\ UNCHANGED <<desk, form, runs>>
\* issue_run
ServeIssue(d) ==
  LET dialog == dialogs[d] IN
  /\ dialog.at = "issuing"
  /\ \/ /\ dialog.company \in DOMAIN Scope
        /\ Issue(dialog.company, dialog.question)
        /\ Set(d, [dialog EXCEPT !.at = "issued", !.run = Len(runs) + 1])
     \/ Set(d, [dialog EXCEPT !.at = "refused"]) /\ UNCHANGED runs
  /\ UNCHANGED <<desk, form>>
\* Its callback: the document is the one on the form by now
Issued(d) ==
  /\ dialogs[d].at = "issued"
  /\ Set(d, [dialogs[d] EXCEPT !.at = "asking", !.capability = TRUE, !.doc = desk.doc])
  /\ UNCHANGED <<desk, form, runs>>
\* ask_coach, which reads the document in the scope of the Run
ServeAsk(d) ==
  LET dialog == dialogs[d] IN
  /\ dialog.at = "asking"
  /\ \/ /\ Documents[dialog.doc].company = runs[dialog.run].company
        /\ Set(d, [dialog EXCEPT !.at = "answered",
                     !.answer = [question |-> dialog.question, run |-> dialog.run, doc |-> dialog.doc]])
     \/ Set(d, [dialog EXCEPT !.at = "refused"])
  /\ UNCHANGED <<desk, form, runs>>
\* Its callback: render_coach
Answered(d) ==
  /\ dialogs[d].at = "answered"
  /\ Set(d, [Finished(dialogs[d]) EXCEPT !.shown = dialogs[d].answer])
  /\ UNCHANGED <<desk, form, runs>>
\* A fault, an answer that cannot be rendered, or a request or answer that is lost
DialogFails(d) ==
  /\ dialogs[d].at # "idle"
  /\ Set(d, Failed(dialogs[d]))
  /\ UNCHANGED <<desk, form, runs>>

---------------------------------------------------------------------------
(***************************************************************************)
(* new_run.js.                                                             *)
(***************************************************************************)
Fresh == [fields |-> Blank, scope |-> "asked", enabled |-> TRUE, at |-> "idle", sent |-> Blank,
          submits |-> 0, coached |-> FALSE]
SetForm(f) == form' = f /\ UNCHANGED <<desk, dialogs>>
\* The only company there is is chosen
Chosen(company) == IF Cardinality(DOMAIN Scope) = 1 THEN CHOOSE c \in DOMAIN Scope : TRUE ELSE company
\* available_scope answers with the companies, with none, or not at all
ScopeArrives ==
  /\ form.scope = "asked"
  /\ \/ SetForm([form EXCEPT !.scope = "known", !.fields.company = Chosen(@)])
     \/ SetForm([form EXCEPT !.scope = "none", !.enabled = FALSE])
  /\ UNCHANGED runs
\* render_warehouses: another company empties the warehouse
WithCompany(fields, company) == [fields EXCEPT !.company = company, !.warehouse = NoText]
\* refresh_coach_context_name: the name goes with the type only when no type is left
WithType(fields, type) == [fields EXCEPT !.type = type, !.name = IF type = NoText THEN NoText ELSE @]
Named(fields) == {n \in DOMAIN Documents : Documents[n].type = fields.type}
Edited ==
  LET f == form.fields IN
  {[f EXCEPT !.purpose = p] : p \in {"PROCUREMENT_ANALYSIS", "P2P_EXECUTION", "ERP_COACH"}}
  \cup (IF form.scope = "known" THEN {WithCompany(f, c) : c \in DOMAIN Scope} ELSE {})
  \cup (IF f.company = NoText THEN {} ELSE {[f EXCEPT !.warehouse = w] : w \in Scope[f.company] \cup {NoText}})
  \cup (IF f.purpose # "ERP_COACH" THEN {}
        ELSE {WithType(f, t) : t \in {NoText, "MR", "PO"}} \cup {[f EXCEPT !.name = n] : n \in Named(f)})
Edit(fields) ==
  /\ fields # form.fields /\ SetForm([form EXCEPT !.fields = fields])
  /\ UNCHANGED runs
\* submit_goal and submit_coach, past their checks
Complete(f) == f.company # NoText /\ (f.purpose = "ERP_COACH" /\ f.type # NoText => f.name # NoText)
SubmitForm ==
  /\ form.enabled /\ form.submits < MaxSubmits /\ Complete(form.fields)
  /\ SetForm([form EXCEPT !.enabled = FALSE, !.at = "sent", !.sent = form.fields, !.submits = @ + 1])
  /\ UNCHANGED runs
\* issue_run or start_erp_coach; a Coach Run needs a document of that type, or none at all
MayStart(sent) ==
  /\ sent.company \in DOMAIN Scope /\ sent.warehouse \in Scope[sent.company] \cup {NoText}
  /\ sent.purpose = "ERP_COACH" /\ sent.type # NoText =>
       Documents[sent.name] = [type |-> sent.type, company |-> sent.company]
ServeForm ==
  /\ form.at = "sent"
  /\ \/ MayStart(form.sent) /\ Issue(form.sent.company, NoText)
        /\ SetForm([form EXCEPT !.at = "made"])
     \/ SetForm([form EXCEPT !.at = "refused"]) /\ UNCHANGED runs
\* The callbacks: a Coach Run that was started leaves the button as it is
FormAnswered ==
  /\ form.at = "made"
  /\ SetForm(IF form.sent.purpose = "ERP_COACH" THEN [form EXCEPT !.at = "idle", !.sent = Blank, !.coached = TRUE]
             ELSE [form EXCEPT !.at = "idle", !.sent = Blank, !.enabled = TRUE])
  /\ UNCHANGED runs
\* A fault, or a request or answer that is lost
FormFails ==
  /\ form.at # "idle"
  /\ SetForm([form EXCEPT !.at = "idle", !.sent = Blank, !.enabled = TRUE])
  /\ UNCHANGED runs

---------------------------------------------------------------------------
AskingInit(doc) ==
  /\ desk = [doc |-> doc, saved |-> TRUE]
  /\ dialogs = [d \in Dialogs |-> Closed]
  /\ form = Fresh /\ runs = <<>>
DialogStep ==
  \/ \E doc \in DOMAIN Documents, saved \in BOOLEAN : Documents[doc].type = Documents[desk.doc].type /\ Move(doc, saved)
  \/ \E d \in Dialogs :
       \/ OpenDialog(d) \/ \E question \in Questions : Submit(d, question)
       \/ ServeIssue(d) \/ Issued(d) \/ ServeAsk(d) \/ Answered(d) \/ DialogFails(d)
FormStep ==
  \/ ScopeArrives \/ \E fields \in Edited : Edit(fields)
  \/ SubmitForm \/ ServeForm \/ FormAnswered \/ FormFails

---------------------------------------------------------------------------
(***************************************************************************)
(* Properties.                                                             *)
(***************************************************************************)
\* A dialog at rest shows the answer to the question asked last, from the Run that was issued
\* for it, about a document of that Run's company; it holds no capability; and no two dialogs
\* share a Run, whatever is lost and however the form moves
DialogsAnswer ==
  \A d \in Dialogs :
    LET dialog == dialogs[d] IN
    /\ dialog.capability => dialog.busy
    /\ ~dialog.busy => dialog.at = "idle"
    /\ \A shown \in {dialog.shown, dialog.answer} \ {NoAnswer} :
         /\ runs[shown.run].goal = shown.question
         /\ runs[shown.run].company = Documents[shown.doc].company
         /\ ~dialog.busy => shown.question = dialog.question
    /\ \A e \in Dialogs \ {d} : dialog.run # 0 => dialogs[e].run # dialog.run
\* The New Run page: a press makes one Run at most, for a warehouse of the company it names, and
\* its button comes back, unless there is no scope to ask in or a Coach Run was started
FormAnswers ==
  /\ (\A d \in Dialogs : ~dialogs[d].open) => Len(runs) <= form.submits
  /\ form.at = "sent" => form.sent.warehouse \in Scope[form.sent.company] \cup {NoText}
  /\ ~form.enabled => form.at # "idle" \/ form.scope = "none" \/ form.coached
=============================================================================
