------------------------------ MODULE RunsPage ------------------------------
(***************************************************************************)
(* The page people work on (page/runs/runs.js) against the server of       *)
(* PolicyApproval.  The page has a list, with the approval queue and the   *)
(* row of the Run, and a dialog with the Run's detail.  Both show what the *)
(* server once returned, and a button sends what is shown beside it.       *)
(* Requests and answers may be late, lost or out of order, and a render    *)
(* replaces buttons that still wait for an answer.                         *)
(*                                                                         *)
(* What the requests on the Run itself do is RunLifecycle's, WorkflowEngine's*)
(* and P2PPlanning's; RunAfter keeps of it what the page reads.            *)
(***************************************************************************)
EXTENDS PolicyApproval

CONSTANTS
  MaxLoads,   \* reads of one view under way at a time
  MaxClicks   \* buttons pressed in one behaviour

VARIABLES
  seat,   \* the user whose page this is
  run,    \* what the page can read of the Run
  views,  \* the list and the dialog
  clicks  \* buttons pressed so far

page == <<seat, run, views, clicks>>
records == <<actions, policies, approvals, reservations, held>>

Kinds == {"list", "dialog"}
NoRow == [state |-> NoText, p2p |-> FALSE, goal |-> NoText, ready |-> FALSE, asks |-> FALSE, revision |-> 0]
\* cards, row: what is shown; form: the goal dialog is open; busy: the disabled buttons;
\* asked: reads sent; answers: what was read and is on its way back
Empty == [cards |-> {}, row |-> NoRow, form |-> FALSE, loading |-> FALSE, busy |-> {}, asked |-> 0, answers |-> {}]
Blanked(v) == [v EXCEPT !.cards = {}, !.row = NoRow, !.busy = {}]
Asking(v) == [v EXCEPT !.asked = @ + 1]
Loading(v) == [Asking(Blanked(v)) EXCEPT !.loading = TRUE]
MayLoad(v) == v.asked + Cardinality(v.answers) < MaxLoads

---------------------------------------------------------------------------
(***************************************************************************)
(* Buttons, each <<action, op, arg>>.                                      *)
(***************************************************************************)
Mine(card) == IF P2P(card.action) THEN card.last = seat ELSE seat = Initiator
\* build_governance_panel
PanelOps(card) ==
  {op \in {"decide", "execute", "reconcile"} :
     CASE op = "decide" -> card.state = "AWAITING_APPROVAL" /\ Mine(card)
       [] op = "execute" -> card.state = "APPROVED" /\ card.reservation = Unreserved /\ Mine(card)
       [] op = "reconcile" -> card.reservation = [by |-> seat, status |-> "RECONCILIATION_REQUIRED"]}
\* render_approval_queue
QueueOps(card) == IF card.state = "APPROVED" THEN {"execute"} ELSE {"decide"}
CardButtons(p) ==
  LET Offered(card) == IF p = "list" THEN QueueOps(card) ELSE PanelOps(card)
      Sends(card, op) == {<<card.action, op, arg>> : arg \in Args(op)}
  IN UNION {UNION {Sends(card, op) : op \in Offered(card)} : card \in views[p].cards}
Terminal(row) == row.state \in {"SUCCEEDED", "FAILED", "CANCELLED", "EXPIRED"}
\* render: the row of a Run
RowOps(row) ==
  {op \in {"analyze", "plan", "cancel"} :
     CASE op = "analyze" -> row.state = "CREATED"
       [] op = "plan" -> row.state = "PROPOSED"
       [] op = "cancel" -> row.state \in {"CREATED", "ANALYZING"}}
\* build_p2p_chain_panel, the goal dialog and render_workflow_content
DetailOps(row, form) ==
  {op \in {"options", "goal", "investigate", "resume", "finalize", "stop", "answer"} :
     CASE op = "options" -> row.p2p /\ ~Terminal(row) /\ row.goal \in {"MISSING", "STALE"}
       [] op = "goal" -> form
       [] op \in {"investigate", "resume"} -> row.p2p /\ ~Terminal(row) /\ row.goal = "CONFIRMED"
       [] op = "finalize" -> row.p2p /\ ~Terminal(row) /\ row.ready
       [] op = "stop" -> row.p2p /\ ~Terminal(row) /\ ~row.ready
       [] op = "answer" -> row.asks}
RunButtons(p) ==
  {<<"run", "run", op>> : op \in
     IF seat # Initiator THEN {} ELSE IF p = "list" THEN RowOps(views[p].row) ELSE DetailOps(views[p].row, views[p].form)}
Button(c) == <<calls[c].action, calls[c].op, calls[c].arg>>
Shown(p, a) == IF a = "run" THEN Blank ELSE (CHOOSE card \in views[p].cards : card.action = a).content

(***************************************************************************)
(* Reads.                                                                  *)
(***************************************************************************)
\* A render drops the buttons it replaces: the requests they sent have none to give back
Detached(kinds) ==
  [c \in Calls |-> IF calls[c].from \in kinds THEN [calls[c] EXCEPT !.attached = FALSE] ELSE calls[c]]
\* The page is opened or reloaded: refresh()
OpenPage ==
  /\ MayLoad(views["list"]) /\ views["list"].asked = 0
  /\ views' = [views EXCEPT !["list"] = Loading(@), !["dialog"] = [Blanked(@) EXCEPT !.form = FALSE]]
  /\ calls' = Detached(Kinds)
  /\ UNCHANGED <<records, seat, run, clicks>>
\* show_detail: its button stays enabled
ShowDetail ==
  /\ MayLoad(views["dialog"]) /\ views["list"].row # NoRow
  /\ views' = [views EXCEPT !["dialog"] = Asking(@)]
  /\ UNCHANGED <<governance, seat, run, clicks>>
\* list_runs with list_pending_approvals, or get_run
Answered(p) ==
  [cards |-> IF p = "list" THEN Queue(seat) ELSE RunDetail(seat),
   row |-> IF MayReadRun(seat) THEN run ELSE NoRow]
ServeRead(p) ==
  /\ views[p].asked > 0
  /\ views' = [views EXCEPT ![p].asked = @ - 1, ![p].answers = @ \cup {Answered(p)}]
  /\ UNCHANGED <<governance, seat, run, clicks>>
\* render, or a new dialog over the old one
Render(p, answer, cards) ==
  /\ views' = [views EXCEPT ![p] = [views[p] EXCEPT !.cards = cards, !.row = answer.row, !.loading = FALSE,
                                                    !.busy = {}, !.answers = @ \ {answer}]]
  /\ calls' = Detached({p})
  /\ UNCHANGED <<records, seat, run, clicks>>
\* list_pending_approvals failed: the Runs are shown without the queue
RenderRuns(answer) == Render("list", answer, {})
\* A read fails: the list says so; the dialog does not open
ReadFails(p) ==
  LET left == IF p = "list" THEN Blanked(views[p]) ELSE views[p] IN
  /\ views[p].asked > 0
  /\ views' = [views EXCEPT ![p] = [left EXCEPT !.asked = @ - 1, !.loading = FALSE]]
  /\ calls' = IF p = "list" THEN Detached({p}) ELSE calls
  /\ UNCHANGED <<records, seat, run, clicks>>

(***************************************************************************)
(* Writes.                                                                 *)
(***************************************************************************)
\* governance_call, p2p_run_call, start_analysis, start_planning, cancel_run, resume: the
\* button is disabled and sends the digest and key, or the workflow revision, beside it
Press(c, p, b) ==
  /\ calls[c].phase = "idle" /\ clicks < MaxClicks /\ b \notin views[p].busy
  /\ calls' = [calls EXCEPT ![c] = [Sent(seat, b[2], b[1], b[3], Shown(p, b[1]), p)
                                      EXCEPT !.version = views[p].row.revision]]
  /\ views' = [views EXCEPT ![p].busy = @ \cup {b}]
  /\ clicks' = clicks + 1
  /\ UNCHANGED <<records, seat, run>>

\* The rows a request on the Run may leave; none if it is refused
RunAfter(op, revision) ==
  CASE op = "analyze" /\ run.state = "CREATED" ->
         {[run EXCEPT !.state = "PROPOSED"], [run EXCEPT !.state = "FAILED"],
          [run EXCEPT !.state = "ANALYZING", !.asks = TRUE, !.revision = 1]}
    [] op = "plan" /\ run.state = "PROPOSED" -> {run}
    [] op = "cancel" /\ run.state \in {"CREATED", "ANALYZING"} -> {[run EXCEPT !.state = "CANCELLED", !.asks = FALSE]}
    [] op = "options" -> {run}
    [] op = "goal" /\ ~Terminal(run) -> {[run EXCEPT !.goal = "CONFIRMED", !.ready = FALSE]}
    [] op \in {"investigate", "resume"} /\ ~Terminal(run) /\ run.goal = "CONFIRMED" ->
         {[run EXCEPT !.ready = TRUE], [run EXCEPT !.goal = "STALE"], run}
    [] op = "finalize" /\ ~Terminal(run) /\ run.ready -> {[run EXCEPT !.state = "SUCCEEDED"]}
    [] op = "stop" /\ ~Terminal(run) -> {[run EXCEPT !.state = "CANCELLED"]}
    [] op = "answer" /\ run.asks /\ revision = run.revision ->
         {[run EXCEPT !.asks = FALSE, !.state = "PROPOSED"], [run EXCEPT !.revision = @ + 1]}
    [] OTHER -> {}
ServeRun(c) ==
  LET next == RunAfter(calls[c].arg, calls[c].version) IN
  /\ calls[c].phase = "sent" /\ calls[c].op = "run"
  /\ IF next = {} THEN UNCHANGED run ELSE run' \in next
  /\ calls' = [calls EXCEPT ![c] = [@ EXCEPT !.phase = "answered", !.ok = next # {}, !.content = run']]
  /\ UNCHANGED <<records, seat, views, clicks>>

\* An answer of ok: the dialog it came from closes, the list is read again, the detail shown again
Closes(c) == calls[c].from = "dialog" /\ calls[c].arg \notin {"answer", "options"}
Reopens(c) == Closes(c) \/ calls[c].arg \in {"analyze", "plan"}
Reread(v) == IF MayLoad(v) THEN Asking(v) ELSE v
AfterSuccess(c) ==
  LET dialog == views["dialog"]
      left == CASE Closes(c) -> [Blanked(dialog) EXCEPT !.form = FALSE]
                [] calls[c].arg = "answer" /\ calls[c].attached ->
                     [dialog EXCEPT !.row = calls[c].content, !.busy = @ \ {Button(c)}]
                [] OTHER -> dialog
  IN [list |-> Loading(views["list"]), dialog |-> IF Reopens(c) THEN Reread(left) ELSE left]
\* The goal dialog opens over the detail, whose button is given back
AfterOptions(c) ==
  [views EXCEPT !["dialog"].form = TRUE, !["dialog"].busy = IF calls[c].attached THEN @ \ {Button(c)} ELSE @]
\* Mutant: a lost answer leaves the button disabled
AfterSilence(c) == views
\* A fault or no answer: the button is given back, if it is still there
AfterFailure(c) ==
  IF calls[c].attached THEN [views EXCEPT ![calls[c].from].busy = @ \ {Button(c)}] ELSE views

Finish(c, others) == [others EXCEPT ![c] = Idle]
Receive(c) ==
  LET refreshes == calls[c].ok /\ calls[c].arg # "options" IN
  /\ calls[c].phase = "answered"
  /\ \/ /\ refreshes /\ views["list"].asked < MaxLoads
        /\ views' = AfterSuccess(c)
        /\ calls' = Finish(c, Detached(IF Closes(c) THEN Kinds ELSE {"list"}))
     \/ calls[c].ok /\ ~refreshes /\ views' = AfterOptions(c) /\ calls' = Finish(c, calls)
     \/ ~calls[c].ok /\ views' = AfterFailure(c) /\ calls' = Finish(c, calls)
  /\ UNCHANGED <<records, seat, run, clicks>>
\* The request is lost before the server opens it, or its answer on the way back
Lost(c) ==
  /\ calls[c].phase \in {"sent", "answered"} /\ calls[c].from \in Kinds
  /\ views' = AfterFailure(c) /\ calls' = Finish(c, calls)
  /\ UNCHANGED <<records, seat, run, clicks>>

---------------------------------------------------------------------------
PageInit(row) ==
  /\ clicks = 0 /\ seat \in Users /\ run = row
  /\ views = [p \in Kinds |-> Empty]
PageNext ==
  \/ OpenPage \/ ShowDetail
  \/ \E p \in Kinds : ServeRead(p) \/ ReadFails(p) \/ \E answer \in views[p].answers : Render(p, answer, answer.cards)
  \/ \E answer \in views["list"].answers : RenderRuns(answer)
  \/ \E c \in Calls, p \in Kinds : \E b \in CardButtons(p) \cup RunButtons(p) : Press(c, p, b)
  \/ \E c \in Calls : ServeRun(c) \/ Receive(c) \/ Lost(c)

\* The pages with the server: what requests do there, and what happens to the facts
ServerNext ==
  \/ \E c \in Calls : Client(c) \/ ServeWrites(c)
  \/ \E a \in Actions : Settle(a)
  \/ \E fact \in AllFacts : Lose(fact)
\* A Run to analyze, one whose actions are decided or executed, and the same of a P2P Run
InitialRows ==
  {[NoRow EXCEPT !.state = s] : s \in {"CREATED", "AWAITING_APPROVAL", "EXECUTING"}}
  \cup {[NoRow EXCEPT !.state = s, !.p2p = TRUE, !.goal = g] :
          s \in {"AWAITING_APPROVAL", "EXECUTING"}, g \in {"MISSING", "STALE", "CONFIRMED"}}
RunsInit ==
  /\ \E row \in InitialRows : PageInit(row)
  /\ \E stage \in [Actions -> Stages] : GovernanceInit(stage)
RunsNext == PageNext \/ (ServerNext /\ UNCHANGED page)
RunsSpec == RunsInit /\ [][RunsNext]_<<governance, page>>

---------------------------------------------------------------------------
(***************************************************************************)
(* Properties.                                                             *)
(***************************************************************************)
\* A disabled button waits for a request that will give it back, and a list that says it is
\* loading for a read: no answer, late, lost or out of order, leaves the page unusable
PageAnswers ==
  \A p \in Kinds :
    /\ \A b \in views[p].busy : \E c \in Calls :
         calls[c].phase # "idle" /\ calls[c].attached /\ calls[c].from = p /\ Button(c) = b
    /\ views[p].loading => views[p].asked > 0 \/ views[p].answers # {}
\* The page never shows more than the server has recorded: no end of an action or of the Run
\* that did not happen, no approval nobody gave, no content other than the stored
NoFalseSuccess ==
  \A p \in Kinds : \A shown \in views[p].answers \cup {[cards |-> views[p].cards, row |-> views[p].row]} :
    /\ Terminal(shown.row) => run.state = shown.row.state
    /\ \A card \in shown.cards :
         /\ card.content = actions[card.action].content
         /\ card.state \in {"EXECUTED", "DECLINED", "EXPIRED"} => actions[card.action].state = card.state
         /\ card.state = "APPROVED" => Allowing(card.action) # Nobody
=============================================================================
