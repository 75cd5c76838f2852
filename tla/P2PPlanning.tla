---------------------------- MODULE P2PPlanning ----------------------------
(***************************************************************************)
(* The Frappe-side planner of a procure-to-pay Run.  Requests re-read the  *)
(* ERP facts and the Run's governed Actions, mirror the next step in the   *)
(* Runtime's sidecar checkpoint and persist it as ONE candidate Action,    *)
(* which approvers decide and executors turn into ERP documents.           *)
(*                                                                         *)
(* A request first touches the database, then waits for the Run row lock:  *)
(* under REPEATABLE READ everything it reads afterwards without a lock is  *)
(* the snapshot of its first read.  Writes are protected by the lock, by   *)
(* the timestamp check of Document.save and by unique indexes.             *)
(* One PO row with unit rate; what the executor does inside one action is  *)
(* P2PExecution's subject and is a single step here.                       *)
(***************************************************************************)
EXTENDS Naturals, Sequences, FiniteSets

CONSTANTS
    Requests,     \* planner requests in flight
    NoHolder,     \* nobody holds the Run lock
    NoCandidate,  \* a sidecar step that carries no intent
    Ordered,      \* quantity on the Purchase Order row
    Targets,      \* target quantities a goal may confirm
    UseSidecar,   \* is SYNORA_RUNTIME_TOKEN configured?
    DeskMoves,    \* bound: documents booked by Desk users
    MaxActions,   \* bound: Actions of the Run
    MaxGoal       \* bound: goal versions

ASSUME PlanningAssumption ==
    /\ NoHolder \notin Requests
    /\ Ordered \in Nat /\ Targets \subseteq 1..Ordered
    /\ UseSidecar \in BOOLEAN
    /\ DeskMoves \in Nat /\ MaxActions \in Nat /\ MaxGoal \in Nat \ {0}

Creates == {"CREATE_PR_DRAFT", "CREATE_PI_DRAFT", "CREATE_PAYMENT_ENTRY_DRAFT"}
Submits == {"SUBMIT_PO", "SUBMIT_PR", "SUBMIT_PI", "SUBMIT_PAYMENT_ENTRY"}

\* ACTION_ORDER, in tens.
Rank == [SUBMIT_PO |-> 1, CREATE_PR_DRAFT |-> 2, SUBMIT_PR |-> 3, CREATE_PI_DRAFT |-> 4,
         SUBMIT_PI |-> 5, CREATE_PAYMENT_ENTRY_DRAFT |-> 6, SUBMIT_PAYMENT_ENTRY |-> 7]

\* The draft each CREATE makes and the SUBMIT that promotes it, in the order
\* in which _next_candidate_intent looks for unfinished drafts.
Stages == << [create |-> "CREATE_PR_DRAFT", submit |-> "SUBMIT_PR", kind |-> "PR"],
             [create |-> "CREATE_PI_DRAFT", submit |-> "SUBMIT_PI", kind |-> "PI"],
             [create |-> "CREATE_PAYMENT_ENTRY_DRAFT", submit |-> "SUBMIT_PAYMENT_ENTRY",
              kind |-> "PE"] >>

\* What a candidate is about: GovernedActionIntent, also the step's identity.
CandidateIntents == [goal: Nat, ver: Nat, type: Creates \cup Submits, src: Nat, qty: Nat]

W == INSTANCE WorkflowEngine WITH Intents <- CandidateIntents, NoIntent <- NoCandidate

VARIABLES
    run,      \* [state, ver, goal, target]: the Run record
    docs,     \* ERP documents; docs[1] is the Purchase Order
    actions,  \* the Run's governed P2P Actions, oldest first
    sidecar,  \* the Runtime checkpoint of this Run
    lock,     \* holder of the Run row lock
    req       \* [Requests -> what a planner request is doing]

planVars == <<run, docs, actions, sidecar, lock, req>>

RunStates == {"PROPOSED", "EXECUTING", "RECONCILIATION_REQUIRED", "SUCCEEDED", "CANCELLED"}
OpenStates == {"AWAITING_APPROVAL", "APPROVED"}
Doc == [kind: {"PO", "PR", "PI", "PE"}, qty: 0..Ordered, from: Nat, submitted: BOOLEAN,
        governed: BOOLEAN]
Action == [intent: CandidateIntents, n: Nat, state: OpenStates \cup
           {"POLICY_REJECTED", "DECLINED", "EXPIRED", "EXECUTED"},
           receipt: {"none", "ok", "failed", "uncertain"}, tgt: Nat, step: Nat]
NoRequest == [pc |-> "idle", op |-> "none", run |-> [state |-> "PROPOSED", ver |-> 0, goal |-> 0,
         target |-> 0], docs |-> <<>>, actions |-> <<>>, stale |-> FALSE]

PlanTypeOK ==
    /\ run \in [state: RunStates, ver: Nat, goal: 1..MaxGoal, target: Targets]
    /\ docs \in Seq(Doc) /\ actions \in Seq(Action) /\ Len(actions) <= MaxActions
    /\ \A k \in DOMAIN actions :
         actions[k].receipt \in {"ok", "uncertain"} => actions[k].tgt \in DOMAIN docs
    /\ sidecar \in W!Workflow /\ sidecar.cur <= Len(sidecar.steps)
    /\ lock \in Requests \cup {NoHolder}
    /\ \A q \in Requests : req[q].pc \in {"idle", "lock", "plan", "insert"}

PlanInit ==
    /\ run \in {[state |-> "PROPOSED", ver |-> 0, goal |-> 1, target |-> t] : t \in Targets}
    /\ docs = <<[kind |-> "PO", qty |-> Ordered, from |-> 0, submitted |-> FALSE,
                 governed |-> FALSE]>>
    /\ actions = <<>> /\ sidecar = W!NoWorkflow /\ lock = NoHolder
    /\ req = [q \in Requests |-> NoRequest]

----------------------------------------------------------------------------
(* ERP facts                                                               *)

Booked(ds, kind) == {i \in DOMAIN ds : ds[i].kind = kind /\ ds[i].submitted}
\* Quantities are counted unit by unit.
Total(ds, S) == Cardinality(UNION {{i} \X (1..ds[i].qty) : i \in S})
BookedQty(ds, kind) == Total(ds, Booked(ds, kind))
\* Submitted successors of document i, e.g. the invoices of a receipt.
Billed(ds, i) == Total(ds, {j \in DOMAIN ds : ds[j].from = i /\ ds[j].submitted})
Outstanding(ds) == BookedQty(ds, "PI") - BookedQty(ds, "PE")
Smaller(a, b) == IF a < b THEN a ELSE b
Oldest(S) == CHOOSE i \in S : \A j \in S : i <= j

----------------------------------------------------------------------------
(* Pure planning                                                           *)

Succeeded(a) == a.receipt = "ok"

\* A document and the documents it was made from.
Lineage(ds, i) ==
    LET up(j) == IF j = 0 THEN 0 ELSE ds[j].from
    IN  {i, up(i), up(up(i))} \ {0}

\* _related_refs: the source, and with a receipt its target and the links
\* the read-back recorded.
Refs(a, ds) == {a.intent.src} \cup (IF Succeeded(a) THEN Lineage(ds, a.tgt) ELSE {})

\* infer_dependencies: earlier Actions of a lower rank that share a document.
Dependencies(as, ds, k) ==
    {j \in 1..(k - 1) : /\ Rank[as[j].intent.type] < Rank[as[k].intent.type]
                        /\ Refs(as[j], ds) \cap Refs(as[k], ds) # {}}

\* _current_candidate: an Action that still needs a decision or a recovery.
Open(a) == a.state \in OpenStates \/ a.receipt = "uncertain"

\* derive_step_views, first pass: what the rows of an Action say on their own.
Projected(a) ==
    CASE Succeeded(a) -> "SUCCEEDED"
      [] a.receipt = "failed" \/ a.state \in {"POLICY_REJECTED", "DECLINED"} -> "FAILED"
      [] a.receipt = "uncertain" -> "RECONCILIATION_REQUIRED"
      [] a.receipt = "none" /\ a.state = "AWAITING_APPROVAL" -> "WAITING_APPROVAL"
      [] a.receipt = "none" /\ a.state = "APPROVED" -> "READY"
      [] OTHER -> "EXPIRED"

\* derive_step_views, second pass: a step that is not over waits for the
\* steps it depends on, or is blocked by one that came to nothing.
StepView(as, ds, k) ==
    LET own == Projected(as[k])
        before == {Projected(as[j]) : j \in Dependencies(as, ds, k)}
    IN  IF own \notin {"WAITING_APPROVAL", "READY"} THEN own
        ELSE IF before \cap {"FAILED", "RECONCILIATION_REQUIRED", "EXPIRED"} # {} THEN "BLOCKED"
        ELSE IF before \subseteq {"SUCCEEDED"} THEN own ELSE "WAITING_DEPENDENCY"

\* p2p_goal_progress: received, billed and paid up to the target.
GoalReached(r, ds) ==
    /\ BookedQty(ds, "PR") >= r.target /\ BookedQty(ds, "PI") >= r.target
    /\ Outstanding(ds) = 0

\* chain_from_entries: may the Run be closed?
CompletionReady(r, as, ds) ==
    /\ as # <<>> /\ \A k \in DOMAIN as : StepView(as, ds, k) = "SUCCEEDED"
    /\ GoalReached(r, ds)

Intent(r, type, src, qty) ==
    [goal |-> r.goal, ver |-> r.ver, type |-> type, src |-> src, qty |-> qty]

\* _pending_draft_intent: governed drafts that no governed submit promoted.
Unpromoted(as, ds, s) ==
    {i \in DOMAIN ds :
        /\ ds[i].kind = Stages[s].kind /\ ~ ds[i].submitted
        /\ \E k \in DOMAIN as : as[k].intent.type = Stages[s].create /\ Succeeded(as[k])
                                /\ as[k].tgt = i
        /\ ~ \E k \in DOMAIN as : as[k].intent.type = Stages[s].submit /\ Succeeded(as[k])
                                  /\ as[k].intent.src = i}

Invoiceable(r, ds) ==
    {i \in Booked(ds, "PR") : Billed(ds, i) < ds[i].qty /\ BookedQty(ds, "PI") < r.target}

Payable(ds) == {i \in Booked(ds, "PI") : Billed(ds, i) < ds[i].qty}

\* _next_candidate_intent: unfinished drafts first, then the next stage whose
\* facts are short of the target.  The set is empty or a singleton.
NextIntent(r, as, ds) ==
    LET drafts == {s \in DOMAIN Stages : Unpromoted(as, ds, s) # {}}
        recv   == BookedQty(ds, "PR")
        bill   == BookedQty(ds, "PI")
    IN  IF drafts # {}
        THEN LET s == Oldest(drafts)
             IN  {Intent(r, Stages[s].submit, Oldest(Unpromoted(as, ds, s)), 0)}
        ELSE IF ~ ds[1].submitted THEN {Intent(r, "SUBMIT_PO", 1, 0)}
        ELSE IF recv < r.target THEN {Intent(r, "CREATE_PR_DRAFT", 1, r.target - recv)}
        ELSE IF bill < r.target
        THEN {Intent(r, "CREATE_PI_DRAFT", i, Smaller(ds[i].qty - Billed(ds, i), r.target - bill))
                : i \in IF Invoiceable(r, ds) = {} THEN {} ELSE {Oldest(Invoiceable(r, ds))}}
        ELSE {Intent(r, "CREATE_PAYMENT_ENTRY_DRAFT", i, ds[i].qty - Billed(ds, i))
                : i \in IF Payable(ds) = {} THEN {} ELSE {Oldest(Payable(ds))}}

----------------------------------------------------------------------------
(* The sidecar, as plan_governed_action and complete_governed_action leave *)
(* it; what a crash in between leaves is WorkflowRuntime's subject.        *)

Awaits(intent) ==
    /\ sidecar.cur # 0 /\ sidecar.steps[sidecar.cur].status = "WAITING"
    /\ sidecar.steps[sidecar.cur].intent = intent

Awaited(st) == W!Waiting(W!Begun(st))

\* Mutant: a waiting step does not keep another intent out.
AcceptsAlways(intent) == TRUE

\* The states in which the sidecar accepts an intent, and what it becomes.
Accepts(intent) ==
    \/ sidecar.steps = <<>>
    \/ Awaits(intent)
    \/ /\ sidecar.status = "SUCCEEDED"
       /\ \A i \in DOMAIN sidecar.steps : sidecar.steps[i].intent # intent

Planned(intent) ==
    CASE sidecar.steps = <<>> ->
            Awaited(W!Started(W!CreateState(<<W!Fresh("GOVERNED_ACTION", intent)>>)))
      [] Awaits(intent) -> sidecar
      [] OTHER -> Awaited(W!Replanned(sidecar, intent))

\* Mutant: any terminal receipt completes the sidecar's step.
ReportedAny(as) ==
    LET done == {k \in DOMAIN as : as[k].receipt # "none" /\ as[k].step # 0}
        k    == CHOOSE j \in done : \A i \in done : i <= j
    IN  IF ~ UseSidecar \/ done = {} \/ sidecar.steps[as[k].step].status = "SUCCEEDED"
        THEN sidecar ELSE W!Completed(sidecar, as[k].step)

\* _complete_runtime_for_entries: only the newest successful receipt counts.
Reported(as) ==
    LET done == {k \in DOMAIN as : Succeeded(as[k]) /\ as[k].step # 0}
        k    == CHOOSE j \in done : \A i \in done : i <= j
    IN  IF ~ UseSidecar \/ done = {} \/ sidecar.steps[as[k].step].status = "SUCCEEDED"
        THEN sidecar ELSE W!Completed(sidecar, as[k].step)

----------------------------------------------------------------------------
(* Planner requests                                                        *)

\* The PlanStep projection is saved: snapshots taken before are out of date.
Outdated(rs) == [p \in Requests |-> [rs[p] EXCEPT !.stale = rs[p].pc # "idle"]]

Answered(q) == [req EXCEPT ![q] = NoRequest]
Unlock(q) == lock' = IF lock = q THEN NoHolder ELSE lock
Finish(q) == req' = Answered(q) /\ Unlock(q)

\* The first read of the request fixes its snapshot.
Begin(q, op) ==
    /\ req[q].pc = "idle"
    /\ run.state \notin {"SUCCEEDED", "CANCELLED"}
    /\ req' = [req EXCEPT ![q] = [pc |-> "lock", op |-> op, run |-> run, docs |-> docs,
                                  actions |-> actions, stale |-> FALSE]]
    /\ UNCHANGED <<run, docs, actions, sidecar, lock>>

\* _set_run_state and _mark_terminal: Document.save refuses a Run that was
\* saved since it was read.
SaveRun(q, new) ==
    run' = IF req[q].run = run THEN new ELSE run

\* sync_p2p_plan_steps saves every PlanStep, whose timestamps are checked.
StepsAreStale(q) == req[q].actions # <<>> /\ req[q].stale
Synced(q, rs) == IF req[q].actions = <<>> THEN rs ELSE Outdated(rs)

\* investigate_p2p_run: lock the Run and refresh the projection.
Investigate(q) ==
    /\ req[q].pc = "lock" /\ req[q].op = "investigate" /\ lock = NoHolder
    /\ \/ StepsAreStale(q) /\ Finish(q)
       \/ /\ ~ StepsAreStale(q) /\ lock' = q
          /\ req' = Synced(q, [req EXCEPT ![q].pc = "plan"])
    /\ UNCHANGED <<run, docs, actions, sidecar>>

\* live_reinvestigation: a document no longer reads back as its Receipt says.
\* A created draft is compared with the status it was created with.
Drifted(q) ==
    \E k \in DOMAIN req[q].actions :
        LET a == req[q].actions[k]
        IN  Succeeded(a) /\ a.intent.type \in Creates /\ req[q].docs[a.tgt].submitted

\* resume_p2p_run: as investigate, unless a receipt drifted: then the Run is
\* frozen for reconciliation.
Resume(q) ==
    /\ req[q].pc = "lock" /\ req[q].op = "resume" /\ lock = NoHolder
    /\ \/ StepsAreStale(q) /\ Finish(q) /\ UNCHANGED run
       \/ /\ ~ StepsAreStale(q) /\ ~ Drifted(q) /\ lock' = q
          /\ req' = Synced(q, [req EXCEPT ![q].pc = "plan"])
          /\ UNCHANGED run
       \/ /\ ~ StepsAreStale(q) /\ Drifted(q)
          /\ req' = Synced(q, Answered(q)) /\ Unlock(q)
          /\ IF req[q].run.state = "EXECUTING"
             THEN SaveRun(q, [run EXCEPT !.state = "RECONCILIATION_REQUIRED", !.ver = @ + 1])
             ELSE UNCHANGED run
    /\ UNCHANGED <<docs, actions, sidecar>>

\* _plan_next_p2p_candidate up to the sidecar's answer, on the snapshot.
Plan(q) ==
    LET r  == req[q].run
        as == req[q].actions
        ds == req[q].docs
        next == NextIntent(r, as, ds)
    IN  /\ req[q].pc = "plan"
        /\ \/ /\ (\E k \in DOMAIN as : Open(as[k])) /\ Finish(q) /\ UNCHANGED sidecar
           \/ /\ \A k \in DOMAIN as : ~ Open(as[k])
              /\ next = {} /\ sidecar' = Reported(as) /\ Finish(q)
           \/ /\ \A k \in DOMAIN as : ~ Open(as[k])
              /\ next # {} /\ sidecar' = Reported(as)
              /\ req' = [req EXCEPT ![q].pc = "insert"] /\ UNCHANGED lock
        /\ UNCHANGED <<run, docs, actions>>

\* The sidecar is asked to plan the intent, then the candidate is inserted:
\* its key is unique, its identity gate wants an active Run.  A refusal
\* anywhere rolls the request back, the sidecar keeps what it has.
Insert(q) ==
    LET r == req[q].run
        c == CHOOSE i \in NextIntent(r, req[q].actions, req[q].docs) : TRUE
        n == Len(req[q].actions) + 1
        taken  == \E k \in DOMAIN actions : actions[k].n = n /\ actions[k].intent.goal = c.goal
                    /\ [actions[k].intent EXCEPT !.ver = c.ver] = c
        active == r.state \in {"PROPOSED", "EXECUTING"}
        new(s) == [intent |-> c, n |-> n, state |-> s, receipt |-> "none", tgt |-> 0,
                   step |-> IF UseSidecar THEN sidecar'.cur ELSE 0]
    IN  /\ req[q].pc = "insert" /\ Len(actions) < MaxActions
        /\ sidecar' = IF UseSidecar /\ Accepts(c) THEN Planned(c) ELSE sidecar
        /\ IF (UseSidecar => Accepts(c)) /\ ~ taken /\ active
           THEN /\ \E s \in {"AWAITING_APPROVAL", "POLICY_REJECTED"} :
                     actions' = Append(actions, new(s))
                /\ req' = Outdated(Answered(q))
           ELSE req' = Answered(q) /\ UNCHANGED actions
        /\ Unlock(q)
        /\ UNCHANGED <<run, docs>>

\* confirm_p2p_goal: a new goal expires the candidates of the old one.
ConfirmGoal(q, t) ==
    /\ req[q].pc = "lock" /\ req[q].op = "confirm" /\ lock = NoHolder
    /\ IF req[q].run = run /\ run.goal < MaxGoal /\ t # run.target
       THEN /\ run' = [run EXCEPT !.goal = @ + 1, !.target = t]
            /\ actions' = [k \in DOMAIN actions |->
                 IF k \in DOMAIN req[q].actions /\ req[q].actions[k].state \in OpenStates
                    /\ actions[k].state \in OpenStates
                 THEN [actions[k] EXCEPT !.state = "EXPIRED"] ELSE actions[k]]
       ELSE UNCHANGED <<run, actions>>
    /\ Finish(q)
    /\ UNCHANGED <<docs, sidecar>>

\* finalize_p2p_run: on the facts of the snapshot.
Finalize(q) ==
    /\ req[q].pc = "lock" /\ req[q].op = "finalize" /\ lock = NoHolder
    /\ IF /\ CompletionReady(req[q].run, req[q].actions, req[q].docs)
          /\ req[q].run.state \in {"EXECUTING", "RECONCILIATION_REQUIRED"}
       THEN SaveRun(q, [run EXCEPT !.state = "SUCCEEDED", !.ver = @ + 1])
       ELSE UNCHANGED run
    /\ Finish(q)
    /\ UNCHANGED <<docs, actions, sidecar>>

\* cancel_p2p_run: refused while a side effect is uncertain.
Cancel(q) ==
    /\ req[q].pc = "lock" /\ req[q].op = "cancel" /\ lock = NoHolder
    /\ IF \A k \in DOMAIN req[q].actions : req[q].actions[k].receipt # "uncertain"
       THEN SaveRun(q, [run EXCEPT !.state = "CANCELLED", !.ver = @ + 1])
       ELSE UNCHANGED run
    /\ Finish(q)
    /\ UNCHANGED <<docs, actions, sidecar>>

----------------------------------------------------------------------------
(* Approvers, executors and Desk users                                     *)

Active == run.state \in {"PROPOSED", "EXECUTING"}

\* decide_action, and the expiry found by a later decision or execution.
Decide(k, s) ==
    /\ lock = NoHolder /\ k \in DOMAIN actions
    /\ \/ actions[k].state = "AWAITING_APPROVAL" /\ s \in {"APPROVED", "DECLINED"} /\ Active
       \/ actions[k].state \in OpenStates /\ s = "EXPIRED"
    /\ actions' = [actions EXCEPT ![k].state = s]
    /\ req' = Outdated(req)
    /\ UNCHANGED <<run, docs, sidecar, lock>>

\* pre_execute_recheck: the current facts still allow the write.
Executable(a) ==
    LET i == a.intent.src
        draft(kind) == ~ \E j \in DOMAIN docs : docs[j].kind = kind /\ docs[j].from = i
                                               /\ ~ docs[j].submitted
    IN  CASE a.intent.type \in Submits -> ~ docs[i].submitted
          [] a.intent.type = "CREATE_PR_DRAFT" ->
               docs[1].submitted /\ a.intent.qty + Billed(docs, 1) <= Ordered /\ draft("PR")
          [] OTHER -> docs[i].submitted /\ a.intent.qty + Billed(docs, i) <= docs[i].qty
                      /\ draft(IF a.intent.type = "CREATE_PI_DRAFT" THEN "PI" ELSE "PE")

Kind(type) == CHOOSE kind \in {"PR", "PI", "PE"} : \E s \in DOMAIN Stages :
                 Stages[s].create = type /\ Stages[s].kind = kind

\* The ERP effect of an executed action, and the document it names.
Effect(a) ==
    IF a.intent.type \in Submits
    THEN [docs EXCEPT ![a.intent.src].submitted = TRUE]
    ELSE Append(docs, [kind |-> Kind(a.intent.type), qty |-> a.intent.qty,
                       from |-> a.intent.src, submitted |-> FALSE, governed |-> TRUE])

Target(a) == IF a.intent.type \in Submits THEN a.intent.src ELSE Len(docs) + 1

MayExecute(k) ==
    /\ k \in DOMAIN actions /\ actions[k].state = "APPROVED" /\ lock = NoHolder /\ Active
    /\ actions[k].receipt = "none"
    /\ \A j \in Dependencies(actions, docs, k) :
         actions[j].state = "EXECUTED" /\ Succeeded(actions[j])
    /\ Executable(actions[k])

Moved == [run EXCEPT !.ver = @ + (IF run.state = "EXECUTING" THEN 0 ELSE 2),
                     !.state = "EXECUTING"]

Execute(k) ==
    /\ MayExecute(k)
    /\ \/ /\ docs' = Effect(actions[k])
          /\ actions' = [actions EXCEPT ![k].state = "EXECUTED", ![k].receipt = "ok",
                                        ![k].tgt = Target(actions[k])]
          /\ run' = Moved
       \/ /\ actions' = [actions EXCEPT ![k].state = "EXPIRED", ![k].receipt = "failed"]
          /\ run' = Moved /\ UNCHANGED docs
       \/ /\ actions' = [actions EXCEPT ![k].receipt = "uncertain",
                                        ![k].tgt = Target(actions[k])]
          /\ docs' = Effect(actions[k])
          /\ run' = [Moved EXCEPT !.state = "RECONCILIATION_REQUIRED", !.ver = @ + 1]
    /\ req' = Outdated(req)
    /\ UNCHANGED <<sidecar, lock>>

\* reconcile_p2p_action finds the effect and records it.
Reconcile(k) ==
    /\ k \in DOMAIN actions /\ actions[k].receipt = "uncertain" /\ lock = NoHolder
    /\ actions' = [actions EXCEPT ![k].state = "EXECUTED", ![k].receipt = "ok"]
    /\ req' = Outdated(req)
    /\ UNCHANGED <<run, docs, sidecar, lock>>

\* A Desk user submits the order or books a receipt on their own.
DeskBooks ==
    /\ \/ ~ docs[1].submitted /\ docs' = [docs EXCEPT ![1].submitted = TRUE]
       \/ /\ docs[1].submitted /\ Billed(docs, 1) < Ordered
          /\ Cardinality({i \in DOMAIN docs : i # 1 /\ ~ docs[i].governed}) < DeskMoves
          /\ docs' = Append(docs, [kind |-> "PR", qty |-> 1, from |-> 1, submitted |-> TRUE,
                                   governed |-> FALSE])
    /\ UNCHANGED <<run, actions, sidecar, lock, req>>

----------------------------------------------------------------------------
PlannerStep(q) ==
    \/ \E op \in {"investigate", "resume", "confirm", "finalize", "cancel"} : Begin(q, op)
    \/ Investigate(q) \/ Resume(q) \/ Plan(q) \/ Insert(q)
    \/ \E t \in Targets : ConfirmGoal(q, t)
    \/ Finalize(q) \/ Cancel(q)

PlanNext ==
    \/ \E q \in Requests : PlannerStep(q)
    \/ \E k \in 1..MaxActions :
         \/ \E s \in {"APPROVED", "DECLINED", "EXPIRED"} : Decide(k, s)
         \/ Execute(k) \/ Reconcile(k)
    \/ DeskBooks

PlanSpec == PlanInit /\ [][PlanNext]_planVars

----------------------------------------------------------------------------
(* Properties                                                              *)

\* "persist at most one current candidate": however planner requests race on
\* stale snapshots, a Run never has two Actions awaiting a decision.
OneCandidate == Cardinality({k \in DOMAIN actions : Open(actions[k])}) <= 1

\* The sidecar advances only from durable receipts: a governed step counts as
\* done only if an Action planned as that step has a successful Receipt.
SidecarFollowsReceipts ==
    \A i \in DOMAIN sidecar.steps : sidecar.steps[i].status = "SUCCEEDED" =>
        \E k \in DOMAIN actions : actions[k].step = i /\ Succeeded(actions[k])

\* "Promote an already-created draft before creating another draft": governed
\* writes never leave two unsubmitted drafts behind.
OneDraft == Cardinality({i \in DOMAIN docs : docs[i].governed /\ ~ docs[i].submitted}) <= 1

\* The chain page and the executor agree on what may be written next: an Action
\* the executor takes is shown READY, one shown READY waits for nothing.
ReadyMeansExecutable ==
    \A k \in DOMAIN actions :
        /\ MayExecute(k) => StepView(actions, docs, k) = "READY"
        /\ StepView(actions, docs, k) = "READY" =>
              \A j \in Dependencies(actions, docs, k) : actions[j].state = "EXECUTED"

\* However requests race, the chain goes on one candidate and one draft at a time.
OneAtATime == OneCandidate /\ OneDraft

\* Rows are of their types, a step of the checkpoint counts as done only if its Action has a
\* successful Receipt, and the chain page shows READY what the executor takes.
PlanFollowsReceipts == PlanTypeOK /\ SidecarFollowsReceipts /\ ReadyMeansExecutable
=============================================================================
