# Verification of Synora Agentic ERP

Synora lets an agent analyse procurement data and *propose* ERP documents; a
deterministic, governed path decides, executes and accounts for them. This
directory holds TLA+ models of the system, the TLC configurations that check
them, and TLAPS proofs. Paths are relative to the repository root; `app` is
`synora_agentic_erp/`, `runtime` is `services/agent_runtime/src/agent_runtime/`.

## 1. Inventory

### The parts

| Part | Source | State it keeps | Operations | Module |
|---|---|---|---|---|
| Run and its security | `app/gateway/security.py`, `agent/state_machine.py`, `doctype/synora_agent_run` | `run_state`, `status`, capability digest, deadlines | issue, rotate, revoke, cancel, expire, resolve | `RunLifecycle` |
| Agent service | `app/agent/service.py`, `invocation.py` | Run state up to PROPOSED, analyses, plan, tool invocations | analyse (three modes), plan, resume, recover | `RunLifecycle`, `ScopeAnalysis` |
| Policy and approval | `app/governance/policy.py`, `contracts.py`, `state.py`, `service.py` | Proposed Actions, Policy and Approval Decisions | evaluate, decide, recheck, expire | `PolicyApproval` |
| Draft executors | `app/governance/execution.py`, `purchase_order_execution.py`, `execution_contracts.py` | Execution Reservations and Receipts | execute, replay, reconcile | `GovernedExecution` |
| P2P executor | `app/governance/p2p_execution.py` | same ledgers, source locks | submit, create and cancel PO, PR, PI, PE; reconcile | `P2PExecution` |
| P2P orchestration | `app/governance/p2p_orchestration.py` | goals, plan steps, candidates | confirm goal, investigate, plan, finalise, resume, cancel | `P2PPlanning` |
| Tool gateway | `app/gateway/registry.py`, `tools.py`, `contract.py` | none | typed read-only queries | `RunLifecycle` (dispatch), `ScopeAnalysis` (queries) |
| HTTP API | `app/api.py` | none | one endpoint per operation; a `GatewayFault` becomes a response | in all |
| Governed memory | `app/memory/service.py`, `doctype/synora_memory_record` | memory records and their review state | propose, correct, review, delete, recall | `MemoryReview` |
| Coach, app side | `app/coach/service.py`, `api.py` | claims, results, Coach Runs | start, ask, persist, history | `CoachEvidence` |
| Pages | `app/.../page/runs/runs.js`, `page/new_run/new_run.js`, `public/js/contextual_coach.js` | what is shown and awaited | load, press, submit, receive | `RunsPage`, `AskingPages` |
| Runtime workflow | `runtime/workflow/` | SQLite checkpoints, leases | start, plan, advance, resume, complete, cancel, recover | `WorkflowEngine`, `WorkflowRuntime` |
| Runtime agent | `runtime/agent/` | one loop's budgets, guards, trace | bounded tool calling | `AgentKernel` |
| Planner and Reviewer | `runtime/multi_agent/`, `agent/enhance.py` | one request's calls and text | plan, review, revise, fall back | `PlanReview` |
| Runtime coach | `runtime/coach/`, failover of `providers.py` | one request's answer | read, search, ask, ground, sign | `CoachAnswer` |
| Runtime memory | `runtime/memory/` | SQLite records | propose, decide, correct, recall | `RuntimeMemory` |

How they interact: the pages call the API and may lose its answers; the API
calls the services in the request's own thread; the services share MariaDB rows
and nothing else; the runtime, a single process, is called over HTTP and calls
back into the tool gateway with a Run capability. ERPNext controllers run inside
`target.insert()`, in the executor's transaction.

### What is hard

* Requests run concurrently in MariaDB transactions at REPEATABLE READ
  (MariaDB 11.4 by ADR-0001 and `env/dev/versions.env`, where
  `innodb_snapshot_isolation` is off by default). Row locks order the requests, but a
  document loaded *after* the lock was granted still comes from the snapshot
  taken *before*: every check may be evaluated on a past state. What protects a
  write is `Document.save()`, which refuses a row whose timestamp moved, and
  unique indexes.
* A `GatewayFault` caught by the API ends in a normal response, so Frappe
  commits whatever the handler had written; any other exception rolls back to the
  last commit.
* An execution is three transactions, T1 (reservation), T2 (ERP write and
  ledgers), T3 (failure record). The process may die between any two, and a
  lease, not a lock, tells the reconciler when it may act.
* P2P executions of different Runs meet on the same source rows and are kept
  apart by named, connection-scoped locks. Executions of one Run meet on the Run
  row, which T2 does not save, and on plan-step rows that every commit saves.
* ERP controllers may commit on their own; the repository's own end-to-end
  reports describe a submit that committed while the Receipt did not.
* The app waits for the runtime with its Run loaded, and the runtime waits for
  models and for the app: what was read before a call is used after it.
* The runtime validates what a model says, and the app validates what the
  runtime says with rules of its own: an answer the two disagree about is lost.

`PROJECT.json` lists these dangers at the line where each bites (`hazards`),
with the property that would catch it.

### What makes each part correct

* Executors: one approval, at most one document; ledgers that agree; answers
  that name an existing document; every reservation settled in the end; no
  write without an approval and a Run that hold at its commit.
* Policy: one verdict, by somebody who may give it, on the digest that is
  executed; nothing executes on an expired or declined proposal; a key belongs to
  one Action.
* P2P: a step executes only after its predecessors; two conversions of one
  source never exceed it; uncertain writes freeze the Run; one candidate at a time.
* Run lifecycle: terminal states are final; rows exist exactly in the states
  that have them, but for what a failing delete leaves; a revoked Run is not read for.
* Analysis: its rows are true of the ERP at one moment; the plan leads with every
  shortage.
* Memory: one review decides; a correction and its predecessor change together;
  a superseded record is never recalled.
* Coach: what is displayed was supplied by the server; evidence is whole.
* Runtime: a step is dispatched at most once; a checkpoint says only what
  happened; budgets hold; every execution ends with one stored attempt.
* Pages: they stay usable, and show only what happened.

## 2. Modules and plan

| Module | Content |
|---|---|
| `GovernedExecution` | the draft executors, their requests, ledgers and environment |
| `GovernedWrite` | abstract specification: an approval is spent exactly once |
| `P2PExecution` | the purchase-to-pay executor, its locks, dependencies and environment |
| `GovernedExecutionProofs` | proofs about the draft executors, their ledgers and their evidence; the refinement of `GovernedWrite` |
| `P2PExecutionProofs`, `P2PPlanningProofs` | proofs about the purchase-to-pay executor, and about its planner |
| `RunLifecycleProofs`, `WorkflowRuntimeProofs` | proofs about the Run and what its analysis computes, and about the workflow service |
| `PolicyApprovalProofs` | proofs about verdicts and reservations, and about the three pages |
| `RecordsProofs` | proofs about governed memory, the runtime store and the evidence of the Coach |
| `RuntimeLoopsProofs` | proofs about the three loops around a model |
| `RunLifecycle` | a Run from issue to plan, its capability and tool invocations |
| `ScopeAnalysis` | what an analysis reads through the tools, and what it and the plan conclude |
| `P2PPlanning` (uses `WorkflowEngine`) | the planner of a purchase-to-pay Run and its checkpoint in the runtime |
| `WorkflowEngine`, `WorkflowRuntime` | the engine as pure functions; the service around it: store, leases, handlers, restart |
| `AgentKernel`, `CoachAnswer`, `PlanReview`; `RuntimeLoops` (extends them) | the three loops around a model, each up to the app's own check of the reply; one of the three at a time |
| `MemoryReview`, `CoachEvidence`, `RuntimeMemory` | the records kept for later answers |
| `PolicyApproval`, `RunsPage` (extends it), `AskingPages`; `Pages` (composes both) | the governance endpoints and the pages that call them |
| `MC...` | instances for TLC. `MCRunLifecycle`, `MCWorkflow`, `MCRuntime`, `MCRecords` and `MCApprovals` put parts that share no state side by side: `scene` chooses the one a behaviour is about |

Done in the first stage: the executors, their abstract specification and proofs.
Done in the second: everything else above. Done in the third: the proofs about
evidence, `P2PExecution`, `RunLifecycle`, `MemoryReview` and `WorkflowRuntime`. Done in the
fourth: those about `PolicyApproval` and the pages, `RuntimeMemory`, `CoachEvidence`,
`P2PPlanning`, the three loops of the runtime, the quantities of `P2PExecution` and the
numbers of `ScopeAnalysis`. What no theorem states is listed at the end of section 5.

## 3. How the modules correspond to the code

### GovernedExecution: state

| Variable | Code |
|---|---|
| `action` | `Synora Proposed Action.state` |
| `run` | `Synora Agent Run.run_state`; `live` is `status = ACTIVE` and not revoked |
| `reservation` | `Synora Execution Reservation`: status, target, and whether a `failure_category` is recorded |
| `receipt` | `Synora Execution Receipt`: final state and target |
| `docs` | the MR/PO documents in ERPNext; `by` is a history field that no action of the code reads |
| `leaseOver`, `expired`, `runOver` | the three deadlines, as "has passed" |
| `pc`, `act`, `snap`, `fault`, `written` | a request: place, Action, snapshot of its open transaction, mapped error, inserted draft |
| `answers` | history: success responses |

A transaction is two steps: `Begin`, `T2Begin` or `T3Begin` takes the snapshot
(the first plain read), and one further step runs it, under the locks, to its
commit. The first step does not wait, so any other transaction can commit in
between; that is exactly what a waiter on a row lock sees. Conditions on
`snap[p]` are those the code evaluates on loaded documents; conditions on the
variables themselves are the columns returned by `SELECT ... FOR UPDATE` and the
timestamp check of `save()` (`RunFresh`, `ActionFresh`, `OwnReservation`). T2 has one
step more, between its recheck and its insert: time passes there, and whoever locks or
saves the rows it has locked waits (`Locked`).

### GovernedExecution: actions

| Action | Code |
|---|---|
| `Decide` | `decide_action` (ALLOW, DECLINE) |
| `T1Expire`, `T1Reserve`, `Replay` | `execute_*` up to the first commit; `_expire_if_owner`, `_insert_reservation`, `_move_run_to_executing`, `_replay_success` with its checks (`Replayable`) |
| `T2Begin`, `T2Recheck` | the snapshot of T2; its locks and the recheck under them |
| `T2Commit` | insert, read-back, Receipt, Action, reservation, Run, commit |
| `T2Insert`, `T2Record` | the same with a controller that commits in `insert()` |
| `T2Fail`, `T3Begin`, `T3Commit` | `map_execution_error`, rollback, `_finalize_failure` |
| `Respond` | the response after T2's commit |
| `Reconcile`, `AnswerSettled` | `reconcile_*`, of an open and of a settled reservation (`ReconciliationReceipt`, `ReconciliationResponse`); `CloseReconciledRun` models the fault that leaves the Run as it was while the rest is committed |
| `CancelRun`, `RevokeRun` | `cancel_p2p_run` (which accepts every Run), `revoke_run` |
| `Abandon` | the process dies, an error response rolls back, or T3 swallows its error |
| `LeaseExpires`, `ActionDeadlinePasses`, `RunDeadlinePasses`, `UserDraft`, `UserSubmit` | time and people |

Abstractions: a payload is a *shape*; two documents are told apart by the
read-back exactly when their shapes differ, and fall under the same duplicate
gate when `ItemOf` agrees. The candidate query of a reconciliation returns the first
`RowLimit` documents of the item by name, drafts or not, and of those the first
`DraftLimit` drafts that agree with the Action's header (`HeaderOf`); a document is one
row of the item. The gates on permissions, prices,
suppliers and ERP workflow depend on nothing in the model and fail at any time
(`T1Expire`, `T2Fail`). Traces, audit rows and serialisation are left out.
`CHANGES_REQUESTED` adds an approval row that no other handler reads.

### P2PExecution: state

| Variable | Code |
|---|---|
| `action`, `proposed` | `Synora Proposed Action.state`, and the Actions in order of `creation` |
| `run` | `run_state`, ACTIVE and not revoked, `p2p_goal_version` |
| `reservation`, `receipt` | status or final state, and the target they name |
| `erp` | PO, PR, PI and PE: the document each was converted from, quantity per source row, docstatus |
| `applied` | history: how often the effect of an Action was applied |
| `pc`, `act`, `snap`, `fault`, `target` | a request, as in `GovernedExecution`; `target` is the document a failed T2 had in its hands |
| `held` | named locks (`GET_LOCK`) of the request's connection |
| `stale` | requests whose plan-step rows have been saved by somebody else since they were loaded |

### P2PExecution: actions

| Action | Code |
|---|---|
| `Propose`, `Decide` | `evaluate_proposal`, `decide_action`; each is one short transaction and one step |
| `T1Reserve` | `execute_p2p_action` up to the first commit; saves the Run only if it is not EXECUTING yet |
| `AcquireLock` | one `GET_LOCK` of `_lock_p2p_source`, in sorted order of rows |
| `T2Begin`, `T2Commit` | the snapshot, taken after the locks; recheck, dependencies, controller, read-back, Receipt, Action, reservation, plan steps, commit |
| `T2Write`, `T2Record` | the same with a controller that commits |
| `T2Fail`, `T3Begin`, `T3Commit` | classification of the error, rollback, `_finalize_failure`, plan steps; the locks are held to the end |
| `Replay` | a repeated execute of a settled Action, answered from its Receipt |
| `Reconcile` | `reconcile_p2p_action`, also when a repeated execute enters it; `PaymentReadBack` and `CancelledPaymentReadBack` are the read-backs of a Payment Entry |
| `ReconcileActionConflict`, `ReconcileRunConflict` | the CONFLICT of `transition_action_state` or `_set_run_state`, returned as a response: what was written before it is committed |
| `CancelRun`, `ConfirmGoal`, `RevokeRun` | `cancel_p2p_run` with `_expire_if_needed`, `confirm_p2p_goal` with another goal, `revoke_run` |
| `DeskSubmit`, `DeskCancel`, `Abandon` | people, and requests that end without writing (refusal, rollback, death) |

Abstractions: the three deadlines may have passed at any moment, so they are no
state. A snapshot holds what the checks make of the data they read (`gate`,
`ready`, `readBack`, `busy`) and the rows that are compared when they are saved.
Prices, accounts, permissions and the financial part of the read-back are
refusals that may happen at any time. Quantities and amounts are one number per
row. Documents are not deleted; ERPNext's own checks when somebody works at the
desk are external and reduced to "predecessor submitted" and "no submitted
successor". The first confirmed goal is part of `Init`.

### RunLifecycle

State: `run` is the committed row of `Synora Agent Run` (state, status,
`state_version`, the `modified` stamp that `save()` compares, the number of the
capability digest), `analyses` and `plan` the requests whose item analyses and
plan are committed, `ledger` the tool invocation, `lock` the row lock; `req` and
`call` are the requests of the initiator and the Gateway calls of the runtime.

| Actions | Code |
|---|---|
| `LoadAnalyze`, `BeginAnalysis`, `AgentAnswer`, `WorkflowAnswer`, `BreakCall` | `analyze_run` in its three modes up to the runtime's answer, with the capability rotated before the call |
| `LoadCloseout`, `BeginCloseout`, `Propose`, `FailCloseout`, `BreakCloseout`, `Recover`, `MarkTerminal` | the locked closeout, `_recover_failed_analysis`, `_mark_workflow_terminal` |
| `LoadPlan`, `LockPlan`, `SavePlan` | `plan_run` |
| `LoadResume`, `BeginResume` | `resume_plan_execute_run` |
| `LoadCancel`, `SaveCancel`, `LoadRevoke`, `SaveRevoke`, `ExpireOnLoad` | `cancel_run`, `revoke_run`, `_expire_if_needed` |
| `Resolve`, `Reserve`, `Dispatch`, `CompleteCall`, `FailCall` | `execute` of `api.py`: `resolve_run`, `reserve_invocation`, `dispatch`, `complete_invocation` |
| `Crash`, `CrashCall`, `CapabilityExpires`, `DeadlinePasses` | workers that die, and time |

`CleanUp` and `Withdrawn` are the deletes of a failed analysis and of a plan that could not
be announced; either may fail, and the code passes over it. `residue` remembers the
requests whose rows were left so.

The runtime answers with any status. What the analyses compute is the next
module's subject.

### ScopeAnalysis

`erp` is the ERP (open requests and orders with their lines, stock per item and
warehouse, what is enabled) and `snap` the ERP as the closeout's transaction sees
it: no handler between its first tool call and its end commits, so every page
comes from one snapshot. The tools are operators on `snap`
(`OpenMaterialRequests`, `OpenPurchaseOrders`, `ProjectedStock`, `OpenDemand`, and
`CurrentMaterialRequest` and `CurrentPurchaseOrder` for one document, refused as
`RequestRefused` and `OrderRefused` say), with their
scope, filters, grouping, order and limits. Lines are summed by `Total`, and `sorted()` is
`Sorted`: the member at place k is the one with k - 1 members before it. `Begin`, `FetchPage`, `LastPage`
and `LastStockPage` are `_analyze_deterministic_run` cut at its tool calls,
`AnalyzeItem` and `Judged` are `_analyze_item` and `analyze_item`, `ToolFails` any
refusal with `_recover_failed_analysis`, `BuildPlan` is `build_plan`. `Order`, `Stop`,
`ReceiveGoods`, `IssueStock` and `Disable` are people. Quantities are whole numbers; a
date is due within the window, later, or missing. The property, `RowsAreTrue`, compares
the rows with a reference that sums the documents line by line, without pages or groups.
`IsLedger` says what the ERP may hold: any number of documents and lines, of quantities
that are not negative, and any stock. `MCRunLifecycle` puts this closeout beside the Run's
row, for the run `analysis`.

### WorkflowEngine, WorkflowRuntime and P2PPlanning

`WorkflowEngine` holds the functions of `workflow/engine.py` from one workflow
state to the next (`Started`, `Begun`, `Completed`, `Interrupted`, ...), without
state of its own. `WorkflowRuntime` is the service around it: `store` and `lease`
are the SQLite row, `task` a handler's place and its copy of the state, `called`
and `real` histories. Every handler is cut at its store transactions
(`acquire_lease`, `save`, `release_lease`), so that another handler, a restart or
the lease's end can come between any two; `Restart` includes the recovery of
RUNNING checkpoints at startup. A request that names an old revision is refused
without effect and is modelled from the point where the check has passed.

`P2PPlanning` is the app's planner of one purchase-to-pay Run. A request
(`Begin`) takes its snapshot, then waits for the Run's row lock; `Investigate`,
`Resume`, `Plan` and `Insert` are `investigate_p2p_run`, `resume_p2p_run`, the
choice of the next candidate with its mirror in the runtime's checkpoint, and the
insertion of the Action; `ConfirmGoal`, `Finalize` and `Cancel` are the other
endpoints. `Decide`, `Execute` and `Reconcile` stand for the approvers and for
`P2PExecution`, each in one step; `DeskBooks` are people. The sidecar is a
`WorkflowEngine` state, which the planner advances through the service's
requests. `StepView` is what `derive_step_views` shows of each step of the chain, and
`CompletionReady` what `finalize` asks of it. One order row at unit rate: a quantity is an amount.

### AgentKernel, CoachAnswer and PlanReview

The code between two awaits is one step. `AgentKernel` is
`run_native_tool_calling` with `BudgetAccount`, the three guards, the context
builder and the trace recorder; `Prepare` is the loop up to the provider call, a
`ModelStep` or `ToolStep` runs to the next await or to the stop. `Receive` is the
app: `TraceAccepted` is `_validate_trace_semantics`, and `attempt` the stored
Synora Agent Trace Attempt. Texts are reduced to what the validators compare
(digests, references, whether a number is unsupported), tokens to small numbers.

`CoachAnswer` is one question: read the document through the Gateway, search,
ask the provider roles in turn (`FailoverProvider`), normalise the answer, resolve
its citations to rows and chunks, sign evidence packages; `AppAccepts` is the
app's validation. `PlanReview` is `POST /enhance` in its modes with the budgets of
both roles, the review, the one revision and the fallbacks; `FrappeAccepts` and
`KeepReply` are what the app makes of the reply.

### MemoryReview, CoachEvidence and RuntimeMemory

`MemoryReview`: `records` is the table of Synora Memory Records; a request opens
its snapshot (`Begin`) and does the rest under row locks in one step (`Correct`,
`Approve`, `Reject`, `Delete`), checking on the snapshot and saving against the
current timestamps. `Create` is the proposal, `Visible` is
`list_visible_memories`. `CoachEvidence`: a Coach request claim by claim
(`ReuseClaim`, `InsertClaim`, `DuplicateClaim`, `DeadlockClaim`), then the result;
`start_erp_coach` commits its Run first and tries to revoke it when something fails; it
passes over a revocation that fails, so the Run of a failed start may stay ACTIVE
(`Withdrawn`).
`RuntimeMemory`: the SQLite store; a reviewer reads exact copies (`Get`,
`GetPrior`), decides on them (`Decide`, `DecideCorrection`) and commits by
compare-and-set (`BeginWrite`, `SupersedePrior`, `Commit`, `Stale`). The store has no
caller in the repository: which decision function a caller uses for which record is
assumed as its tests do (`CallerChooses`).

### PolicyApproval, RunsPage and AskingPages

`PolicyApproval`: Actions, Policy and Approval Decisions and reservations, and the
facts the gates look up (scope, permissions, price, mapping, the Run), which may
be lost at any time. A proposal is parsed into canonical values (`Payload`,
`Reviewed`) and the digest covers those. `EvaluateProposal`, `Decide`, `Reserve`,
`Expire` and `Reconcile` are the handlers on their snapshots; `broken` is the fact
a gate finds missing although the snapshot has it. `Settle` stands for the
executors.

`RunsPage` is `runs.js`: `views` is what the list and the dialog show, await and
have disabled; a button sends what is shown beside it. `AskingPages` is
`contextual_coach.js` (`desk`, `dialogs`) and `new_run.js` (`form`). HTML and
wording are left out.

## 4. Runs

| Run | Instance | Shows |
|---|---|---|
| `one_run` | 2 Actions of 1 Run, 2 requests | `TypeOK`, `LedgersAgree`, `CancelledRunIsQuiet`, `NoOrphanDraft`, `WriteOnlyWhenAuthorised`, refinement of `GovernedWrite` |
| `early_commit` | 1 Action, 2 requests, controllers may commit, hand-entered drafts of equal and of different payload | `AtMostOneWrite`, `SuccessNamesOwnDraft`, `ReconciledFailureIsReal`, `AnswersAgree`, `SettledIsFrozen` |
| `settles` | 2 Actions of 1 Run, 1 request slot, fairness | `EverySettles` |
| `two_conversions` | 2 receipts of the same 2 rows, 2 Runs, 2 requests | `NoOverConversion`, `NoLockCycle` |
| `chain` | submit order, draft receipt, cancel order in 1 Run, 2 requests | `NoLostEffect`, `UncertainFreezesRun`, `DependenciesFirst` |
| `desk_race` | submit a receipt, or draft one; people submit and cancel by hand, one more goal, controllers may commit | `LedgersAgree`, `SuccessIsReal`, `AtMostOneEffect`, `SettledIsFrozen` |
| `analysis` | 1 Run in each of 3 modes, 3 requests, 2 Gateway calls, exceptions and crashes; apart from it, one closeout over 97 ERP states, with 1 change by people | `RowsMatchState`, `ReadsAreSound`, `NeverRevived`, `RowsAreTrue` |
| `workflow` | a chain of up to 7 Actions, 2 planner requests; the workflow service with 2 handlers and 2 restarts | `OneAtATime`, `PlanFollowsReceipts`, `DispatchedAtMostOnce`, `CheckpointIsReal` |
| `runtime` | one agent of 3 steps and 2 tools, one Coach question with 2 roles, one plan review | `BudgetsHold`, `AppAcceptsAnswers`, `AnswersAreGrounded`, `ModelTextIsVouchedFor`, `AgentAlwaysEnds` |
| `records` | 3 memories, an owner and a manager, 2 requests; 3 runtime records, 2 reviewers; 2 Coach requests | `MemorySucceeds`, `DecisionStands`, `StoreIsCurrent`, `CoachRecordsAreWhole` |
| `approvals` | a draft and a submission, initiator and manager, 2 requests, 1 lost fact; the three pages | `VerdictsStand`, `PagesAreHonest` |
| `write_after_cancel` | 2 receipts of different rows in 1 Run | `NoWriteAfterCancel` is violated |

Several of these are conjunctions of properties of the modules a run puts side by
side; the MC module names the conjuncts, and each is stated and explained in its
own module.

**Bounds of the executors.** Two requests are enough for every pairwise race: a request slot is
reused, so a third, fourth, ... request of a behaviour runs after one of the two
has ended or died. Two Actions in one Run exercise everything the Run row
couples; Actions of different Runs only meet in the duplicate gate. Two document
names let a second, wrong document exist. No counter of `GovernedExecution` is
bounded: it is finite as it stands. Requests are interchangeable and no
property distinguishes them, so they are a symmetry set, except in the liveness
run; names are ordered, as the candidate query is. The code's limits of that query, 100
rows and 50 documents, are `RowLimit` = 1 and `DraftLimit` = 2 in `early_commit`, so that
a second document of the item hides the Action's own, and 2 and 2 elsewhere, where
every document is found.

For `P2PExecution` the same holds of requests. Two Actions exercise each pair of
steps that share a source, a Run row or plan steps; `chain` has three because
dependencies of dependencies need them. Two rows are what it takes to wait for
one lock while holding another. An order of one unit per row makes a second
receipt an over-conversion; in `desk_race` there is room for three, so that a
repeated conversion would not be stopped by quantity. There a behaviour is about
one of the two Actions (`OneAction`): the dangers are the people and the second
goal. `MaxGoalVersion`, the number of further goals, is one: one change suffices
to expire every pending Action, and there is nothing left for a second one to
expire except Actions proposed after it.

**Bounds of the other modules.** `MaxStamp` = 7 saves of a Run's row: issue to plan
takes five, which leaves two for a recovery and a cancellation. Three requests,
because a planner can meet an analysis that was started, recovered and started
again. For `ScopeAnalysis`, pages of one row (`PageSize`), with `MaxOffset` = 2,
`MaxDocuments` = 2, `MaxLines` = 4, `MaxCurrentLines` = 2 and `MaxItems` = 2: lists of no, one, three and
four rows and of three items end at, before and past each of these limits. One change
(`MaxChanges`) is enough to fall between any two pages. `MaxActions` = 7 is a whole chain from SUBMIT_PO to SUBMIT_PAYMENT_ENTRY;
planner requests overlap while it is short, longer chains are planned by one
request at a time, one Action comes to nothing, and either the goal changes or the
desk books a receipt (`Bounds` of `MCWorkflow`, `MaxGoal` = 2, `DeskMoves` = 1).
`MaxRev` = 13 revisions hold a question, a tool, a governed step and their
recoveries; `MaxRestarts` = 2 lets a recovery be interrupted. In `runtime`,
`MaxSteps` = 3 with `NoProgressThreshold` = 1, `MaxCallsPerTool` = 2 and three
arguments make every guard the first to stop some run; `MaxTotalOutput` and
`MaxCost` = 5 are passed by three calls of 2; `MaxToolCalls` = 4 is one more than
the trace of a review holds. In `records`, one memory and its corrections are
followed (records with different predecessors never meet), and a review that its
own snapshot already refuses is not (`Promising`, `Hopeful`: it writes nothing);
of the two reviewers of the runtime store one at most does something other than
correct, one record at most is rejected or deleted, and the clock (`MaxTime` = 2)
passes one expiry. In `approvals`, `MaxApprovals` = 2 decisions of an Action,
`MaxLoads` = 2 reads of a view under way, `MaxClicks` = 2 buttons pressed, which is
what a late answer needs to meet a newer view, `MaxLosses` = 1 because every gate
is broken by one fact; `MaxSubmits` = 2 Runs asked for.

**Deadlock** is not checked where the system may stop: all requests answered,
nobody asking. It is checked in `runtime`, where a loop must not stop half way.

**Fairness.** `settles`: requests end (`WF Abandon`: workers have a timeout);
leases run out (`WF LeaseExpires`: clock time); and an operator repeats the
reconciliation of an Action until one attempt completes (`SF` on starting it and
on its commit, because retries may be interrupted again and again but not
for ever). Nothing is assumed of executions, decisions or failure records.
`runtime`: the process goes on with code of its own (`WF Begin`, `Prepare`),
wall time passes (`Expire`), `asyncio.wait_for` ends a wait that has used up its
time (`TimeOut`), and the app's HTTP client returns or times out (`Receive`).
Nothing is assumed of the provider or of a tool: both may be silent for ever.

### Disagreements found

With a run and a `findings` entry:

* A Run can be cancelled while a reservation is being made, and its execution then
  writes to the ERP: nobody saves a row that the other one checks
  (`write_after_cancel`).

Met while modelling, described here only. The models do what the code does, and
the properties are stated so that they are true of it.

Executors and planning:

* Reconciliation does not use idempotency evidence: a hand-entered draft that
  equals the payload is attributed to an execution that wrote nothing, or that wrote
  another draft which the search did not return, and nothing keeps two Actions from
  being given one document.
* Its search reads 100 rows of the item, by name of the document and whatever its
  status, and 50 of their drafts. An execution whose controller committed early and
  whose draft lies behind older documents can be recorded as RECONCILED_FAILURE with
  its draft in ERPNext. `ReconciledFailureIsReal` is stated up to that
  limit (`WithinOneSearch`).
* T2 reads the deadlines in its recheck (`execution.py:1233`) and not again before its
  commit: an approval that expires in between still leads to a document.
  `WriteOnlyWhenAuthorised` denies only writes for a deadline that had passed before
  (`TooLate`).
* The duplicate gate is check-then-insert on snapshots: two Runs can both create
  a draft for the same item and warehouse.
* A goal confirmed during a reconciliation leaves a final Receipt on an open
  reservation, which no later reconciliation can settle.
* A cancellation that a controller committed, followed by an error that counts as a
  known controller failure, is recorded as FAILED and NOT_APPLIED.
* `live_reinvestigation` (`p2p_orchestration.py:1889`) reads a created draft back
  without `allow_later_docstatus`, contrary to `execution_contracts.py:307`: a draft
  that was submitted as planned counts as drift, and resuming freezes the Run.
* `policy.py` (about line 1341) says a failed insert rolls back the proposal's
  transaction; the `GatewayFault` is caught and the transaction committed.
* `transition_action_state` does not check the approval class for the initiator or a
  System Manager; its callers do.
* `list_pending_approvals` keeps showing APPROVED actions that are already reserved.
* An analysis whose worker died stays in ANALYZING until its Run expires
  (`agent/service.py:2062`).
* A failing delete is passed over there and in `plan_run` (`agent/service.py:2744`). The rows
  that stay are among those the next plan is built from; a plan that stays makes every later
  `plan_run` answer 409, the dead end its comment means to avoid. `RowsMatchState` is stated
  apart from them (`residue`).
* Rotating a capability does not change `state_version`, and `recheck_run_scope` does not
  compare the digest: a Gateway call that was resolved before the rotation still reads.
* The error of a Coach start is answered even if its Run could not be revoked
  (`api.py:573`): an ACTIVE Run that nobody was given stays until it expires.
* The closeout takes its items from open Material Requests only, so that it never
  reports ADEQUATE, one of the six outcomes of `agent/analysis.py`.
* It does not look at `completeness`: orders of a disabled supplier are left out of
  what is expected, and the row says SHORTAGE without a note. Without a warehouse
  scope, demand for a disabled warehouse counts while its stock does not.
* A list of more than 10,050 rows fails at the offset limit of `parse_tool_input`,
  although the tools allow 50,000 lines.

Runtime, and what the app makes of it:

* A run stopped by the repeated-call or the frequency guard leaves a pending call in
  its trace, which `_validate_trace_semantics` refuses: the app stores a MODEL_ERROR
  attempt with zero usage instead.
* A review whose responses asked for more than three tool calls ends in HTTP 500,
  although the endpoint's docstring excludes 5xx; the summary of a request without
  provider has no `role_usage` and the app refuses it.
* The usage of earlier responses of a call is lost when a later one fails hard.
* `coach/service.py:360` of the runtime says a field may not borrow a value from
  another row; the code refuses only a repeated field, so two fields of a claim may
  come from two rows.
* When the runtime cannot be reached, the app stores the plan's own summary without
  the check that the runtime makes of it.
* An interrupted tool step whose workflow is past its deadline cannot be recovered:
  the error leaves the startup handler and the runtime does not come up. The
  comment on the app's timeout counts 255 s where the calls add up to 1200 s.
* A Coach answer that states one text with the same citations under two types keeps
  one record for both, and the history hides the answer.

Memory:

* An approved correction is not listed by `list_visible_memories`, which requires a
  record without predecessor: after a correction neither version is recalled.
* In the runtime store `approve_candidate` ignores a predecessor, and the store
  accepts a supersession on its own.

Pages:

* A response to `submit_goal` without `ok` leaves the button disabled, and so does a
  successful Coach question; the Coach context keeps its name when its type changes.
* The Coach dialog reads the document only when its Run has been issued, so the
  question may be asked about another one; a lost answer leaves an unused Run.
* Answers to older reads may overwrite newer ones; an independent approver whose
  execution is uncertain has no button to reconcile it.

## 5. Proofs

All theorems hold for any sets of Actions, Runs, requests, handlers, documents, records
and payloads that satisfy the named assumption of their module (typing of the
constants; the special values are not members of the sets; in `WorkflowAssumption` also
that there are finitely many intents, which the code enumerates; in `CoachAssumption` that
a provider output has the shape its contract leaves possible, and nothing about what it
says). Further hypotheses are part of the statement. `[ ]` is left out of the statements below: an invariant always holds, an
action property holds of every step.

| Theorem | Property | Needs |
|---|---|---|
| *`GovernedExecutionProofs`* | | |
| `TypeCorrect` | `TypeOK` | `RequestOK`: a request under way is about an Action |
| `LedgersAlwaysAgree` | `LedgersAgree` | inductive with the types |
| `WrittenAtMostOnce` | `AtMostOneWrite` | `SingleWriter` |
| `SettledStaysFrozen` | `SettledIsFrozen` | `ReservedWasDecided` |
| `ClosedRunsStayClosed` | `ClosedRunStaysClosed`, checked by no run | the types |
| `NoDraftIsOrphaned` | `NoOrphanDraft` | hypothesis: controllers do not commit |
| `WritesAreAuthorised` | `WriteOnlyWhenAuthorised` | the same hypothesis; `ExecutionBegun` |
| `ExecutorImplementsGovernedWrite` | `ImplementsGovernedWrite` | the same hypothesis; `NoEarlyCommit` |
| `SuccessesNameOwnDrafts` | `SuccessNamesOwnDraft` | `WrittenIsOwn` |
| `AnswersAlwaysAgree` | `AnswersAgree` | `SnapshotsLast`, `OkIsRecorded`, `SuccessIsBacked`, `AnswersAreRecorded` |
| `ReconciledFailuresAreReal` | `ReconciledFailureIsReal` | `SingleExecutor`, `FailureIsFinal`, `OwnShape`, `FiniteDocs`, `UniqueNames`, `SnapshotCounted` |
| `CancelledRunsAreQuiet` | `CancelledRunIsQuiet` | `RowsOfRuns`, `SnapshotsOfRuns` |
| *`P2PExecutionProofs`* | | |
| `P2PTypeCorrect` | `TypeInv`: the types and `RequestOK` | |
| `P2PLedgersAlwaysAgree`, `P2PSuccessesAreReal`, `P2PSettledStaysFrozen` | `LedgersAgree`, `SuccessIsReal`, `SettledIsFrozen` | `LedgerInv` |
| `P2PAppliedAtMostOnce` | `AtMostOneEffect` | `SingleWriter` |
| `P2PNoEffectIsLost` | `NoLostEffect` | hypothesis: controllers do not commit |
| `LocksNeverCycle` | `NoLockCycle` | `LocksAscend` |
| `UncertainResultsFreezeRuns` | `UncertainFreezesRun` | hypothesis: no further goal (`MaxGoalVersion = 0`); `RunsMoveOn`, `ApprovalsLast`, `UncertainFreezes` |
| `EffectsFollowDependencies` | `DependenciesFirst` | both hypotheses; `InitialSourcesKnown`; `DependencyInv` |
| `RowsAreNeverOverConverted` | `NoOverConversion` | hypotheses: finitely many names, `PaymentsApart`, `InitialSourcesKnown`, `InitialRoom`; `ConversionInv` |
| *`P2PPlanningProofs`* | | |
| `PlansOneAtATime`, `PlansFollowReceipts` | `OneAtATime`, `PlanFollowsReceipts` | hypothesis: `UseSidecar`; `PlanningInv` |
| *`RunLifecycleProofs`* | | |
| `RowsAlwaysMatchState`, `ClosedRunsAreNeverRevived`, `ReadsAreAlwaysSound` | `RowsMatchState`, `NeverRevived`, `ReadsAreSound` | `RowInv`; for the last also `ReservedOnce` |
| `RowsAreAlwaysTrue`, of `ScopeAnalysis` | `RowsAreTrue` | `AnalysisInductive`; `NoLeastException` for the sums |
| *`RecordsProofs`* | | |
| `MemoriesAlwaysSucceed`, `MemoryDecisionsStand` | `MemorySucceeds`, `DecisionStands` | `MemoryInv` |
| `StoreInvariant`, `RuntimeStoreIsCurrent` | `StoreInv`, `StoreIsCurrent` | |
| `EvidenceInvariant`, `CoachEvidenceIsWhole` | `EvidenceInv`, `CoachRecordsAreWhole` | |
| *`WorkflowRuntimeProofs`* | | |
| `ToolsDispatchedOnce`, `CheckpointsAreReal` | `DispatchedAtMostOnce`, `CheckpointIsReal` | `WorkflowInv` |
| *`PolicyApprovalProofs`* | | |
| `GovernanceInvariant`, `OneVerdictStands` | `GovernanceInv`, `VerdictsStand` | |
| `PagesInvariant`, `PagesStayHonest` | `PagesAreHonest` | `GovernanceInv`, `PageInv`, `AskingInv` |
| *`RuntimeLoopsProofs`* | | |
| `LoopsInvariant` | the invariants of the three loops | |
| `ReviewInvariant`, `RepliesAreAccountedFor` | `EveryCallIsCounted` and `EvidenceIsTaken`, of the review on its own | `ReviewInv` |
| `AgentInvariant`, `BudgetsAreKept` | `BudgetsHold` | `LoopsInvariant` |
| `AnswersAreAccepted` | `AppAcceptsAnswers` | `LoopsInvariant`, of it `TraceInv` and `CountHolds` |
| `CoachSaysWhatErpHolds`, `CoachAnswersAreAccepted` | `AnswersAreGrounded`; `ValidatorsAgree`, a part of `AppAcceptsAnswers` | `LoopsInvariant` |
| `RunPlansAreVouchedFor` | `ModelTextIsVouchedFor` | `LoopsInvariant` |

### The arguments

*One write.* `AtMostOneWrite` is not inductive, since nothing in
it says that a request about to insert is alone. `SingleWriter` adds that whoever
may still write holds a reserved Action without a draft and that no two requests
hold the same one; the reservation is made once because T1 reads it under its
lock. *Frozen.* Every step moves the rows of at most one Action and that Action
is unsettled (`RowStep`); for a decision this needs that a reserved Action was
decided before. *Authority.* Only `T2Commit` gives an Action its first document
(`FirstDraft`); its commit includes a save of the Run, which fails unless the
Run is still the one the gates saw, a deadline that has passed keeps T2 from getting
as far (`TooLateStays`), and `ExecutionBegun` excludes the table's
direct move from PROPOSED to SUCCEEDED. *Refinement.* Each step is a stutter or
one `Spend` of one Action's promise (`SimulationStep`).

*Evidence.* Answers are given from snapshots, after the commit they report, so the
agreement of answers rests on settled rows lasting: a snapshot that shows a success
shows the present one (`SnapshotsLast`), a response to come is about a recorded
success (`OkIsRecorded`), which a document backs (`SuccessIsBacked`); documents
keep name and shape. That a reconciled failure is real rests on who may still
write: the failure evidence that a reconciliation needs is recorded by T3 of the
one execution (`SingleExecutor`), and from then on no request may write for the
Action (`FailureIsFinal`); its search cannot come back empty while it is large
enough for the documents of the item, which only grow in number (`SnapshotCounted`). Quiet after a cancellation: reservations are only opened
by a T1 that saves the Run, which the cancellation has moved.

*P2P ledgers.* Six ways in which a step can change the rows of an Action
(`RowStep`: kept, judged, reserved, succeeded, closed, split by a conflict) and
five in which it can change a request (`RequestStep`) are established once, and
every part of `LedgerInv` is shown for these instead of for each of the 22
actions. What a reconciliation says of the ERP from an old snapshot stays true
because documents only move on (`DocumentLater`, `Reached`). *Locks.* An
execution holds only locks below the one it waits for (`LocksAscend`), so two
cannot wait for each other, in any number. *Freezing.* T3 and the reconciliation
that record an uncertain result take the Run out of EXECUTING in the same commit or
find that somebody else has; no save brings it back, because the snapshot of
everyone who could is older (`RunsMoveOn`) and an approval is spent (`ApprovalsLast`).
*Dependencies.* T2 reads them once. What it read stands at its commit unless its plan
steps are stale (`PredecessorsStand`), and a stale T2 does not commit: whoever adds a
reference or a predecessor to the Run saves the plan steps.

*Why the hypotheses.* A goal confirmed during an execution expires the Action while it
is being written; its reconciliation then stores its Receipt, fails on the state of the
Action and returns without saving plan steps or Run (`ReconcileActionConflict`, the
disagreement of section 4). With `MaxGoalVersion` = 1 TLC finds `UncertainFreezesRun`
violated by exactly this, so it is stated for Runs whose goal stands. For
`DependenciesFirst` TLC finds no violation on `chain` with one further goal; the
proof needs the hypothesis because such a Receipt adds references to the Run without
making the plan steps of others stale. A controller that commits on its own does so
before the plan steps are compared, and leaves an effect behind when its request dies.

*Run lifecycle.* A request acts on the row it loaded; `RowsAge` says that a loaded
row is never newer than the committed one, that the same stamp means the same row and
the same `state_version` the same state, so that a save that passes its check is a
save of the present row; `LoadedFor` says what each place has checked of it. The
summaries `RequestMoves` and `GatewayMoves` list what one request or one call
can do to the rows, the lock and its own place.

*Analysis.* What a closeout has collected of a list is its first `offset` rows, and the lists
are those of the snapshot, which nobody changes (`PagesAreWhole`); the items still to do
and the rows of the others make up the items with open demand (`ItemsLeft`). So at the end
a row was made of everything the tools list. That this says what the documents say is
about sums, of any number of lines: `Total` is the community modules' fold over a set. What
it adds up to is shown by least exceptions (`NoLeastException`): if a claim fails for a
subset of a finite set, it fails for one of whose strict subsets it holds, since strict
inclusion is well-founded there. This needs no induction over an operator, and gives that
the order of summands does not matter (`TotalOfOne`), nor their grouping
(`TotalOfGroups`) or names (`TotalOfImage`). Every line has one place in the rows
(`GroupedPlaces`), so the rows of an item add up to its lines (`DemandAddsUp`,
`SupplyAddsUp`), and the documents read one by one do too (`DocumentsAddUp`).

*Memory.* A row remembers its history (`WellFormed`): how far its lifecycle went fixes
its version and its decision, and a decision names somebody who may review it. A
review or a tombstone saves only rows that are still the ones it read, so only a
correction relies on its snapshot, and only on its having been a row. A correction is
approved together with its predecessor, which must be APPROVED at that moment; this is
why there is never a second successor (`Superseded`).

*Workflow service.* The lease plays no part in these proofs, and need not: it expires
while its holder works. Every save compares the revision and every function of the
engine increments it, so a copy with the stored revision is the stored state
(`Current`), and what is saved is what the engine made of it (`SaveGoes`). The engine
never takes back that a step was begun (`Follows`), and a handler about to call a tool
has just saved that this step was (`Dispatches`); so a step that was dispatched is
begun in every later state, and nobody begins it again. What a save may add to the
SUCCEEDED steps is the one whose answer, observation or Receipt came in (`Engine`). A
plan is no longer than two steps and one per intent because a replanned intent is
new (`PlanBounded`, by counting).

*Conversions.* The duplicate gate reads what a row has left and other executions
write between that read and the insert. The read stands because the named locks of the
rows are held before it and until after the commit (`LocksExclude`, `WritersHoldLocks`): two
T2 that convert one source at a time want different rows of it, so there is still room
for the draft when it is inserted (`RoomIsKept`). `RowTotal` counts quantities unit by
unit, as the cardinality of a set, so that facts about sums are facts about finite sets
(`FewerUnits`).

*Planning.* A planner request reads the Run before it has its lock. One whose snapshot
holds an Action plans only if none was saved since, so what it saw of decisions and
drafts is still true (`Current`, `Agrees`). One whose snapshot is empty plans version 0 of
the Run, and the checkpoint of the runtime takes such a step only if nothing was planned
yet or everything planned is done. An Action that is still open is the checkpoint's
current step, and drafts come from Actions that were planned when there was none.

*Runtime memory.* A copy that a reviewer holds is the row, unless the row has a higher
version (`VersionsIdentify`). The store takes a command only where the rows still are the
copies, so a command is a step of the present table; only a row in force can be
replaced, and only once.

*Coach evidence.* A request names the claims it saw in its snapshot and those it inserts,
and no others. The table only grows, so what it saw is still there at its commit, and
what it inserts becomes visible with the result that names it or not at all.

*Governance.* A decision is recorded before the state moves, so `VerdictsStand` would be
lost if the transition were refused. It never is: an action that awaits its approval was
written exactly twice, so a request whose snapshot saw it at all saw its last version
(`ActionSound`, `SnapshotSound`). A second verdict therefore finds the state moved on.

*Pages.* A page is behind the server, never ahead of it: what it shows of an action or of
the Run, or is about to show, is what does not change there any more (`MovesOn`). A
button that is disabled is on a request that is still under way and gives it back, by an
answer or by a failure (`BusyWaits`). A dialog at rest has forgotten its request; a Run
issued to it was made for its question and to no other dialog (`DialogSound`, `OwnRun`).
A form makes no more Runs than it was submitted for, counting the one on its way
(`Counted`).

*Agent and review.* The preflight is a check made before the model is called. What it
reserved is still free when the call is charged, since nothing else is charged
meanwhile (`ReservationHolds`); a read is counted in the step that starts it. A role of the
review is only called for an admitted plan, and every answer goes through `Finish`, so
what holds of the record is shown once.

*Traces.* Frappe reads a trace event by event, and so does the proof: what each kind of
event makes of it is shown once (`ContextEvent`, `StageAdds`, `ObservedEvent`, ...).
Between two steps Frappe would accept the trace so far: it reports no step after the
present one, nothing is pending at rest (`Rests`), only the tool in flight while the
Gateway is awaited (`InFlight`), and every digest the loop has found is one it observed.
So a supported answer cites what Frappe saw, and a step that stops leaves a trace that is
accepted under its code, was cut inside an action, or was altered (`Settled`). A step
makes at most one call and one observation, so no counter passes the number of steps
(`CountersHold`).

*Coach answers.* Nothing a provider writes is trusted, so the proof follows an output
through the code that rewrites it. Parsing keeps its shape; the row of a live citation is
the server's and holds a value for every field it names; a claim that is shown is one of
the parsed ones with its text rebuilt (that `InOrder` lists the members of a set of
numbers is the pigeonhole, `EveryRankIsTaken`); and the guards leave only rows of this
document and chunks of this search. What the runtime lets through is what the app's
own validator accepts.

*Why these hypotheses too.* `UseSidecar` is needed: TLC finds `OneAtATime` violated
without a runtime token, where nothing mirrors the plan and two requests that read the
Run before it had an Action both plan. `PaymentsApart` says that payments are drafted for
invoices and the other conversions for orders and receipts, so that whatever converts
one source locks it in one way; `InitialSourcesKnown` and `InitialRoom` that the ERP starts
with documents converted from documents it has, and no row beyond its quantity. That
there are finitely many document names lets quantities be added.

The inductive invariants were checked by TLC on the instances of the runs before they
were proved.

### Only model-checked

`EverySettles` and `AgentAlwaysEnds`: liveness under fairness is out of the prover's
reach. Every other property of a passing run is also a theorem. Where it has a
hypothesis, the paragraphs above say why.

## 6. Not modelled

* Retrieval scoring and the skill files of the runtime: pure functions of read-only
  files.
* Offline evaluation, labs, demonstrations and acceptance scripts: not part of the
  running system.
* `run_bounded_react` of `agent/kernel.py`, which only tests call, and `replan` of the
  workflow engine, which no request reaches.
* The arithmetic of prices and of the financial read-backs (ledger totals,
  outstanding amounts): a refusal may happen at any time, what it computes is left
  to unit tests.
* The Gateway's lookups by text (what the Coach reads is `CoachAnswer`'s input), and the
  layout of chain, trace and history views; audit rows; JSON limits and serialisation;
  prompts; the HTTP and the response formats of the providers; HTML.
* Deadlocks of MariaDB itself end in an exception, which is `Abandon`, `T2Fail` or
  `DeadlockClaim`.
