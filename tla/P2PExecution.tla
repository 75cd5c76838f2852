---------------------------- MODULE P2PExecution ----------------------------
(***************************************************************************)
(* The governed purchase-to-pay executor: one approved Action converts a   *)
(* row of a submitted document into a draft, or submits or cancels one     *)
(* document of the chain Purchase Order -> Receipt -> Invoice -> Payment.  *)
(*                                                                         *)
(* It shares reservation, snapshot and optimistic-save behaviour with      *)
(* GovernedExecution and differs in what this module is about: connection- *)
(* scoped named locks on the source, inferred dependencies between the     *)
(* Actions of a Run, plan-step rows every writer of a Run saves again, and *)
(* a Run that stays open and is not saved by a successful write.           *)
(*                                                                         *)
(* Deadlines (lease, Action, Run) are not state here: each of them may     *)
(* have passed at any moment, which only adds behaviours.                  *)
(***************************************************************************)
EXTENDS Naturals, Sequences, FiniteSets

CONSTANTS
    Actions, Runs, Requests,
    DocNames,             \* names of ERP documents, existing or to come
    Rows,                 \* item rows of a document (positive numbers)
    RunOf,                \* the Run of an Action
    TypeOf,               \* its action_type
    SourceOf,             \* payload source_name
    ItemsOf,              \* payload items of a conversion: quantity per row
    InitialDocs,          \* the ERP before the first Action
    MaxGoalVersion,       \* how often the initiator may confirm another goal
    ControllerMayCommit,  \* TRUE if an ERP controller may commit by itself
    DeskActs,             \* TRUE if people submit and cancel by hand
    NoName, NoAction

VARIABLES
    action,       \* state of each Proposed Action ("NONE": not proposed)
    proposed,     \* the Actions in order of creation
    run,          \* run_state, ACTIVE and not revoked, goal version
    reservation, receipt,
    erp,          \* the ERP documents
    applied,      \* history: how often an Action's effect was applied
    pc, act, snap,
    fault,        \* what a failed T2 is classified as
    target,       \* the document a failed T2 held in its hands
    held,         \* the named locks of each request's connection
    stale         \* requests whose plan-step rows were saved by others since

ledgerVars == <<action, proposed, run, reservation, receipt>>
erpVars == <<erp, applied>>
requestVars == <<pc, act, snap, fault, target>>
vars == <<ledgerVars, erpVars, requestVars, held, stale>>

-----------------------------------------------------------------------------
(* Tables of the code. *)

\* ACTION_ORDER: the stage of each action type in the chain.
ActionOrder ==
    [SUBMIT_PO |-> 10, CREATE_PR_DRAFT |-> 20, SUBMIT_PR |-> 30, CREATE_PI_DRAFT |-> 40,
     SUBMIT_PI |-> 50, CREATE_PAYMENT_ENTRY_DRAFT |-> 60, SUBMIT_PAYMENT_ENTRY |-> 70,
     CANCEL_PAYMENT_ENTRY |-> 80, CANCEL_PI |-> 90, CANCEL_PR |-> 100, CANCEL_PO |-> 110]

ActionTypes == DOMAIN ActionOrder

TargetDoctypes ==
    [SUBMIT_PO |-> "PO", CANCEL_PO |-> "PO",
     CREATE_PR_DRAFT |-> "PR", SUBMIT_PR |-> "PR", CANCEL_PR |-> "PR",
     CREATE_PI_DRAFT |-> "PI", SUBMIT_PI |-> "PI", CANCEL_PI |-> "PI",
     CREATE_PAYMENT_ENTRY_DRAFT |-> "PE", SUBMIT_PAYMENT_ENTRY |-> "PE",
     CANCEL_PAYMENT_ENTRY |-> "PE"]

CreateActions == {"CREATE_PR_DRAFT", "CREATE_PI_DRAFT", "CREATE_PAYMENT_ENTRY_DRAFT"}

CancelActions == {"CANCEL_PO", "CANCEL_PR", "CANCEL_PI", "CANCEL_PAYMENT_ENTRY"}

SubmitActions == {"SUBMIT_PO", "SUBMIT_PR", "SUBMIT_PI", "SUBMIT_PAYMENT_ENTRY"}

SourceActions == SubmitActions \cup CancelActions

Creates(a) == TypeOf[a] \in CreateActions
Submits(a) == TypeOf[a] \in SubmitActions
Cancels(a) == TypeOf[a] \in CancelActions

SuccessStates == {"SUCCEEDED", "RECONCILED_SUCCESS"}

FinalStates == SuccessStates \cup {"FAILED", "MANUAL_INTERVENTION"}

Unsettled == {"STARTED", "RECONCILIATION_REQUIRED"}

ActionStates == {"NONE", "POLICY_REJECTED", "AWAITING_APPROVAL", "APPROVED", "DECLINED",
                 "EXPIRED", "EXECUTED"}

RunStates == {"PROPOSED", "AWAITING_APPROVAL", "EXECUTING", "RECONCILIATION_REQUIRED",
              "CANCELLED", "EXPIRED"}

RunRows == [state : RunStates, live : BOOLEAN, goal : 0 .. MaxGoalVersion]

TargetNames == DocNames \cup {NoName}

Reservations == [status : {"NONE"} \cup Unsettled \cup FinalStates, target : TargetNames]

Receipts == [state : {"NONE", "RECONCILIATION_REQUIRED"} \cup FinalStates, target : TargetNames]

NoReservation == [status |-> "NONE", target |-> NoName]

StartedReservation == [status |-> "STARTED", target |-> NoName]

NoReceipt == [state |-> "NONE", target |-> NoName]

Doctypes == {"PO", "PR", "PI", "PE"}

Docs == [kind : Doctypes, source : TargetNames, rows : [Rows -> Nat],
         status : {"ABSENT", "DRAFT", "SUBMITTED", "CANCELLED"}]

Snapshots == [action : ActionStates, run : RunRows, reservation : Reservations,
              receipt : Receipts, ready : BOOLEAN, gate : BOOLEAN, readBack : BOOLEAN,
              busy : BOOLEAN, pending : SUBSET (Actions \X {"AWAITING_APPROVAL", "APPROVED"})]

NoSnapshot == [action |-> "NONE", run |-> [state |-> "PROPOSED", live |-> FALSE, goal |-> 0],
               reservation |-> NoReservation, receipt |-> NoReceipt, ready |-> FALSE,
               gate |-> FALSE, readBack |-> FALSE, busy |-> FALSE, pending |-> {}]

\* A request is idle, has a snapshot for a handler, or is an execution whose
\* T1 committed (reserved), whose T2 has its locks and snapshot (t2), whose
\* controller committed (t2b), whose T2 failed, or that is in T3.
Handlers == {"execute", "reconcile", "cancel", "confirm"}

Places == {"idle", "reserved", "t2", "t2b", "failed", "t3"} \cup Handlers

ASSUME P2PConstants ==
    /\ RunOf \in [Actions -> Runs]
    /\ TypeOf \in [Actions -> ActionTypes]
    /\ SourceOf \in [Actions -> DocNames]
    /\ ItemsOf \in [Actions -> [Rows -> Nat]]
    /\ Rows \subseteq Nat \ {0}
    /\ InitialDocs \in [DocNames -> Docs]
    /\ MaxGoalVersion \in Nat
    /\ ControllerMayCommit \in BOOLEAN
    /\ DeskActs \in BOOLEAN
    /\ NoName \notin DocNames \cup Requests
    /\ NoAction \notin Actions

Init ==
    /\ action = [a \in Actions |-> "NONE"]
    /\ proposed = <<>>
    /\ run = [r \in Runs |-> [state |-> "PROPOSED", live |-> TRUE, goal |-> 0]]
    /\ reservation = [a \in Actions |-> NoReservation]
    /\ receipt = [a \in Actions |-> NoReceipt]
    /\ erp = InitialDocs
    /\ applied = [a \in Actions |-> 0]
    /\ pc = [p \in Requests |-> "idle"]
    /\ act = [p \in Requests |-> NoAction]
    /\ snap = [p \in Requests |-> NoSnapshot]
    /\ fault = [p \in Requests |-> "NONE"]
    /\ target = [p \in Requests |-> NoName]
    /\ held = [p \in Requests |-> {}]
    /\ stale = {}

-----------------------------------------------------------------------------
(* The chain of documents. *)

Exists(n) == erp[n].status # "ABSENT"

Converted(n, status) ==
    {d \in DocNames : erp[d].source = n /\ erp[d].status \in status}

\* What the documents of S convert of row r, counted unit by unit.
RowTotal(S, r) == Cardinality(UNION {{d} \X (1 .. erp[d].rows[r]) : d \in S})

\* What is left to convert: received_qty, invoiced quantity and outstanding
\* amount all count submitted documents only.
Remaining(n, r) ==
    LET done == RowTotal(Converted(n, {"SUBMITTED"}), r)
    IN IF done < erp[n].rows[r] THEN erp[n].rows[r] - done ELSE 0

RowsWanted(a) == {r \in Rows : ItemsOf[a][r] > 0}

\* CREATE_*: the source is submitted, every row has the quantity left and no
\* open draft already converts it.
ConversionGate(a) ==
    /\ erp[SourceOf[a]].status = "SUBMITTED"
    /\ \A r \in RowsWanted(a) :
          /\ ItemsOf[a][r] <= Remaining(SourceOf[a], r)
          /\ \A d \in Converted(SourceOf[a], {"DRAFT"}) : erp[d].rows[r] = 0

\* SUBMIT_*: a draft; a payment must still fit its submitted invoice.
SubmitGate(a) ==
    LET n == SourceOf[a] IN
    /\ erp[n].status = "DRAFT"
    /\ TypeOf[a] = "SUBMIT_PAYMENT_ENTRY" =>
          /\ erp[n].source # NoName
          /\ erp[erp[n].source].status = "SUBMITTED"
          /\ \A r \in Rows : erp[n].rows[r] <= Remaining(erp[n].source, r)

\* The documents _p2p_cancel_dependency_gate looks at: receipts and invoices
\* of an order, invoices of a receipt, payments of an invoice.
Downstream(n) ==
    {d \in DocNames :
        \/ erp[d].source = n
        \/ erp[d].kind = "PI" /\ erp[d].source # NoName /\ erp[erp[d].source].source = n}

CancelGate(n) ==
    /\ erp[n].status = "SUBMITTED"
    /\ \A d \in Downstream(n) : erp[d].status # "SUBMITTED"

\* _deterministic_p2p.  Prices, accounts, permissions and the like may also
\* refuse: every later step may fail for reasons not modelled.
DeterministicGate(a) ==
    /\ Exists(SourceOf[a])
    /\ Creates(a) => ConversionGate(a)
    /\ Submits(a) => SubmitGate(a)
    /\ Cancels(a) => CancelGate(SourceOf[a])

\* p2p_read_back for a document n that was drafted: its source rows and
\* quantities.
DraftReadBack(a, n) ==
    erp[n].status = "DRAFT" /\ erp[n].source = SourceOf[a] /\ erp[n].rows = ItemsOf[a]

\* p2p_read_back_with_financials and the _cancel_..._read_back functions.
\* The progress and ledger totals they add may only refuse (TargetVerified).
SubmittedReadBack(n) == erp[n].status = "SUBMITTED"

CancelledReadBack(n) == erp[n].status = "CANCELLED"

\* _payment_entry_read_back: the invoice it settles must still be submitted.
PaymentReadBack(n) ==
    /\ SubmittedReadBack(n)
    /\ erp[n].source # NoName
    /\ SubmittedReadBack(erp[n].source)

\* _cancel_payment_entry_read_back: it keeps the reference to its invoice.
CancelledPaymentReadBack(n) == CancelledReadBack(n) /\ erp[n].source # NoName

ReadBack(a, n) ==
    CASE TypeOf[a] = "SUBMIT_PAYMENT_ENTRY" -> PaymentReadBack(n)
      [] TypeOf[a] = "CANCEL_PAYMENT_ENTRY" -> CancelledPaymentReadBack(n)
      [] TypeOf[a] \in SubmitActions \ {"SUBMIT_PAYMENT_ENTRY"} -> SubmittedReadBack(n)
      [] TypeOf[a] \in CancelActions \ {"CANCEL_PAYMENT_ENTRY"} -> CancelledReadBack(n)
      [] OTHER -> DraftReadBack(a, n)

-----------------------------------------------------------------------------
(* Dependencies between the Actions of a Run. *)

\* Links a success Receipt adds: an invoice names its receipt and order, a
\* cancelled receipt its order.
VerifiedRefs(a) ==
    LET n == SourceOf[a] IN
    IF receipt[a].state \notin SuccessStates THEN {} ELSE
    CASE TypeOf[a] \in {"SUBMIT_PI", "CANCEL_PI"} ->
            {erp[n].source} \cup
                IF erp[n].source = NoName THEN {} ELSE {erp[erp[n].source].source}
      [] TypeOf[a] = "CANCEL_PR" -> {erp[n].source}
      [] OTHER -> {}

RelatedRefs(a) ==
    ({SourceOf[a], receipt[a].target} \cup VerifiedRefs(a)) \ {NoName}

CreatedBefore(b, a) ==
    \E i, j \in DOMAIN proposed : i < j /\ proposed[i] = b /\ proposed[j] = a

InferDependencies(a) ==
    {b \in Actions :
        /\ RunOf[b] = RunOf[a]
        /\ CreatedBefore(b, a)
        /\ ActionOrder[TypeOf[b]] < ActionOrder[TypeOf[a]]
        /\ RelatedRefs(a) \cap RelatedRefs(b) # {}}

\* Mutation: an approved predecessor is enough.
DependenciesApproved(a) ==
    \A b \in InferDependencies(a) : action[b] \in {"APPROVED", "EXECUTED"}

\* assert_p2p_action_dependencies
DependenciesConfirmed(a) ==
    \A b \in InferDependencies(a) :
        action[b] = "EXECUTED" /\ receipt[b].state \in SuccessStates

-----------------------------------------------------------------------------
(* Snapshots, saves and locks. *)

Busy(r) == \E a \in Actions : RunOf[a] = r /\ reservation[a].status \in Unsettled

\* The target reconciliation would read: the recorded one, or the source.
KnownTarget(a) ==
    CASE reservation[a].target # NoName -> reservation[a].target
      [] reservation[a].target = NoName /\ TypeOf[a] \in SourceActions -> SourceOf[a]
      [] OTHER -> NoName

\* What the plain reads of a transaction return, and what the checks make of
\* it: they read nothing newer than this.
Snapshot(a) ==
    [action |-> action[a], run |-> run[RunOf[a]], reservation |-> reservation[a],
     receipt |-> receipt[a], ready |-> DependenciesConfirmed(a),
     gate |-> DeterministicGate(a),
     readBack |-> KnownTarget(a) # NoName /\ ReadBack(a, KnownTarget(a)),
     busy |-> Busy(RunOf[a]),
     pending |-> {x \in Actions \X {"AWAITING_APPROVAL", "APPROVED"} :
                     /\ run[RunOf[a]].goal < MaxGoalVersion
                     /\ RunOf[x[1]] = RunOf[a] /\ action[x[1]] = x[2]}]

RunFresh(p) == run[RunOf[act[p]]] = snap[p].run

ActionFresh(p) == action[act[p]] = snap[p].action

\* sync_p2p_plan_steps saves every step of the Run: whoever loaded them
\* before (an open transaction of the same Run) cannot save them any more.
SyncPlanSteps(r, except) ==
    stale' = (stale \cup {q \in Requests : snap[q] # NoSnapshot /\ RunOf[act[q]] = r})
                \ {except}

StepsFresh(p) == p \notin stale

\* The end of a request, or of its connection: named locks are released.
Finish(p) ==
    /\ pc' = [pc EXCEPT ![p] = "idle"]
    /\ act' = [act EXCEPT ![p] = NoAction]
    /\ snap' = [snap EXCEPT ![p] = NoSnapshot]
    /\ fault' = [fault EXCEPT ![p] = "NONE"]
    /\ target' = [target EXCEPT ![p] = NoName]
    /\ held' = [held EXCEPT ![p] = {}]

OpenTransaction(p, a, place) ==
    /\ pc' = [pc EXCEPT ![p] = place]
    /\ act' = [act EXCEPT ![p] = a]
    /\ snap' = [snap EXCEPT ![p] = Snapshot(a)]
    /\ stale' = stale \ {p}

\* A request about a Run is filed under one fixed Action of it.
Representative(r) == CHOOSE a \in Actions : RunOf[a] = r

Begin(p, a, handler) ==
    /\ pc[p] = "idle"
    /\ IF handler \in {"execute", "reconcile"} THEN action[a] # "NONE"
                                              ELSE a = Representative(RunOf[a])
    /\ handler = "confirm" => run[RunOf[a]].goal < MaxGoalVersion
    /\ OpenTransaction(p, a, handler)
    /\ UNCHANGED <<ledgerVars, erpVars, fault, target, held>>

-----------------------------------------------------------------------------
(* Proposal and decision, each one short transaction. *)

RunTakesSteps(row) ==
    row.live /\ row.state \in {"PROPOSED", "AWAITING_APPROVAL", "EXECUTING"}

\* evaluate_proposal: the Action is inserted and the gates say where it goes.
Propose(a) ==
    /\ action[a] = "NONE"
    /\ RunTakesSteps(run[RunOf[a]])
    /\ \E verdict \in {"AWAITING_APPROVAL", "POLICY_REJECTED"} :
          /\ verdict = "AWAITING_APPROVAL" => DeterministicGate(a)
          /\ action' = [action EXCEPT ![a] = verdict]
    /\ proposed' = Append(proposed, a)
    /\ SyncPlanSteps(RunOf[a], NoName)
    /\ UNCHANGED <<run, reservation, receipt, erpVars, requestVars, held>>

\* decide_action by the independent approver.
Decide(a, decision) ==
    /\ action[a] = "AWAITING_APPROVAL"
    /\ RunTakesSteps(run[RunOf[a]])
    /\ DeterministicGate(a)
    /\ action' = [action EXCEPT ![a] = decision]
    /\ SyncPlanSteps(RunOf[a], NoName)
    /\ UNCHANGED <<proposed, run, reservation, receipt, erpVars, requestVars, held>>

-----------------------------------------------------------------------------
(* T1: reservation. *)

\* pre_execute_recheck on the open transaction.
PreExecuteRecheck(p) ==
    /\ action[act[p]] = "APPROVED"
    /\ snap[p].action = "APPROVED"
    /\ snap[p].receipt = NoReceipt
    /\ RunTakesSteps(snap[p].run)
    /\ snap[p].gate

\* _move_run_to_executing saves the Run only when it is not EXECUTING yet.
MoveRunToExecuting(p) ==
    \/ snap[p].run.state = "EXECUTING" /\ UNCHANGED run
    \/ /\ snap[p].run.state # "EXECUTING"
       /\ RunFresh(p)
       /\ run' = [run EXCEPT ![RunOf[act[p]]].state = "EXECUTING"]

\* Mutation: only a settled reservation stops a new one.
T1ReserveAgain(p) ==
    LET a == act[p] IN
    /\ pc[p] = "execute"
    /\ reservation[a].status \notin FinalStates
    /\ snap[p].ready
    /\ PreExecuteRecheck(p)
    /\ reservation' = [reservation EXCEPT ![a] = StartedReservation]
    /\ MoveRunToExecuting(p)
    /\ pc' = [pc EXCEPT ![p] = "reserved"]
    /\ snap' = [snap EXCEPT ![p] = NoSnapshot]
    /\ stale' = stale \ {p}
    /\ UNCHANGED <<action, proposed, receipt, erpVars, act, fault, target, held>>

T1Reserve(p) ==
    LET a == act[p] IN
    /\ pc[p] = "execute"
    /\ reservation[a] = NoReservation
    /\ snap[p].ready
    /\ PreExecuteRecheck(p)
    /\ reservation' = [reservation EXCEPT ![a] = StartedReservation]
    /\ MoveRunToExecuting(p)
    /\ pc' = [pc EXCEPT ![p] = "reserved"]
    /\ snap' = [snap EXCEPT ![p] = NoSnapshot]
    /\ stale' = stale \ {p}
    /\ UNCHANGED <<action, proposed, receipt, erpVars, act, fault, target, held>>

\* _replay: a success found by an execute is read back and answered again.
Replay(p) ==
    /\ pc[p] = "execute"
    /\ snap[p].ready
    /\ snap[p].reservation.status \in SuccessStates
    /\ snap[p].action = "EXECUTED"
    /\ snap[p].readBack
    /\ Finish(p)
    /\ stale' = stale \ {p}
    /\ UNCHANGED <<ledgerVars, erpVars>>

-----------------------------------------------------------------------------
(* T2: named locks, then the snapshot, then the ERP write. *)

\* Receipt and invoice drafts lock their source rows, everything else locks
\* the document it is about (row 0).
LockNames(a) ==
    IF TypeOf[a] \in {"CREATE_PR_DRAFT", "CREATE_PI_DRAFT"}
    THEN {<<SourceOf[a], r>> : r \in RowsWanted(a)}
    ELSE {<<SourceOf[a], 0>>}

Wanted(p) == LockNames(act[p]) \ held[p]

\* Mutation: rows are locked in the order of the payload.
AnyLock(p, l) == l \in Wanted(p)

\* The rows are sorted before they are locked.
NextLock(p, l) == l \in Wanted(p) /\ \A m \in Wanted(p) : l[2] <= m[2]

Free(l) == \A q \in Requests : l \notin held[q]

\* One GET_LOCK of _lock_p2p_source.
AcquireLock(p, l) ==
    /\ pc[p] = "reserved"
    /\ NextLock(p, l)
    /\ Free(l)
    /\ held' = [held EXCEPT ![p] = @ \cup {l}]
    /\ UNCHANGED <<ledgerVars, erpVars, requestVars, stale>>

\* Mutation: the first read comes before the locks.
AnyMoment(p) == pc[p] = "reserved"

\* All locks are held before the first read of the transaction.
LocksHeld(p) == pc[p] = "reserved" /\ Wanted(p) = {}

T2Begin(p) ==
    /\ LocksHeld(p)
    /\ OpenTransaction(p, act[p], "t2")
    /\ UNCHANGED <<ledgerVars, erpVars, fault, target, held>>

\* The native controller: insert of the mapped draft, submit() or cancel() of
\* the document as it was loaded.
ControllerWrite(a, n) ==
    /\ erp' = [erp EXCEPT ![n] =
                  CASE Creates(a) -> [kind |-> TargetDoctypes[TypeOf[a]], source |-> SourceOf[a],
                                      rows |-> ItemsOf[a], status |-> "DRAFT"]
                    [] Submits(a) -> [@ EXCEPT !.status = "SUBMITTED"]
                    [] OTHER -> [@ EXCEPT !.status = "CANCELLED"]]
    /\ applied' = [applied EXCEPT ![a] = @ + 1]

ControllerAccepts(a, n) ==
    CASE Creates(a) -> ~Exists(n)
      [] Submits(a) -> n = SourceOf[a] /\ erp[n].status = "DRAFT"
      [] OTHER -> n = SourceOf[a] /\ erp[n].status = "SUBMITTED"

\* Mutation: the read-back Receipt does not settle the reservation.
RecordReceiptOnly(p, n) ==
    LET a == act[p] IN
    /\ ActionFresh(p) /\ StepsFresh(p)
    /\ reservation[a] = StartedReservation /\ receipt[a] = NoReceipt
    /\ receipt' = [receipt EXCEPT ![a] = [state |-> "SUCCEEDED", target |-> n]]
    /\ action' = [action EXCEPT ![a] = "EXECUTED"]
    /\ SyncPlanSteps(RunOf[a], p)
    /\ UNCHANGED <<proposed, run, reservation>>

\* _persist_receipt: a Receipt names its target if there is one.
PersistReceipt(a, state, n) ==
    receipt' = [receipt EXCEPT ![a] = [state |-> state, target |-> n]]

\* Receipt, Action, reservation and plan steps; the Run is not saved.
RecordSuccess(p, n) ==
    LET a == act[p] IN
    /\ ActionFresh(p) /\ StepsFresh(p)
    /\ reservation[a] = StartedReservation /\ receipt[a] = NoReceipt
    /\ PersistReceipt(a, "SUCCEEDED", n)
    /\ action' = [action EXCEPT ![a] = "EXECUTED"]
    /\ reservation' = [reservation EXCEPT ![a] = [status |-> "SUCCEEDED", target |-> n]]
    /\ SyncPlanSteps(RunOf[a], p)
    /\ UNCHANGED <<proposed, run>>

T2Commit(p, n) ==
    /\ pc[p] = "t2"
    /\ PreExecuteRecheck(p) /\ snap[p].ready
    /\ ControllerAccepts(act[p], n)
    /\ ControllerWrite(act[p], n)
    /\ RecordSuccess(p, n)
    /\ Finish(p)

\* A controller that commits makes its write durable before the Receipt; the
\* connection goes on in a new transaction.
T2Write(p, n) ==
    /\ ControllerMayCommit
    /\ pc[p] = "t2"
    /\ PreExecuteRecheck(p) /\ snap[p].ready
    /\ ControllerAccepts(act[p], n)
    /\ ControllerWrite(act[p], n)
    /\ pc' = [pc EXCEPT ![p] = "t2b"]
    /\ target' = [target EXCEPT ![p] = n]
    /\ snap' = [snap EXCEPT ![p] = Snapshot(act[p])]
    /\ stale' = stale \ {p}
    /\ UNCHANGED <<ledgerVars, act, fault, held>>

T2Record(p) ==
    /\ pc[p] = "t2b"
    /\ action[act[p]] = "APPROVED"
    /\ RecordSuccess(p, target[p])
    /\ Finish(p)
    /\ UNCHANGED erpVars

\* A lock times out, a check fails, the controller raises or the record does
\* not fit: the transaction is rolled back.  Before the controller runs there
\* is no target; afterwards it is the document that was loaded, or the name a
\* draft would have had.  Locks that were all acquired stay until the end.
T2Fail(p, outcome, n) ==
    /\ pc[p] \in {"reserved", "t2", "t2b"}
    /\ pc[p] = "reserved" => n = NoName
    /\ pc[p] = "t2" /\ n # NoName =>
          snap[p].gate /\ snap[p].ready /\ ControllerAccepts(act[p], n)
    /\ pc[p] = "t2b" => n = target[p]
    /\ pc' = [pc EXCEPT ![p] = "failed"]
    /\ snap' = [snap EXCEPT ![p] = NoSnapshot]
    /\ fault' = [fault EXCEPT ![p] = outcome]
    /\ target' = [target EXCEPT ![p] = n]
    /\ held' = [held EXCEPT ![p] = IF Wanted(p) = {} THEN @ ELSE {}]
    /\ stale' = stale \ {p}
    /\ UNCHANGED <<ledgerVars, erpVars, act>>

-----------------------------------------------------------------------------
(* T3: _finalize_failure, without locks, then the plan steps. *)

\* The document in hand is looked up again after the rollback.
T3Begin(p) ==
    /\ pc[p] = "failed"
    /\ OpenTransaction(p, act[p], "t3")
    /\ target' = [target EXCEPT ![p] = IF @ # NoName /\ Exists(@) THEN @ ELSE NoName]
    /\ UNCHANGED <<ledgerVars, erpVars, fault, held>>

\* Mutation: the Run is left as it is.
KeepRun(p, uncertain) == UNCHANGED run

\* An uncertain result freezes an executing Run, if the row is the one read.
FreezeRun(p, uncertain) ==
    IF uncertain /\ snap[p].run.state = "EXECUTING"
    THEN /\ RunFresh(p)
         /\ run' = [run EXCEPT ![RunOf[act[p]]].state = "RECONCILIATION_REQUIRED"]
    ELSE UNCHANGED run

\* Mutation: the Action is not closed.
KeepAction(p, state) == UNCHANGED action

\* transition_action_state of an Action that was read as APPROVED.
CloseAction(p, state) ==
    IF snap[p].action = "APPROVED"
    THEN ActionFresh(p) /\ action' = [action EXCEPT ![act[p]] = state]
    ELSE UNCHANGED action

\* Mutation: the category is stored in place of the state.
FaultAsState(p) == fault[p]

FailureState(p) == IF fault[p] = "UNCERTAIN" THEN "RECONCILIATION_REQUIRED" ELSE "FAILED"

T3Commit(p) ==
    LET a == act[p]
        final == FailureState(p)
    IN
    /\ pc[p] = "t3"
    /\ snap[p].reservation.status = "STARTED"
    /\ reservation[a] = snap[p].reservation /\ receipt[a] = NoReceipt
    /\ PersistReceipt(a, final, target[p])
    /\ reservation' = [reservation EXCEPT ![a] = [status |-> final, target |-> target[p]]]
    /\ FreezeRun(p, fault[p] = "UNCERTAIN")
    /\ CloseAction(p, "EXPIRED")
    /\ SyncPlanSteps(RunOf[a], p)
    /\ Finish(p)
    /\ UNCHANGED <<proposed, erpVars>>

-----------------------------------------------------------------------------
(* Reconciliation: it reads the target and settles the reservation. *)

\* Asked for directly, or by an execute that finds a started reservation
\* whose lease is over.
ReconcileEntered(p) ==
    /\ \/ pc[p] = "reconcile"
       \/ pc[p] = "execute" /\ snap[p].ready /\ snap[p].reservation.status = "STARTED"
    /\ snap[p].reservation.status \in Unsettled
    /\ reservation[act[p]] = snap[p].reservation

\* A Receipt is inserted once, and moves once from RECONCILIATION_REQUIRED.
ReceiptWritable(p) ==
    /\ receipt[act[p]] = snap[p].receipt
    /\ receipt[act[p]].state \in {"NONE", "RECONCILIATION_REQUIRED"}

\* Mutation: a target that can be loaded is taken for a verified one.
TargetFound(p) == KnownTarget(act[p]) # NoName

\* The target was read back and the approval had not been spent.  The
\* financial part of the read-back may refuse on its own.
TargetVerified(p) == snap[p].readBack /\ snap[p].action = "APPROVED"

Verdict(verified, a) ==
    IF verified THEN [status |-> "RECONCILED_SUCCESS", target |-> KnownTarget(a)]
                ELSE [status |-> "MANUAL_INTERVENTION", target |-> reservation[a].target]

\* The Receipt names a target only for a success.
ReceiptOf(verdict) ==
    [state |-> verdict.status,
     target |-> IF verdict.status \in SuccessStates THEN verdict.target ELSE NoName]

Reconcile(p, verified) ==
    LET a == act[p]
        verdict == Verdict(verified, a)
    IN
    /\ ReconcileEntered(p) /\ ReceiptWritable(p)
    /\ verified => TargetVerified(p)
    /\ receipt' = [receipt EXCEPT ![a] = ReceiptOf(verdict)]
    /\ reservation' = [reservation EXCEPT ![a] = verdict]
    /\ CloseAction(p, IF verified THEN "EXECUTED" ELSE "EXPIRED")
    /\ FreezeRun(p, ~verified)
    /\ StepsFresh(p) /\ SyncPlanSteps(RunOf[a], p)
    /\ Finish(p)
    /\ UNCHANGED <<proposed, erpVars>>

\* The Action changed since it was read: transition_action_state raises after
\* the Receipt was stored, the fault is returned as a response and the
\* request commits what was done so far.
ReconcileActionConflict(p, verified) ==
    LET a == act[p] IN
    /\ ReconcileEntered(p) /\ ReceiptWritable(p)
    /\ verified => TargetVerified(p)
    /\ snap[p].action = "APPROVED" /\ ~ActionFresh(p)
    /\ receipt' = [receipt EXCEPT ![a] = ReceiptOf(Verdict(verified, a))]
    /\ reservation' = [reservation EXCEPT ![a].status = "RECONCILIATION_REQUIRED"]
    /\ Finish(p)
    /\ UNCHANGED <<action, proposed, run, erpVars, stale>>

\* Likewise when the Run changed: only the freeze and the plan steps are lost.
ReconcileRunConflict(p) ==
    LET a == act[p]
        verdict == Verdict(FALSE, a)
    IN
    /\ ReconcileEntered(p) /\ ReceiptWritable(p)
    /\ snap[p].run.state = "EXECUTING" /\ ~RunFresh(p)
    /\ receipt' = [receipt EXCEPT ![a] = ReceiptOf(verdict)]
    /\ reservation' = [reservation EXCEPT ![a] = verdict]
    /\ CloseAction(p, "EXPIRED")
    /\ Finish(p)
    /\ UNCHANGED <<proposed, run, erpVars, stale>>

-----------------------------------------------------------------------------
(* The Run, the goal, and the people at the desk. *)

OpenRunStates == {"PROPOSED", "AWAITING_APPROVAL", "EXECUTING", "RECONCILIATION_REQUIRED"}

\* cancel_p2p_run; EXPIRED when the workflow deadline has passed.  The list
\* of active reservations was read before the Run lock was granted.
CancelRun(p, terminal) ==
    /\ pc[p] = "cancel"
    /\ snap[p].run.live /\ snap[p].run.state \in OpenRunStates
    /\ ~snap[p].busy
    /\ RunFresh(p)
    /\ run' = [run EXCEPT ![RunOf[act[p]]] = [@ EXCEPT !.state = terminal, !.live = FALSE]]
    /\ Finish(p)
    /\ UNCHANGED <<action, proposed, reservation, receipt, erpVars, stale>>

RevokeRun(r) ==
    /\ run[r].live
    /\ run' = [run EXCEPT ![r].live = FALSE]
    /\ UNCHANGED <<action, proposed, reservation, receipt, erpVars, requestVars, held, stale>>

\* Mutation: the listed Actions are expired whatever became of them.
InvalidatedBlindly(p) == {x[1] : x \in snap[p].pending}

\* Pending Actions are expired in order of creation.  The first that changed
\* since it was listed ends the loop with a fault, returned as a response.
Invalidated(p) ==
    {x[1] : x \in {y \in snap[p].pending :
        /\ action[y[1]] = y[2]
        /\ \A z \in snap[p].pending : action[z[1]] # z[2] => CreatedBefore(y[1], z[1])}}

\* confirm_p2p_goal with another goal.
ConfirmGoal(p) ==
    LET r == RunOf[act[p]] IN
    /\ pc[p] = "confirm"
    /\ snap[p].run.live /\ snap[p].run.state \in OpenRunStates
    /\ run[r].goal < MaxGoalVersion
    /\ RunFresh(p)
    /\ run' = [run EXCEPT ![r].goal = @ + 1]
    /\ action' = [a \in Actions |-> IF a \in Invalidated(p) THEN "EXPIRED" ELSE action[a]]
    /\ Finish(p)
    /\ UNCHANGED <<proposed, reservation, receipt, erpVars, stale>>

\* ERPNext submits a document only while its predecessor is submitted.
DeskSubmit(n) ==
    /\ DeskActs
    /\ erp[n].status = "DRAFT"
    /\ erp[n].source # NoName => erp[erp[n].source].status = "SUBMITTED"
    /\ erp' = [erp EXCEPT ![n].status = "SUBMITTED"]
    /\ UNCHANGED <<applied, ledgerVars, requestVars, held, stale>>

\* ERPNext refuses to cancel a document with submitted successors.
DeskCancel(n) ==
    /\ DeskActs
    /\ CancelGate(n)
    /\ erp' = [erp EXCEPT ![n].status = "CANCELLED"]
    /\ UNCHANGED <<applied, ledgerVars, requestVars, held, stale>>

\* A refusal, a rollback, or the death of the worker: named locks go with the
\* connection.  A T3 that had nothing to record still saves the plan steps.
Abandon(p) ==
    /\ pc[p] # "idle"
    /\ Finish(p)
    /\ \/ stale' = stale \ {p}
       \/ pc[p] = "t3" /\ SyncPlanSteps(RunOf[act[p]], p)
    /\ UNCHANGED <<ledgerVars, erpVars>>

Execute(p) ==
    \/ T1Reserve(p)
    \/ Replay(p)
    \/ \E l \in LockNames(act[p]) : AcquireLock(p, l)
    \/ T2Begin(p)
    \/ \E n \in DocNames : T2Commit(p, n) \/ T2Write(p, n)
    \/ T2Record(p)
    \/ \E outcome \in {"FAILED", "UNCERTAIN"}, n \in TargetNames : T2Fail(p, outcome, n)
    \/ T3Begin(p)
    \/ T3Commit(p)

Next ==
    \/ \E a \in Actions :
          \/ Propose(a)
          \/ \E decision \in {"APPROVED", "DECLINED"} : Decide(a, decision)
    \/ \E p \in Requests :
          \/ \E a \in Actions, handler \in Handlers : Begin(p, a, handler)
          \/ pc[p] # "idle" /\ Execute(p)
          \/ \E verified \in BOOLEAN : Reconcile(p, verified) \/ ReconcileActionConflict(p, verified)
          \/ ReconcileRunConflict(p)
          \/ \E terminal \in {"CANCELLED", "EXPIRED"} : CancelRun(p, terminal)
          \/ ConfirmGoal(p)
          \/ Abandon(p)
    \/ \E r \in Runs : RevokeRun(r)
    \/ \E n \in DocNames : DeskSubmit(n) \/ DeskCancel(n)

Spec == Init /\ [][Next]_vars

-----------------------------------------------------------------------------
(* Properties. *)

\* Every row, snapshot and request variable holds a value the code can put
\* there, and the locks of a connection are locks of its Action.
TypeOK ==
    /\ action \in [Actions -> ActionStates]
    /\ proposed \in Seq(Actions)
    /\ run \in [Runs -> RunRows]
    /\ reservation \in [Actions -> Reservations]
    /\ receipt \in [Actions -> Receipts]
    /\ erp \in [DocNames -> Docs]
    /\ applied \in [Actions -> Nat]
    /\ pc \in [Requests -> Places]
    /\ act \in [Requests -> Actions \cup {NoAction}]
    /\ snap \in [Requests -> Snapshots]
    /\ fault \in [Requests -> {"NONE", "FAILED", "UNCERTAIN"}]
    /\ target \in [Requests -> TargetNames]
    /\ \A p \in Requests : held[p] # {} => held[p] \subseteq LockNames(act[p])
    /\ stale \subseteq Requests

\* One approved Action changes the ERP at most once, whatever crashes, lost
\* answers, controller commits and repeated calls happen on the way.
AtMostOneEffect == \A a \in Actions : applied[a] <= 1

\* With controllers that leave the commit to the executor, every effect is
\* recorded as a success: no failed, uncertain or abandoned execution leaves
\* a document changed, although its rows are saved after the write.
NoLostEffect ==
    \A a \in Actions : applied[a] > 0 => reservation[a].status = "SUCCEEDED"

\* The rows written one by one by T2, T3 and reconciliation agree: an Action
\* is EXECUTED exactly when its reservation is a success, and a settled
\* reservation has the Receipt of the same outcome; a success names its
\* target in both.
LedgersAgree ==
    \A a \in Actions :
        /\ action[a] = "EXECUTED" <=> reservation[a].status \in SuccessStates
        /\ reservation[a].status \in FinalStates => receipt[a].state = reservation[a].status
        /\ reservation[a].status \in SuccessStates =>
              reservation[a].target # NoName /\ receipt[a].target = reservation[a].target

\* A success is true of the ERP: the document it names was converted from the
\* reviewed rows, submitted or cancelled (it may have moved on since), even
\* when it was a reconciliation that said so from an older snapshot.
SuccessIsReal ==
    \A a \in Actions :
        receipt[a].state \in SuccessStates =>
            LET d == erp[receipt[a].target] IN
            CASE Creates(a) -> /\ d.status # "ABSENT"
                               /\ d.source = SourceOf[a] /\ d.rows = ItemsOf[a]
              [] Submits(a) -> d.status \in {"SUBMITTED", "CANCELLED"}
              [] OTHER -> d.status = "CANCELLED"

\* Drafts and submitted documents converted from a row never exceed it, even
\* when two approved conversions of the same row run at the same time.
NoOverConversion ==
    \A n \in DocNames, r \in Rows :
        Exists(n) =>
            RowTotal(Converted(n, {"DRAFT", "SUBMITTED"}), r) <= erp[n].rows[r]

\* p waits for a lock of q.
WaitsFor(p, q) ==
    pc[p] = "reserved" /\ \E l \in held[q] : NextLock(p, l)

\* No two executions wait for each other's row locks.
NoLockCycle ==
    \A p, q \in Requests : p # q => ~(WaitsFor(p, q) /\ WaitsFor(q, p))

\* A write whose result is uncertain freezes the Run: nothing of an active
\* Run is EXECUTING on while one of its results needs reconciliation or a
\* human.
UncertainFreezesRun ==
    \A a \in Actions :
        reservation[a].status \in {"RECONCILIATION_REQUIRED", "MANUAL_INTERVENTION"} =>
            ~(run[RunOf[a]].live /\ run[RunOf[a]].state = "EXECUTING")

\* At the moment an Action changes the ERP, everything it depends on has been
\* executed and recorded, although the dependencies were read before.
DependenciesFirst ==
    [][\A a \in Actions :
          applied'[a] # applied[a] =>
              \A b \in InferDependencies(a) :
                  action[b] = "EXECUTED" /\ receipt[b].state \in SuccessStates]_vars

\* A settled reservation, its Receipt and its Action never change again: a
\* late T2, a late T3, a second reconciliation and a new goal included.
SettledIsFrozen ==
    [][\A a \in Actions :
          reservation[a].status \in FinalStates =>
              UNCHANGED <<reservation[a], receipt[a], action[a]>>]_vars

-----------------------------------------------------------------------------
(* What the documents say and the code does not do. *)

\* The development log has cancellation refused while a reservation is
\* active: no ERP document changes for a Run that is already cancelled.
NoWriteAfterCancel ==
    [][\A a \in Actions :
          applied'[a] # applied[a] => run[RunOf[a]].state \notin {"CANCELLED", "EXPIRED"}]_vars

=============================================================================
