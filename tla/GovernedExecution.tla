-------------------------- MODULE GovernedExecution --------------------------
(***************************************************************************)
(* The governed Draft executor of the Frappe app (Material Request and     *)
(* Purchase Order): decision, durable reservation (T1), ERP write (T2),    *)
(* failure record (T3), read-only reconciliation, replay and cancellation. *)
(*                                                                         *)
(* Every HTTP request runs MariaDB transactions at REPEATABLE READ.  Its   *)
(* first plain read fixes a snapshot; it then waits for the row locks of   *)
(* its Run and Action.  A document loaded after the wait still comes from  *)
(* the snapshot, a column returned by SELECT ... FOR UPDATE is current,    *)
(* and Document.save() fails when the row changed after it was loaded.     *)
(* A transaction is therefore two steps here: one that takes the snapshot  *)
(* and one that runs, under the locks, from the snapshot to its commit.    *)
(* T2 is three: it takes the locks and evaluates the gates, and holds the  *)
(* locks until the ERP write commits.  No clock waits for a lock.          *)
(***************************************************************************)
EXTENDS Naturals, FiniteSets

CONSTANTS
    Actions,              \* Synora Proposed Actions of type CREATE_MR/PO_DRAFT
    Runs,                 \* Synora Agent Runs
    Requests,             \* concurrent HTTP requests of the initiator
    Names,                \* names ERPNext can give to a draft, as it sorts them
    Shapes,               \* the payloads that can be told apart by read-back
    RunOf,                \* the Run of an Action
    ShapeOf,              \* the payload of an Action
    ItemOf,               \* the item, warehouse and company of a payload
    HeaderOf,             \* the parent fields of a payload a search filters by
    RowLimit,             \* documents whose rows one search reads (limit=100)
    DraftLimit,           \* drafts one search returns (limit=50)
    ManualShapes,         \* the payloads users also enter by hand
    NoName,               \* an empty target_name
    Desk,                 \* the author of a draft entered by hand
    NoAction,             \* the Action of an idle request
    ControllerMayCommit   \* TRUE if an ERP controller may commit mid-insert

ASSUME ConstantsAssumption ==
    /\ RunOf \in [Actions -> Runs]
    /\ ShapeOf \in [Actions -> Shapes]
    /\ ManualShapes \subseteq Shapes
    /\ Names \subseteq Nat
    /\ NoName \notin Names
    /\ RowLimit \in Nat /\ DraftLimit \in Nat \ {0}
    /\ Desk \notin Actions
    /\ NoAction \notin Actions
    /\ ControllerMayCommit \in BOOLEAN

VARIABLES
    action,       \* state column of each Proposed Action
    run,          \* run_state, and whether status is ACTIVE and not revoked
    reservation,  \* execution reservation of each Action (status NONE: no row)
    receipt,      \* execution receipt of each Action (state NONE: no row)
    docs,         \* drafts in ERPNext; "by" is history, not a column
    leaseOver,    \* the reservation's lease_expires_at has passed
    expired,      \* the Action's expires_at has passed
    runOver,      \* the Run's workflow_expires_at has passed
    pc,           \* where each request is
    act,          \* the Action each request is about
    snap,         \* the snapshot of each request's open transaction
    fault,        \* what map_execution_error made of a failed T2
    written,      \* the draft a request has inserted
    answers       \* history: success responses sent, <<Action, target>>

erpVars == <<docs>>
ledgerVars == <<action, run, reservation, receipt>>
clockVars == <<leaseOver, expired, runOver>>
requestVars == <<pc, act, snap, fault, written>>
vars == <<ledgerVars, erpVars, clockVars, requestVars, answers>>

-----------------------------------------------------------------------------
(* The three state machines, as the tables of the code. *)

ActionStates == {"AWAITING_APPROVAL", "APPROVED", "DECLINED", "EXPIRED", "EXECUTED"}

RunStates == {"PROPOSED", "AWAITING_APPROVAL", "EXECUTING", "SUCCEEDED", "FAILED",
              "CANCELLED", "EXPIRED", "RECONCILIATION_REQUIRED"}

RunTransitions ==
    [s \in RunStates |->
        CASE s = "PROPOSED" -> {"AWAITING_APPROVAL", "SUCCEEDED", "CANCELLED", "EXPIRED"}
          [] s = "AWAITING_APPROVAL" -> {"EXECUTING", "CANCELLED", "EXPIRED"}
          [] s = "EXECUTING" -> {"SUCCEEDED", "FAILED", "RECONCILIATION_REQUIRED",
                                "CANCELLED", "EXPIRED"}
          [] s = "RECONCILIATION_REQUIRED" -> {"SUCCEEDED", "FAILED", "CANCELLED", "EXPIRED"}
          [] OTHER -> {}]

SuccessStates == {"SUCCEEDED", "RECONCILED_SUCCESS"}

FinalStates == SuccessStates \cup {"FAILED", "RECONCILED_FAILURE", "MANUAL_INTERVENTION"}

Unsettled == {"STARTED", "RECONCILIATION_REQUIRED"}

TargetNames == Names \cup {NoName}

RunRows == [state : RunStates, live : BOOLEAN]

Reservations == [status : {"NONE"} \cup Unsettled \cup FinalStates,
                 target : TargetNames, failure : BOOLEAN]

Receipts == [state : {"NONE", "RECONCILIATION_REQUIRED"} \cup FinalStates,
             target : TargetNames]

Docs == [name : Names, shape : Shapes, by : Actions \cup {Desk}, docstatus : {0, 1}]

Snapshots == [action : ActionStates, run : RunRows, reservation : Reservations,
              receipt : Receipts, docs : SUBSET Docs, busy : BOOLEAN]

NoReservation == [status |-> "NONE", target |-> NoName, failure |-> FALSE]

\* The row _insert_reservation creates.
StartedReservation == [status |-> "STARTED", target |-> NoName, failure |-> FALSE]

NoReceipt == [state |-> "NONE", target |-> NoName]

NoSnapshot == [action |-> "AWAITING_APPROVAL", run |-> [state |-> "PROPOSED", live |-> FALSE],
               reservation |-> NoReservation, receipt |-> NoReceipt, docs |-> {}, busy |-> FALSE]

\* A request is idle, has a snapshot for one of the four handlers, or is an
\* execution at: T1 committed (reserved), T2 with a snapshot (t2), T2 past the
\* gates with its locks (cleared), T2 after the controller committed (t2b), T2
\* committed (ok), T2 failed (failed), T3 (t3).
Handlers == {"decide", "execute", "reconcile", "cancel"}

Places ==
    {"idle", "reserved", "t2", "cleared", "t2b", "ok", "failed", "t3"} \cup Handlers

Init ==
    /\ action = [a \in Actions |-> "AWAITING_APPROVAL"]
    /\ run = [r \in Runs |-> [state |-> "PROPOSED", live |-> TRUE]]
    /\ reservation = [a \in Actions |-> NoReservation]
    /\ receipt = [a \in Actions |-> NoReceipt]
    /\ docs = {}
    /\ leaseOver = [a \in Actions |-> FALSE]
    /\ expired = [a \in Actions |-> FALSE]
    /\ runOver = [r \in Runs |-> FALSE]
    /\ pc = [p \in Requests |-> "idle"]
    /\ act = [p \in Requests |-> NoAction]
    /\ snap = [p \in Requests |-> NoSnapshot]
    /\ fault = [p \in Requests |-> "NONE"]
    /\ written = [p \in Requests |-> NoName]
    /\ answers = {}

-----------------------------------------------------------------------------
(* Snapshots, locks and saves. *)

SameItem(d, a) == ItemOf[d.shape] = ItemOf[ShapeOf[a]]

\* _active_reservations: some side effect of the Run is not settled.
Busy(r) == \E a \in Actions : RunOf[a] = r /\ reservation[a].status \in Unsettled

\* What the plain reads of a transaction about Action a return from now on.
Snapshot(a) ==
    [action |-> action[a], run |-> run[RunOf[a]], reservation |-> reservation[a],
     receipt |-> receipt[a], docs |-> {d \in docs : SameItem(d, a)},
     busy |-> Busy(RunOf[a])]

\* The Run r is locked by a T2 on its way to the commit: whoever locks or saves
\* its row or a row of one of its Actions waits.
Locked(r) == \E q \in Requests : pc[q] = "cleared" /\ RunOf[act[q]] = r

\* Document.save() of the Run and of the Action: the row is the one loaded.
RunFresh(p) == run[RunOf[act[p]]] = snap[p].run

ActionFresh(p) == action[act[p]] = snap[p].action

ValidateRunTransition(s, t) == s = t \/ t \in RunTransitions[s]

\* The end of a request: whatever it had not committed is gone.
Finish(p) ==
    /\ pc' = [pc EXCEPT ![p] = "idle"]
    /\ act' = [act EXCEPT ![p] = NoAction]
    /\ snap' = [snap EXCEPT ![p] = NoSnapshot]
    /\ fault' = [fault EXCEPT ![p] = "NONE"]
    /\ written' = [written EXCEPT ![p] = NoName]

\* A transaction of an execution is over and the request goes on.
Continue(p, place) ==
    /\ pc' = [pc EXCEPT ![p] = place]
    /\ snap' = [snap EXCEPT ![p] = NoSnapshot]
    /\ act' = act

\* A request, or the next transaction of an execution, takes its snapshot.
OpenTransaction(p, a, place) ==
    /\ pc' = [pc EXCEPT ![p] = place]
    /\ act' = [act EXCEPT ![p] = a]
    /\ snap' = [snap EXCEPT ![p] = Snapshot(a)]
    /\ UNCHANGED <<fault, written, ledgerVars, erpVars, clockVars, answers>>

\* A request arrives for one of the handlers.
Begin(p, a, handler) ==
    /\ pc[p] = "idle"
    /\ OpenTransaction(p, a, handler)

-----------------------------------------------------------------------------
(* Decision and the gates. *)

\* _run_identity: the Run, as loaded, still takes governed steps.
RunIdentity(p) ==
    /\ snap[p].run.live
    /\ snap[p].run.state \in {"PROPOSED", "AWAITING_APPROVAL", "EXECUTING"}
    /\ ~runOver[RunOf[act[p]]]

\* _deterministic refuses a payload for which an open document exists.
OpenDuplicate(p) == snap[p].docs # {}

\* _gate_checks; the gates on permissions, prices and workflow depend on
\* nothing modelled here and may fail at any time (T1Expire, T2Fail).
GatesPass(p) == RunIdentity(p) /\ ~OpenDuplicate(p)

\* Mutation: the decision word is stored instead of the target state.
DecideStoresDecision(p, decision) ==
    LET a == act[p] IN
    /\ pc[p] = "decide"
    /\ ~Locked(RunOf[act[p]])
    /\ action[a] = "AWAITING_APPROVAL"
    /\ ~expired[a]
    /\ GatesPass(p)
    /\ ActionFresh(p)
    /\ action' = [action EXCEPT ![a] = IF decision = "APPROVED" THEN "ALLOW" ELSE "DECLINE"]
    /\ Finish(p)
    /\ UNCHANGED <<run, reservation, receipt, erpVars, clockVars, answers>>

\* decide_action, for ALLOW and DECLINE.  CHANGES_REQUESTED adds an approval
\* row that no other handler reads.
Decide(p, decision) ==
    LET a == act[p] IN
    /\ pc[p] = "decide"
    /\ ~Locked(RunOf[act[p]])
    /\ action[a] = "AWAITING_APPROVAL"
    /\ ~expired[a]
    /\ GatesPass(p)
    /\ ActionFresh(p)
    /\ action' = [action EXCEPT ![a] = decision]
    /\ Finish(p)
    /\ UNCHANGED <<run, reservation, receipt, erpVars, clockVars, answers>>

\* pre_execute_recheck up to the gates.  The approval row is part of the
\* snapshot exactly when the Action's approved state is.
ProofCurrent(p) ==
    /\ action[act[p]] = "APPROVED"
    /\ snap[p].receipt = NoReceipt
    /\ snap[p].action = "APPROVED"
    /\ ~expired[act[p]]

PreExecuteRecheck(p) == ProofCurrent(p) /\ GatesPass(p)

-----------------------------------------------------------------------------
(* T1: the durable reservation. *)

\* Mutation: a reservation that is not settled may be taken again.
NotSettled(p) == reservation[act[p]].status \notin FinalStates

\* _reservation_by_key(lock=True) finds no row.
NotReserved(p) == reservation[act[p]].status = "NONE"

\* _expire_if_owner: a gate failed before the reservation.  The fault is
\* returned as a response, so the request commits the expiry.
T1Expire(p) ==
    LET a == act[p] IN
    /\ pc[p] = "execute"
    /\ ~Locked(RunOf[act[p]])
    /\ NotReserved(p)
    /\ ProofCurrent(p)
    /\ action' = [action EXCEPT ![a] = "EXPIRED"]
    /\ Finish(p)
    /\ UNCHANGED <<run, reservation, receipt, erpVars, clockVars, answers>>

\* _move_run_to_executing saves the Run unless it is already EXECUTING.
MoveRunToExecuting(p) ==
    LET r == RunOf[act[p]] IN
    \/ /\ snap[p].run.state = "EXECUTING"
       /\ UNCHANGED run
    \/ /\ snap[p].run.state \in {"PROPOSED", "AWAITING_APPROVAL"}
       /\ RunFresh(p)
       /\ run' = [run EXCEPT ![r] = [state |-> "EXECUTING", live |-> snap[p].run.live]]

T1Reserve(p) ==
    LET a == act[p] IN
    /\ pc[p] = "execute"
    /\ ~Locked(RunOf[act[p]])
    /\ NotReserved(p)
    /\ PreExecuteRecheck(p)
    /\ reservation' = [reservation EXCEPT ![a] = StartedReservation]
    /\ MoveRunToExecuting(p)
    /\ Continue(p, "reserved")
    /\ UNCHANGED <<action, receipt, erpVars, clockVars, fault, written, answers>>

\* verify_..._read_back: every field of the payload is found in the document.
MatchesPayload(d, a) == d.shape = ShapeOf[a]

\* _load_readable_target and the read-back: a draft with the Action's fields.
ReadBack(a, n, visible) ==
    \E d \in visible : d.name = n /\ MatchesPayload(d, a) /\ d.docstatus = 0

\* _serialize_receipt_for_actor: a Receipt with a target leaves the system only
\* if the reservation names the same target and it still reads back.
ReceiptServed(p) ==
    /\ snap[p].receipt.target = snap[p].reservation.target
    /\ snap[p].receipt.target # NoName =>
          ReadBack(act[p], snap[p].receipt.target, snap[p].docs)

\* Mutation: the replay looks the draft up by its fields, not by its name.
ReplayByFields(p) ==
    LET a == act[p] IN
    /\ pc[p] = "execute"
    /\ ~Locked(RunOf[act[p]])
    /\ snap[p].reservation.status \in SuccessStates
    /\ \E n \in Names :
          /\ ReadBack(a, n, snap[p].docs)
          /\ answers' = answers \cup {<<a, n>>}
    /\ Finish(p)
    /\ UNCHANGED <<ledgerVars, erpVars, clockVars>>

\* The evidence a replay needs is complete.
Replayable(p) ==
    /\ snap[p].reservation.status \in SuccessStates
    /\ snap[p].action = "EXECUTED"
    /\ snap[p].reservation.target # NoName
    /\ snap[p].receipt.state \in SuccessStates

\* _replay_success: the recorded result, checked once more, without a write.
Replay(p) ==
    /\ pc[p] = "execute"
    /\ ~Locked(RunOf[act[p]])
    /\ Replayable(p)
    /\ ReceiptServed(p)
    /\ answers' = answers \cup {<<act[p], snap[p].receipt.target>>}
    /\ Finish(p)
    /\ UNCHANGED <<ledgerVars, erpVars, clockVars>>

-----------------------------------------------------------------------------
(* T2: the ERP write, in a transaction of its own. *)

\* _close_run: the state moves where the table allows it and the Run is
\* revoked; the caller says how a refused move ends.
CloseRun(p, target) ==
    run' = [run EXCEPT ![RunOf[act[p]]] = [state |-> target, live |-> FALSE]]

\* Mutation: the Run is written as it was loaded, without a timestamp check.
CloseStaleRun(p, target) == ValidateRunTransition(snap[p].run.state, target)

CloseRunPossible(p, target) ==
    RunFresh(p) /\ ValidateRunTransition(snap[p].run.state, target)

\* The reservation object in the executor's hands is the one T1 inserted.
OwnReservation(p) == reservation[act[p]] = StartedReservation

Draft(a, n) == [name |-> n, shape |-> ShapeOf[a], by |-> a, docstatus |-> 0]

FreeName(n) == \A d \in docs : d.name # n

\* Mutation: the Action is left APPROVED.
RecordWithoutAction(p, n) ==
    LET a == act[p] IN
    /\ ActionFresh(p)
    /\ OwnReservation(p)
    /\ receipt[a] = NoReceipt
    /\ CloseRunPossible(p, "SUCCEEDED")
    /\ receipt' = [receipt EXCEPT ![a] = [state |-> "SUCCEEDED", target |-> n]]
    /\ reservation' = [reservation EXCEPT
                          ![a] = [status |-> "SUCCEEDED", target |-> n, failure |-> FALSE]]
    /\ CloseRun(p, "SUCCEEDED")
    /\ Continue(p, "ok")
    /\ written' = [written EXCEPT ![p] = n]
    /\ UNCHANGED action

\* _receipt_input: the Receipt of an execution.
ReceiptInput(state, n) == [state |-> state, target |-> n]

\* Receipt, Action, Reservation and Run of a verified draft n.
RecordSuccess(p, n) ==
    LET a == act[p] IN
    /\ ActionFresh(p)
    /\ OwnReservation(p)
    /\ receipt[a] = NoReceipt
    /\ CloseRunPossible(p, "SUCCEEDED")
    /\ receipt' = [receipt EXCEPT ![a] = ReceiptInput("SUCCEEDED", n)]
    /\ action' = [action EXCEPT ![a] = "EXECUTED"]
    /\ reservation' = [reservation EXCEPT
                          ![a] = [status |-> "SUCCEEDED", target |-> n, failure |-> FALSE]]
    /\ CloseRun(p, "SUCCEEDED")
    /\ Continue(p, "ok")
    /\ written' = [written EXCEPT ![p] = n]

T2Begin(p) ==
    /\ pc[p] = "reserved"
    /\ OpenTransaction(p, act[p], "t2")

\* Mutation: T2 trusts the recheck made before the reservation.
ClearUnchecked(p) ==
    /\ pc[p] = "t2"
    /\ ~Locked(RunOf[act[p]])
    /\ pc' = [pc EXCEPT ![p] = "cleared"]
    /\ UNCHANGED <<ledgerVars, erpVars, clockVars, act, snap, fault, written, answers>>

\* T2 locks the Run and the Action and repeats the recheck.  The clocks are
\* read here and not again before the commit.
T2Recheck(p) ==
    /\ pc[p] = "t2"
    /\ ~Locked(RunOf[act[p]])
    /\ PreExecuteRecheck(p)
    /\ pc' = [pc EXCEPT ![p] = "cleared"]
    /\ UNCHANGED <<ledgerVars, erpVars, clockVars, act, snap, fault, written, answers>>

\* Insert, read-back, Receipt, Action, reservation, Run and commit.
T2Commit(p, n) ==
    /\ pc[p] = "cleared"
    /\ FreeName(n)
    /\ docs' = docs \cup {Draft(act[p], n)}
    /\ RecordSuccess(p, n)
    /\ UNCHANGED <<clockVars, fault, answers>>

\* Mutation: the executor itself commits after target.insert().
InsertAndCommit(p, n) ==
    /\ pc[p] = "cleared"
    /\ FreeName(n)
    /\ docs' = docs \cup {Draft(act[p], n)}
    /\ written' = [written EXCEPT ![p] = n]
    /\ pc' = [pc EXCEPT ![p] = "t2b"]
    /\ UNCHANGED <<ledgerVars, clockVars, act, snap, fault, answers>>

\* target.insert() with a controller that commits: the draft is durable and
\* the row locks are gone before the read-back.
T2Insert(p, n) ==
    /\ ControllerMayCommit
    /\ pc[p] = "cleared"
    /\ FreeName(n)
    /\ docs' = docs \cup {Draft(act[p], n)}
    /\ written' = [written EXCEPT ![p] = n]
    /\ pc' = [pc EXCEPT ![p] = "t2b"]
    /\ UNCHANGED <<ledgerVars, clockVars, act, snap, fault, answers>>

\* Mutation: the read-back takes any draft with the Action's fields.
RecordAnyMatch(p) ==
    /\ pc[p] = "t2b"
    /\ ~Locked(RunOf[act[p]])
    /\ \E n \in Names : ReadBack(act[p], n, docs) /\ RecordSuccess(p, n)
    /\ UNCHANGED <<erpVars, clockVars, fault, answers>>

T2Record(p) ==
    /\ pc[p] = "t2b"
    /\ ~Locked(RunOf[act[p]])
    /\ ReadBack(act[p], written[p], docs)
    /\ RecordSuccess(p, written[p])
    /\ UNCHANGED <<erpVars, clockVars, fault, answers>>

\* Any exception in T2, raised before or after its commit, rolls back what
\* is not committed; map_execution_error makes it certain or uncertain.
T2Fail(p, outcome) ==
    /\ pc[p] \in {"t2", "cleared", "t2b", "ok"}
    /\ Continue(p, "failed")
    /\ fault' = [fault EXCEPT ![p] = outcome]
    /\ written' = [written EXCEPT ![p] = NoName]
    /\ UNCHANGED <<ledgerVars, erpVars, clockVars, answers>>

Respond(p) ==
    /\ pc[p] = "ok"
    /\ answers' = answers \cup {<<act[p], written[p]>>}
    /\ Finish(p)
    /\ UNCHANGED <<ledgerVars, erpVars, clockVars>>

-----------------------------------------------------------------------------
(* T3: _finalize_failure, without row locks, swallowing its own errors. *)

T3Begin(p) ==
    /\ pc[p] = "failed"
    /\ OpenTransaction(p, act[p], "t3")

\* The reservation was STARTED when loaded and has not been saved since.
StillStarted(p) ==
    /\ snap[p].reservation.status = "STARTED"
    /\ reservation[act[p]] = snap[p].reservation

T3Commit(p) ==
    LET a == act[p]
        certain == fault[p] = "CERTAIN"
        outcome == IF certain THEN "FAILED" ELSE "RECONCILIATION_REQUIRED"
    IN
    /\ pc[p] = "t3"
    /\ ~Locked(RunOf[act[p]])
    /\ StillStarted(p)
    /\ receipt[a] = NoReceipt
    /\ CloseRunPossible(p, outcome)
    /\ IF certain /\ snap[p].action = "APPROVED"
       THEN ActionFresh(p) /\ action' = [action EXCEPT ![a] = "EXPIRED"]
       ELSE UNCHANGED action
    /\ receipt' = [receipt EXCEPT ![a] = ReceiptInput(outcome, NoName)]
    /\ reservation' = [reservation EXCEPT
                          ![a] = [status |-> outcome, target |-> NoName, failure |-> TRUE]]
    /\ CloseRun(p, outcome)
    /\ Finish(p)
    /\ UNCHANGED <<erpVars, clockVars, answers>>

-----------------------------------------------------------------------------
(* Reconciliation: read ERPNext, settle the ledger, write no document. *)

\* Mutation: no candidate means failure, with or without evidence.
ClassifyWithoutEvidence(candidates, matches, failureEvidence) ==
    CASE candidates = 1 /\ matches = 1 -> "RECONCILED_SUCCESS"
      [] candidates = 0 -> "RECONCILED_FAILURE"
      [] OTHER -> "MANUAL_INTERVENTION"

\* classify_reconciliation for a lease that is over.
ClassifyReconciliation(candidates, matches, failureEvidence) ==
    CASE candidates = 1 /\ matches = 1 -> "RECONCILED_SUCCESS"
      [] candidates = 0 /\ failureEvidence -> "RECONCILED_FAILURE"
      [] OTHER -> "MANUAL_INTERVENTION"

\* get_list(order_by name, limit): the first documents of S by name.
FirstByName(S, limit) ==
    {d \in S : Cardinality({e \in S : e.name < d.name}) < limit}

SameHeader(d, a) == HeaderOf[d.shape] = HeaderOf[ShapeOf[a]]

\* _reconciliation_candidates: the first rows of the item, of drafts or not;
\* of their documents the first drafts with the Action's header.
Candidates(p) ==
    FirstByName({d \in FirstByName(snap[p].docs, RowLimit) :
                    d.docstatus = 0 /\ SameHeader(d, act[p])}, DraftLimit)

\* The candidates that read back.
Matches(p) == {d \in Candidates(p) : MatchesPayload(d, act[p])}

\* A success is only kept for an Action that is still APPROVED.
Classification(p) ==
    LET c == ClassifyReconciliation(Cardinality(Candidates(p)), Cardinality(Matches(p)),
                                    snap[p].reservation.failure)
    IN IF c = "RECONCILED_SUCCESS" /\ snap[p].action # "APPROVED"
       THEN "MANUAL_INTERVENTION" ELSE c

\* Mutation: the early returns for settled reservations are missing.
ReconcilableAgain(p) ==
    /\ snap[p].reservation.status # "NONE"
    /\ reservation[act[p]] = snap[p].reservation
    /\ leaseOver[act[p]]

\* The reservation was loaded unsettled and nobody saved it since.
Reconcilable(p) ==
    /\ snap[p].reservation.status \in Unsettled
    /\ reservation[act[p]] = snap[p].reservation
    /\ leaseOver[act[p]]

\* Mutation: a Run that cannot be closed undoes the reconciliation.
CloseRunOrNothing(p, target) == CloseRunPossible(p, target) /\ CloseRun(p, target)

\* The end of reconcile: the Run is closed, or _set_run_state raises a fault
\* that is returned as a response after everything else was written.  A Run
\* already in the target state is saved without that translation, so a stale
\* one fails the request and nothing is kept.
CloseReconciledRun(p, target) ==
    \/ CloseRunPossible(p, target) /\ CloseRun(p, target)
    \/ ~CloseRunPossible(p, target) /\ snap[p].run.state # target /\ UNCHANGED run

\* _reconciliation_receipt: the one match is the target of a success.
ReconciliationReceipt(p, c) ==
    [state |-> c,
     target |-> IF c = "RECONCILED_SUCCESS" THEN (CHOOSE d \in Matches(p) : TRUE).name
                ELSE NoName]

\* The response is built after the commit and reads the target once more: a
\* success that no longer reads back is not answered.
Reconcile(p) ==
    LET a == act[p]
        c == Classification(p)
        found == c = "RECONCILED_SUCCESS"
        target == ReconciliationReceipt(p, c).target
    IN
    /\ pc[p] = "reconcile"
    /\ ~Locked(RunOf[act[p]])
    /\ Reconcilable(p)
    /\ receipt[a] = snap[p].receipt
    /\ snap[p].action = "APPROVED" => ActionFresh(p)
    /\ receipt' = [receipt EXCEPT ![a] = ReconciliationReceipt(p, c)]
    /\ action' = [action EXCEPT ![a] = CASE found -> "EXECUTED"
                                         [] ~found /\ snap[p].action = "APPROVED" -> "EXPIRED"
                                         [] OTHER -> @]
    /\ reservation' = [reservation EXCEPT
                          ![a] = [status |-> c, target |-> target, failure |-> TRUE]]
    /\ CloseReconciledRun(p, CASE found -> "SUCCEEDED"
                               [] c = "RECONCILED_FAILURE" -> "FAILED"
                               [] OTHER -> "RECONCILIATION_REQUIRED")
    /\ \/ found /\ answers' = answers \cup {<<a, target>>}
       \/ UNCHANGED answers
    /\ Finish(p)
    /\ UNCHANGED <<erpVars, clockVars>>

\* _reconciliation_response: the target is named as the Receipt has it.
ReconciliationResponse(p) ==
    IF snap[p].receipt.target = NoName THEN UNCHANGED answers
    ELSE answers' = answers \cup {<<act[p], snap[p].receipt.target>>}

\* A reconciliation that finds the reservation settled answers from the
\* Receipt and changes nothing.
AnswerSettled(p) ==
    /\ pc[p] = "reconcile"
    /\ ~Locked(RunOf[act[p]])
    /\ snap[p].reservation.status \in FinalStates
    /\ ReceiptServed(p)
    /\ ReconciliationResponse(p)
    /\ Finish(p)
    /\ UNCHANGED <<ledgerVars, erpVars, clockVars>>

-----------------------------------------------------------------------------
(* Cancellation, failures of the process, and the world outside. *)

\* cancel_p2p_run accepts every Run; a Run past its deadline ends EXPIRED.
CancelRun(p) ==
    LET r == RunOf[act[p]]
        target == IF runOver[r] THEN "EXPIRED" ELSE "CANCELLED"
    IN
    /\ pc[p] = "cancel"
    /\ ~Locked(RunOf[act[p]])
    /\ snap[p].run.live
    /\ ~snap[p].busy
    /\ CloseRunPossible(p, target)
    /\ CloseRun(p, target)
    /\ Finish(p)
    /\ UNCHANGED <<action, reservation, receipt, erpVars, clockVars, answers>>

\* revoke_run loads, checks and saves the Run in one short transaction.
RevokeRun(r) ==
    /\ ~Locked(r)
    /\ run[r].live
    /\ run' = [run EXCEPT ![r] = [state |-> @.state, live |-> FALSE]]
    /\ UNCHANGED <<action, reservation, receipt, erpVars, clockVars, requestVars, answers>>

\* The process dies, the client gets an error response, or T3 gives up: the
\* open transaction is rolled back, what is committed stays.
Abandon(p) ==
    /\ pc[p] # "idle"
    /\ Finish(p)
    /\ UNCHANGED <<ledgerVars, erpVars, clockVars, answers>>

LeaseExpires(a) ==
    /\ reservation[a].status \in Unsettled /\ ~leaseOver[a]
    /\ leaseOver' = [leaseOver EXCEPT ![a] = TRUE]
    /\ UNCHANGED <<ledgerVars, erpVars, expired, runOver, requestVars, answers>>

ActionDeadlinePasses(a) ==
    /\ action[a] \in {"AWAITING_APPROVAL", "APPROVED"} /\ ~expired[a]
    /\ expired' = [expired EXCEPT ![a] = TRUE]
    /\ UNCHANGED <<ledgerVars, erpVars, leaseOver, runOver, requestVars, answers>>

RunDeadlinePasses(r) ==
    /\ run[r].live /\ ~runOver[r]
    /\ runOver' = [runOver EXCEPT ![r] = TRUE]
    /\ UNCHANGED <<ledgerVars, erpVars, leaseOver, expired, requestVars, answers>>

\* People enter and submit documents in ERPNext meanwhile.
UserDraft(n, shape) ==
    /\ FreeName(n)
    /\ docs' = docs \cup {[name |-> n, shape |-> shape, by |-> Desk, docstatus |-> 0]}
    /\ UNCHANGED <<ledgerVars, clockVars, requestVars, answers>>

UserSubmit(d) ==
    /\ d.docstatus = 0
    /\ docs' = (docs \ {d}) \cup {[d EXCEPT !.docstatus = 1]}
    /\ UNCHANGED <<ledgerVars, clockVars, requestVars, answers>>

Execute(p) ==
    \/ T1Expire(p)
    \/ T1Reserve(p)
    \/ Replay(p)
    \/ T2Begin(p)
    \/ T2Recheck(p)
    \/ \E n \in Names : T2Commit(p, n)
    \/ \E n \in Names : T2Insert(p, n)
    \/ T2Record(p)
    \/ \E outcome \in {"CERTAIN", "UNCERTAIN"} : T2Fail(p, outcome)
    \/ Respond(p)
    \/ T3Begin(p)
    \/ T3Commit(p)

Request(p) ==
    \/ \E a \in Actions, handler \in Handlers : Begin(p, a, handler)
    \/ \E decision \in {"APPROVED", "DECLINED"} : Decide(p, decision)
    \/ Execute(p)
    \/ Reconcile(p)
    \/ AnswerSettled(p)
    \/ CancelRun(p)
    \/ Abandon(p)

World ==
    \/ \E a \in Actions : LeaseExpires(a) \/ ActionDeadlinePasses(a)
    \/ \E r \in Runs : RevokeRun(r) \/ RunDeadlinePasses(r)
    \/ \E n \in Names, shape \in ManualShapes : UserDraft(n, shape)
    \/ \E d \in docs : UserSubmit(d)

Next == World \/ \E p \in Requests : Request(p)

Spec == Init /\ [][Next]_vars

\* Every request ends (the worker timeout), every lease runs out, and an
\* operator repeats a reconciliation until one attempt is not cut short.
Fairness ==
    /\ \A p \in Requests : WF_vars(Abandon(p))
    /\ \A a \in Actions :
          /\ WF_vars(LeaseExpires(a))
          /\ SF_vars(\E p \in Requests : Begin(p, a, "reconcile"))
          /\ SF_vars(\E p \in Requests : act[p] = a /\ Reconcile(p))

FairSpec == Spec /\ Fairness

-----------------------------------------------------------------------------
(* Properties. *)

\* Every column, snapshot and request variable holds a value the code can put
\* there: the stored states are states of the tables, never decision words.
TypeOK ==
    /\ action \in [Actions -> ActionStates]
    /\ run \in [Runs -> RunRows]
    /\ reservation \in [Actions -> Reservations]
    /\ receipt \in [Actions -> Receipts]
    /\ docs \subseteq Docs
    /\ leaseOver \in [Actions -> BOOLEAN]
    /\ expired \in [Actions -> BOOLEAN]
    /\ runOver \in [Runs -> BOOLEAN]
    /\ pc \in [Requests -> Places]
    /\ act \in [Requests -> Actions \cup {NoAction}]
    /\ snap \in [Requests -> Snapshots]
    /\ fault \in [Requests -> {"NONE", "CERTAIN", "UNCERTAIN"}]
    /\ written \in [Requests -> TargetNames]
    /\ answers \subseteq Actions \X TargetNames

\* The drafts the executor created for Action a.
OwnDrafts(a) == {d \in docs : d.by = a}

\* One approved Action never creates two ERP documents, whatever retries,
\* crashes, lost responses, failed recoveries and controller commits happen
\* between the reservation, the write and the reconciliation.
AtMostOneWrite == \A a \in Actions : \A d, e \in OwnDrafts(a) : d = e

\* The three ledgers tell one story: the Action is EXECUTED exactly when its
\* reservation is a success, the Receipt carries the reservation's status and
\* target, and a target is named exactly for a success.  T2, T3 and
\* reconciliation each write the rows separately, T3 without any lock and
\* reconciliation possibly cut short by a refused Run transition.
LedgersAgree ==
    \A a \in Actions :
        /\ action[a] = "EXECUTED" <=> reservation[a].status \in SuccessStates
        /\ receipt[a] = IF reservation[a].status \in {"NONE", "STARTED"} THEN NoReceipt
                        ELSE [state |-> reservation[a].status, target |-> reservation[a].target]
        /\ reservation[a].target # NoName <=> reservation[a].status \in SuccessStates

\* A Receipt that says SUCCEEDED names a draft this very Action created, with
\* the Action's payload; the draft may have been submitted since.
SuccessNamesOwnDraft ==
    \A a \in Actions :
        receipt[a].state = "SUCCEEDED" =>
            \E d \in OwnDrafts(a) : d.name = receipt[a].target /\ d.shape = ShapeOf[a]

\* With controllers that leave the commit to the executor, no document is
\* ever left behind by a failed, uncertain or abandoned execution.
NoOrphanDraft ==
    \A a \in Actions : OwnDrafts(a) # {} => reservation[a].status = "SUCCEEDED"

\* The documents of the Action's item fit into one search.
WithinOneSearch(a) == Cardinality({d \in docs : SameItem(d, a)}) <= RowLimit

\* A reconciliation that concludes "nothing was written" is right about every
\* draft as long as its search can see every document of the item: the
\* evidence of failure it needs is only recorded once the writer can no longer
\* insert, even when its lease is over and it is still running.  Beyond the
\* limit the code does conclude failure with its own draft in ERPNext.
ReconciledFailureIsReal ==
    \A a \in Actions :
        reservation[a].status = "RECONCILED_FAILURE" /\ WithinOneSearch(a) =>
            \A d \in OwnDrafts(a) : d.docstatus # 0

\* cancel_p2p_run leaves no side effect behind: a Run it closed has no
\* reservation that is started or awaiting reconciliation, although the list
\* of active reservations is read from a snapshot older than the Run lock.
CancelledRunIsQuiet ==
    \A r \in Runs : run[r].state \in {"CANCELLED", "EXPIRED"} => ~Busy(r)

\* Every success answer for an Action, first response or replay, names the
\* same document, and that document exists with the Action's payload.
AnswersAgree ==
    \A x \in answers :
        /\ \A y \in answers : x[1] = y[1] => x = y
        /\ \E d \in docs : d.name = x[2] /\ d.shape = ShapeOf[x[1]]

\* The Action's deadline has passed and no T2 is past the gates with it.
TooLate(a) == expired[a] /\ \A p \in Requests : act[p] = a => pc[p] # "cleared"

\* A write happens only under an authority that holds at the commit, not
\* merely in the snapshot the gates were evaluated on: the Action is approved,
\* its Run is neither revoked nor closed, and the reservation is still the
\* executor's.  A deadline that passes before T2 has its locks stops the write
\* for good; one that passes while T2 holds them does not.
WriteOnlyWhenAuthorised ==
    [][\A a \in Actions :
          /\ OwnDrafts(a)' # {} /\ OwnDrafts(a) = {} =>
                /\ action[a] = "APPROVED" /\ ~TooLate(a)
                /\ run[RunOf[a]] = [state |-> "EXECUTING", live |-> TRUE]
                /\ reservation[a].status = "STARTED"
          /\ TooLate(a) => TooLate(a)']_vars

\* A settled reservation, its Receipt and its Action never change again: a
\* late T2, a late _finalize_failure and a second reconciliation included.
SettledIsFrozen ==
    [][\A a \in Actions :
          reservation[a].status \in FinalStates =>
              UNCHANGED <<reservation[a], receipt[a], action[a]>>]_vars

\* A Run that was revoked or closed never becomes active again, and a
\* terminal Run state is never overwritten.
ClosedRunStaysClosed ==
    [][\A r \in Runs :
          /\ ~run[r].live => ~run'[r].live
          /\ RunTransitions[run[r].state] = {} => run'[r].state = run[r].state]_vars

\* Every reservation is eventually settled, wherever the process that made it
\* died and whoever closed its Run in the meantime.
EverySettles ==
    \A a \in Actions :
        reservation[a].status = "STARTED" ~> reservation[a].status \in FinalStates

\* The abstract promise, read off the concrete ledgers.
PromiseOf(a) ==
    CASE action[a] = "AWAITING_APPROVAL" -> "PROPOSED"
      [] action[a] = "APPROVED" -> "APPROVED"
      [] action[a] = "EXECUTED" /\ reservation[a].status = "SUCCEEDED" -> "WRITTEN"
      [] action[a] = "EXECUTED" /\ reservation[a].status # "SUCCEEDED" -> "ATTRIBUTED"
      [] OTHER -> "VOID"

Promised ==
    INSTANCE GovernedWrite WITH promise <- [a \in Actions |-> PromiseOf(a)],
                                wrote <- {a \in Actions : OwnDrafts(a) # {}}

\* The executor implements GovernedWrite: creating the document and spending
\* the approval are one step, and an Action that was given up has no document.
ImplementsGovernedWrite == Promised!PSpec

=============================================================================
