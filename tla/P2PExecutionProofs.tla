------------------------- MODULE P2PExecutionProofs -------------------------
(***************************************************************************)
(* Proofs about P2PExecution for any number of Actions, Runs, documents    *)
(* and concurrent requests, with or without controllers that commit and    *)
(* people at the desk.                                                     *)
(***************************************************************************)
EXTENDS P2PExecution, FiniteSetTheorems, TLAPS

\* The places of an execution after T1 has committed.
Executing == {"reserved", "t2", "t2b", "failed", "t3"}

\* The places from which a request may still change the ERP.
Writing == {"reserved", "t2"}

\* The places at which a request has a snapshot.
Loaded == Handlers \cup {"t2", "t2b", "t3"}

\* A request under way is about an Action, holds locks only while it executes,
\* and after a controller's commit holds the document that was written.
RequestOK ==
    /\ held \in [Requests -> SUBSET (DocNames \X Nat)]
    /\ \A p \in Requests : pc[p] # "idle" => act[p] \in Actions
    /\ \A p \in Requests : pc[p] \notin Executing => held[p] = {}
    /\ \A p \in Requests : pc[p] = "t2b" => target[p] \in DocNames

TypeInv == TypeOK /\ RequestOK

\* What a success claims of the document n stays true of it: documents only
\* move from draft to submitted to cancelled.
Reached(a, n) ==
    CASE Creates(a) -> /\ erp[n].status # "ABSENT"
                       /\ erp[n].source = SourceOf[a] /\ erp[n].rows = ItemsOf[a]
      [] Submits(a) -> erp[n].status \in {"SUBMITTED", "CANCELLED"}
      [] OTHER -> erp[n].status = "CANCELLED"

\* The target reconciliation would read for a reservation row.
TargetOf(a, row) ==
    CASE row.target # NoName -> row.target
      [] row.target = NoName /\ TypeOf[a] \in SourceActions -> SourceOf[a]
      [] OTHER -> NoName

\* An Action that was reserved had been approved, and is closed when its
\* reservation is settled.
ReservedWasApproved ==
    \A a \in Actions :
        /\ reservation[a].status # "NONE" => action[a] \in {"APPROVED", "EXECUTED", "EXPIRED"}
        /\ reservation[a].status \in FinalStates => action[a] \in {"EXECUTED", "EXPIRED"}

\* What a transaction read is no newer than the tables: closed Actions stay
\* closed, and a target that was read back is still what it was.
SnapshotsLast ==
    \A p \in Requests : pc[p] \in Loaded =>
        /\ snap[p].action \in {"EXECUTED", "EXPIRED"} => action[act[p]] = snap[p].action
        /\ snap[p].reservation.status # "NONE" =>
              snap[p].action \in {"APPROVED", "EXECUTED", "EXPIRED"}
        /\ snap[p].readBack =>
              /\ TargetOf(act[p], snap[p].reservation) # NoName
              /\ Reached(act[p], TargetOf(act[p], snap[p].reservation))

\* A controller that committed did what the Action says.
CommittedIsReal ==
    \A p \in Requests : pc[p] = "t2b" => Reached(act[p], target[p])

\* A Receipt of a success names a document that is what the Action wanted.
SuccessIsReached ==
    \A a \in Actions :
        receipt[a].state \in SuccessStates =>
            receipt[a].target # NoName /\ Reached(a, receipt[a].target)

\* Why no Action takes effect twice: whoever may still write holds the only
\* claim to a reserved Action without effect.
SingleWriter ==
    /\ \A p \in Requests : pc[p] \in Executing => reservation[act[p]].status # "NONE"
    /\ \A p \in Requests : pc[p] \in Writing => applied[act[p]] = 0
    /\ \A p, q \in Requests : pc[p] \in Writing /\ pc[q] \in Writing /\ act[p] = act[q] => p = q
    /\ \A a \in Actions : reservation[a].status = "NONE" => applied[a] = 0

\* Row locks are taken in ascending order.
LocksAscend ==
    \A p \in Requests : \A l \in held[p] : \A m \in Wanted(p) : l[2] < m[2]

\* A later row of the same Run: states only move on, a revoked Run stays
\* revoked, goals are only confirmed anew.
RunLater(old, new) ==
    /\ ~old.live => ~new.live
    /\ old.goal <= new.goal
    /\ old.state \notin {"PROPOSED", "AWAITING_APPROVAL"} =>
          new.state \notin {"PROPOSED", "AWAITING_APPROVAL"}
    /\ old.state \in {"RECONCILIATION_REQUIRED", "CANCELLED", "EXPIRED"} =>
          new.state \in {"RECONCILIATION_REQUIRED", "CANCELLED", "EXPIRED"}

\* Snapshots of a Run are no newer than the Run, and an execution has moved
\* its Run to EXECUTING or beyond; what a goal would expire is of the Run.
RunsMoveOn ==
    /\ \A p \in Requests : pc[p] \in Loaded =>
          /\ RunLater(snap[p].run, run[RunOf[act[p]]])
          /\ snap[p].reservation.status # "NONE" =>
                snap[p].run.state \notin {"PROPOSED", "AWAITING_APPROVAL"}
          /\ \A x \in snap[p].pending : RunOf[x[1]] = RunOf[act[p]]
    /\ \A a \in Actions : reservation[a].status # "NONE" =>
          run[RunOf[a]].state \notin {"PROPOSED", "AWAITING_APPROVAL"}

\* The only thing that takes an approval away from a started execution is
\* another goal; an uncertain result has closed its Action.
ApprovalsLast ==
    \A a \in Actions :
        /\ reservation[a].status = "STARTED" /\ action[a] # "APPROVED" => run[RunOf[a]].goal > 0
        /\ reservation[a].status = "RECONCILIATION_REQUIRED" => action[a] # "APPROVED"

\* Until another goal is confirmed, an uncertain result freezes the Run.
UncertainFreezes ==
    \A a \in Actions :
        reservation[a].status \in {"RECONCILIATION_REQUIRED", "MANUAL_INTERVENTION"} =>
            LET row == run[RunOf[a]] IN ~(row.live /\ row.state = "EXECUTING" /\ row.goal = 0)

-----------------------------------------------------------------------------
(* Types. *)

LEMMA InitialValues ==
    /\ NoReservation \in Reservations
    /\ StartedReservation \in Reservations
    /\ NoReceipt \in Receipts
    /\ NoSnapshot \in Snapshots
  <1>1. NoReservation \in Reservations /\ StartedReservation \in Reservations /\ NoReceipt \in Receipts
    BY DEF NoReservation, StartedReservation, NoReceipt, Reservations, Receipts, TargetNames, Unsettled
  <1>2. [state |-> "PROPOSED", live |-> FALSE, goal |-> 0] \in RunRows
    BY P2PConstants DEF RunRows, RunStates
  <1> QED
    BY <1>1, <1>2 DEF NoSnapshot, Snapshots, ActionStates

\* The stage tables know every action type.
LEMMA TypesOfActions ==
    ASSUME NEW a \in Actions
    PROVE  /\ TypeOf[a] \in CreateActions \cup SubmitActions \cup CancelActions
           /\ TargetDoctypes[TypeOf[a]] \in Doctypes
  <1>1. TypeOf[a] \in ActionTypes
    BY P2PConstants
  <1>2. ActionTypes = CreateActions \cup SubmitActions \cup CancelActions
    BY DEF ActionTypes, ActionOrder, CreateActions, SubmitActions, CancelActions
  <1>3. \A t \in CreateActions \cup SubmitActions \cup CancelActions : TargetDoctypes[t] \in Doctypes
    BY DEF TargetDoctypes, Doctypes, CreateActions, SubmitActions, CancelActions
  <1> QED
    BY <1>1, <1>2, <1>3

LEMMA LockNamesType ==
    ASSUME NEW a \in Actions
    PROVE  LockNames(a) \subseteq DocNames \X Nat
  BY P2PConstants DEF LockNames, RowsWanted

LEMMA KnownTargetType ==
    ASSUME TypeOK, NEW a \in Actions
    PROVE  KnownTarget(a) \in TargetNames
  <1>1. reservation[a].target \in TargetNames /\ SourceOf[a] \in TargetNames
    BY P2PConstants DEF TypeOK, Reservations, TargetNames
  <1> QED
    BY <1>1 DEF KnownTarget, TargetNames

\* A snapshot of well-typed tables is well typed.
LEMMA SnapshotType ==
    ASSUME TypeOK, NEW a \in Actions
    PROVE  Snapshot(a) \in Snapshots
  <1>1. action[a] \in ActionStates /\ reservation[a] \in Reservations /\ receipt[a] \in Receipts
    BY DEF TypeOK
  <1>2. run[RunOf[a]] \in RunRows
    BY P2PConstants DEF TypeOK
  <1>3. DependenciesConfirmed(a) \in BOOLEAN /\ DeterministicGate(a) \in BOOLEAN /\ Busy(RunOf[a]) \in BOOLEAN
    BY DEF DependenciesConfirmed, DeterministicGate, Busy
  <1>4. (KnownTarget(a) # NoName /\ ReadBack(a, KnownTarget(a))) \in BOOLEAN
    OBVIOUS
  <1> QED
    BY <1>1, <1>2, <1>3, <1>4 DEF Snapshot, Snapshots

\* A request that ends leaves the request variables well typed.
LEMMA FinishType ==
    ASSUME TypeInv, NEW p \in Requests, Finish(p)
    PROVE  /\ pc' \in [Requests -> Places]
           /\ act' \in [Requests -> Actions \cup {NoAction}]
           /\ snap' \in [Requests -> Snapshots]
           /\ fault' \in [Requests -> {"NONE", "FAILED", "UNCERTAIN"}]
           /\ target' \in [Requests -> TargetNames]
           /\ \A q \in Requests : held'[q] # {} => held'[q] \subseteq LockNames(act'[q])
           /\ RequestOK'
  <1>1. NoSnapshot \in Snapshots
    BY InitialValues
  <1>2. /\ pc' \in [Requests -> Places]
        /\ act' \in [Requests -> Actions \cup {NoAction}]
        /\ snap' \in [Requests -> Snapshots]
        /\ fault' \in [Requests -> {"NONE", "FAILED", "UNCERTAIN"}]
        /\ target' \in [Requests -> TargetNames]
    BY <1>1 DEF TypeInv, TypeOK, Finish, Places, TargetNames
  <1>3. \A q \in Requests : held'[q] # {} => held'[q] \subseteq LockNames(act'[q])
    BY DEF TypeInv, TypeOK, RequestOK, Finish
  <1>4. RequestOK'
    BY DEF TypeInv, TypeOK, RequestOK, Finish, Executing
  <1> QED
    BY <1>2, <1>3, <1>4

\* So does a transaction that opens at a place where the request may hold what
\* it holds.
LEMMA OpenTransactionType ==
    ASSUME TypeInv, NEW p \in Requests, NEW a \in Actions, NEW place \in Places,
           place # "t2b", OpenTransaction(p, a, place), UNCHANGED <<ledgerVars, erpVars, fault, held>>,
           \E n \in TargetNames : target' = [target EXCEPT ![p] = n],
           (a = act[p] /\ place \in Executing) \/ held[p] = {}
    PROVE  TypeInv'
  <1> USE DEF ledgerVars, erpVars
  <1>1. Snapshot(a) \in Snapshots
    BY SnapshotType DEF TypeInv
  <1>2. /\ pc' \in [Requests -> Places] /\ act' \in [Requests -> Actions \cup {NoAction}]
        /\ snap' \in [Requests -> Snapshots] /\ target' \in [Requests -> TargetNames]
        /\ stale' \subseteq Requests
    BY <1>1 DEF TypeInv, TypeOK, OpenTransaction
  <1>3. \A q \in Requests : held'[q] # {} => held'[q] \subseteq LockNames(act'[q])
    BY DEF TypeInv, TypeOK, RequestOK, OpenTransaction
  <1>4. TypeOK'
    BY <1>2, <1>3 DEF TypeInv, TypeOK
  <1>5. RequestOK'
    BY DEF TypeInv, TypeOK, RequestOK, OpenTransaction
  <1> QED
    BY <1>4, <1>5 DEF TypeInv

LEMMA SyncPlanStepsType ==
    ASSUME stale \subseteq Requests, NEW r, NEW except, SyncPlanSteps(r, except)
    PROVE  stale' \subseteq Requests
  BY DEF SyncPlanSteps

\* The native controller leaves documents.
LEMMA ControllerWriteType ==
    ASSUME TypeOK, NEW a \in Actions, NEW n \in DocNames, ControllerWrite(a, n)
    PROVE  erp' \in [DocNames -> Docs] /\ applied' \in [Actions -> Nat]
  <1>1. erp[n] \in Docs
    BY DEF TypeOK
  <1>2. [kind |-> TargetDoctypes[TypeOf[a]], source |-> SourceOf[a],
         rows |-> ItemsOf[a], status |-> "DRAFT"] \in Docs
    BY TypesOfActions, P2PConstants DEF Docs, TargetNames
  <1>3. [erp[n] EXCEPT !.status = "SUBMITTED"] \in Docs /\ [erp[n] EXCEPT !.status = "CANCELLED"] \in Docs
    BY <1>1 DEF Docs
  <1>4. erp' \in [DocNames -> Docs]
    BY <1>2, <1>3 DEF TypeOK, ControllerWrite
  <1>5. applied' \in [Actions -> Nat]
    BY DEF TypeOK, ControllerWrite
  <1> QED
    BY <1>4, <1>5

\* A Run row is moved to another state.
LEMMA FreezeRunType ==
    ASSUME TypeOK, NEW p \in Requests, NEW uncertain, FreezeRun(p, uncertain)
    PROVE  run' \in [Runs -> RunRows]
  <1>1. \A r \in Runs : [run[r] EXCEPT !.state = "RECONCILIATION_REQUIRED"] \in RunRows
    BY DEF TypeOK, RunRows, RunStates
  <1>2. CASE UNCHANGED run
    BY <1>2 DEF TypeOK
  <1>3. CASE run' = [run EXCEPT ![RunOf[act[p]]].state = "RECONCILIATION_REQUIRED"]
    BY <1>1, <1>3 DEF TypeOK
  <1> QED
    BY <1>2, <1>3 DEF FreezeRun

LEMMA CloseActionType ==
    ASSUME TypeOK, NEW p \in Requests, NEW state \in ActionStates, CloseAction(p, state)
    PROVE  action' \in [Actions -> ActionStates]
  BY DEF TypeOK, CloseAction

\* The end of a successful execution writes rows of the right type.
LEMMA RecordSuccessType ==
    ASSUME TypeInv, NEW p \in Requests, NEW n \in DocNames, RecordSuccess(p, n), Finish(p),
           erp' \in [DocNames -> Docs], applied' \in [Actions -> Nat]
    PROVE  TypeInv'
  <1>1. action' \in [Actions -> ActionStates]
    BY DEF TypeInv, TypeOK, RecordSuccess, ActionStates
  <1>2. [status |-> "SUCCEEDED", target |-> n] \in Reservations
    BY DEF Reservations, FinalStates, SuccessStates, TargetNames
  <1>3. [state |-> "SUCCEEDED", target |-> n] \in Receipts
    BY DEF Receipts, FinalStates, SuccessStates, TargetNames
  <1>4. reservation' \in [Actions -> Reservations] /\ receipt' \in [Actions -> Receipts]
    BY <1>2, <1>3 DEF TypeInv, TypeOK, RecordSuccess, PersistReceipt
  <1>5. stale' \subseteq Requests /\ proposed' = proposed /\ run' = run
    BY SyncPlanStepsType DEF TypeInv, TypeOK, RecordSuccess
  <1> QED
    BY <1>1, <1>4, <1>5, FinishType DEF TypeInv, TypeOK

\* Every step of an execution keeps the types.
LEMMA ExecuteType ==
    ASSUME TypeInv, NEW p \in Requests, pc[p] # "idle", Execute(p)
    PROVE  TypeInv'
  <1> USE DEF ledgerVars, erpVars, requestVars
  <1>0. act[p] \in Actions
    BY DEF TypeInv, RequestOK
  <1>1. CASE T1Reserve(p)
    <2>1. reservation' \in [Actions -> Reservations]
      BY <1>1, InitialValues DEF TypeInv, TypeOK, T1Reserve
    <2>2. run' \in [Runs -> RunRows]
      <3>1. \A r \in Runs : [run[r] EXCEPT !.state = "EXECUTING"] \in RunRows
        BY DEF TypeInv, TypeOK, RunRows, RunStates
      <3>2. UNCHANGED run \/ run' = [run EXCEPT ![RunOf[act[p]]].state = "EXECUTING"]
        BY <1>1 DEF T1Reserve, MoveRunToExecuting
      <3>3. run \in [Runs -> RunRows]
        BY DEF TypeInv, TypeOK
      <3> QED
        BY <3>1, <3>2, <3>3
    <2>3. pc' \in [Requests -> Places] /\ snap' \in [Requests -> Snapshots] /\ stale' \subseteq Requests
      BY <1>1, InitialValues DEF TypeInv, TypeOK, T1Reserve, Places
    <2>4. TypeOK'
      BY <1>1, <2>1, <2>2, <2>3 DEF TypeInv, TypeOK, T1Reserve
    <2>5. RequestOK'
      BY <1>1, <1>0 DEF TypeInv, TypeOK, RequestOK, T1Reserve, Executing
    <2> QED
      BY <2>4, <2>5 DEF TypeInv
  <1>2. CASE Replay(p)
    BY <1>2, FinishType DEF TypeInv, TypeOK, Replay
  <1>3. CASE \E l \in LockNames(act[p]) : AcquireLock(p, l)
    <2>1. PICK l \in LockNames(act[p]) : AcquireLock(p, l)
      BY <1>3
    <2>2. l \in DocNames \X Nat
      BY <1>0, LockNamesType
    <2>3. held' = [held EXCEPT ![p] = held[p] \cup {l}] /\ pc[p] = "reserved"
      BY <2>1 DEF AcquireLock
    <2>4. held' \in [Requests -> SUBSET (DocNames \X Nat)]
      BY <2>2, <2>3 DEF TypeInv, RequestOK
    <2>5. \A q \in Requests : held'[q] # {} => held'[q] \subseteq LockNames(act'[q])
      <3>1. act' = act
        BY <2>1 DEF AcquireLock
      <3>2. held[p] \subseteq LockNames(act[p])
        BY DEF TypeInv, TypeOK
      <3> QED
        BY <2>3, <3>1, <3>2 DEF TypeInv, TypeOK, RequestOK
    <2>6. TypeOK'
      BY <2>1, <2>5 DEF TypeInv, TypeOK, AcquireLock
    <2>7. RequestOK'
      BY <2>1, <2>3, <2>4 DEF TypeInv, RequestOK, AcquireLock, Executing
    <2> QED
      BY <2>6, <2>7 DEF TypeInv
  <1>4. CASE T2Begin(p)
    <2>1. target' = [target EXCEPT ![p] = target[p]] /\ target[p] \in TargetNames
      BY <1>4 DEF TypeInv, TypeOK, T2Begin
    <2>2. OpenTransaction(p, act[p], "t2") /\ UNCHANGED <<ledgerVars, erpVars, fault, held>>
      BY <1>4 DEF T2Begin
    <2>3. "t2" \in Places /\ "t2" \in Executing
      BY DEF Places, Executing
    <2> QED
      BY <1>0, <2>1, <2>2, <2>3, OpenTransactionType
  <1>5. CASE \E n \in DocNames : T2Commit(p, n)
    <2>1. PICK n \in DocNames : T2Commit(p, n)
      BY <1>5
    <2> QED
      BY <1>0, <2>1, ControllerWriteType, RecordSuccessType DEF TypeInv, T2Commit
  <1>6. CASE \E n \in DocNames : T2Write(p, n)
    <2>1. PICK n \in DocNames : T2Write(p, n)
      BY <1>6
    <2>2. erp' \in [DocNames -> Docs] /\ applied' \in [Actions -> Nat]
      BY <1>0, <2>1, ControllerWriteType DEF TypeInv, T2Write
    <2>3. snap' \in [Requests -> Snapshots]
      BY <1>0, <2>1, SnapshotType DEF TypeInv, TypeOK, T2Write
    <2>4. TypeOK'
      BY <2>1, <2>2, <2>3 DEF TypeInv, TypeOK, T2Write, Places, TargetNames
    <2>5. RequestOK'
      BY <1>0, <2>1 DEF TypeInv, TypeOK, RequestOK, T2Write, Executing
    <2> QED
      BY <2>4, <2>5 DEF TypeInv
  <1>7. CASE T2Record(p)
    <2>1. target[p] \in DocNames
      BY <1>7 DEF TypeInv, RequestOK, T2Record
    <2>2. RecordSuccess(p, target[p]) /\ Finish(p) /\ erp' = erp /\ applied' = applied
      BY <1>7 DEF T2Record
    <2> QED
      BY <2>1, <2>2, RecordSuccessType DEF TypeInv, TypeOK
  <1>8. CASE \E outcome \in {"FAILED", "UNCERTAIN"}, n \in TargetNames : T2Fail(p, outcome, n)
    <2>1. PICK outcome \in {"FAILED", "UNCERTAIN"}, n \in TargetNames : T2Fail(p, outcome, n)
      BY <1>8
    <2>2. \E L \in SUBSET held[p] : held' = [held EXCEPT ![p] = L]
      BY <2>1 DEF T2Fail
    <2>3. pc' = [pc EXCEPT ![p] = "failed"] /\ act' = act /\ target' = [target EXCEPT ![p] = n]
      BY <2>1 DEF T2Fail
    <2>4. snap' \in [Requests -> Snapshots] /\ stale' \subseteq Requests
          /\ fault' \in [Requests -> {"NONE", "FAILED", "UNCERTAIN"}]
      BY <2>1, InitialValues DEF TypeInv, TypeOK, T2Fail
    <2>5. \A q \in Requests : held'[q] # {} => held'[q] \subseteq LockNames(act'[q])
      BY <2>2, <2>3 DEF TypeInv, TypeOK, RequestOK
    <2>6. TypeOK'
      <3>1. pc' \in [Requests -> Places] /\ target' \in [Requests -> TargetNames]
        BY <2>3 DEF TypeInv, TypeOK, Places
      <3>2. UNCHANGED <<action, proposed, run, reservation, receipt, erp, applied>>
        BY <2>1 DEF T2Fail
      <3> QED
        BY <3>1, <3>2, <2>3, <2>4, <2>5 DEF TypeInv, TypeOK
    <2>7. RequestOK'
      BY <1>0, <2>2, <2>3 DEF TypeInv, TypeOK, RequestOK, Executing
    <2> QED
      BY <2>6, <2>7 DEF TypeInv
  <1>9. CASE T3Begin(p)
    <2>1. \E n \in TargetNames : target' = [target EXCEPT ![p] = n]
      BY <1>9 DEF TypeInv, TypeOK, T3Begin, TargetNames
    <2>2. OpenTransaction(p, act[p], "t3") /\ UNCHANGED <<ledgerVars, erpVars, fault, held>>
      BY <1>9 DEF T3Begin
    <2>3. "t3" \in Places /\ "t3" \in Executing
      BY DEF Places, Executing
    <2> QED
      BY <1>0, <2>1, <2>2, <2>3, OpenTransactionType
  <1>10. CASE T3Commit(p)
    <2>1. /\ PersistReceipt(act[p], FailureState(p), target[p])
          /\ reservation' = [reservation EXCEPT ![act[p]] =
                                [status |-> FailureState(p), target |-> target[p]]]
          /\ \E uncertain \in BOOLEAN : FreezeRun(p, uncertain)
          /\ CloseAction(p, "EXPIRED")
          /\ SyncPlanSteps(RunOf[act[p]], p)
          /\ Finish(p)
          /\ UNCHANGED <<proposed, erpVars>>
      BY <1>10 DEF T3Commit
    <2>2. FailureState(p) \in {"RECONCILIATION_REQUIRED", "FAILED"} /\ target[p] \in TargetNames
      BY DEF FailureState, TypeInv, TypeOK
    <2>3. receipt' \in [Actions -> Receipts] /\ reservation' \in [Actions -> Reservations]
      BY <2>1, <2>2 DEF TypeInv, TypeOK, PersistReceipt, Receipts, Reservations, Unsettled, FinalStates
    <2>4. run' \in [Runs -> RunRows]
      BY <2>1, FreezeRunType DEF TypeInv
    <2>5. action' \in [Actions -> ActionStates]
      BY <2>1, CloseActionType DEF TypeInv, ActionStates
    <2>6. stale' \subseteq Requests
      BY <2>1, SyncPlanStepsType DEF TypeInv, TypeOK
    <2> QED
      BY <2>1, <2>3, <2>4, <2>5, <2>6, FinishType DEF TypeInv, TypeOK
  <1> QED
    BY <1>1, <1>2, <1>3, <1>4, <1>5, <1>6, <1>7, <1>8, <1>9, <1>10 DEF Execute

\* A reconciliation, whatever it fails to save, writes rows of the right type.
LEMMA VerdictType ==
    ASSUME TypeOK, NEW a \in Actions, NEW verified \in BOOLEAN
    PROVE  /\ Verdict(verified, a) \in Reservations
           /\ ReceiptOf(Verdict(verified, a)) \in Receipts
  <1>1. KnownTarget(a) \in TargetNames /\ reservation[a].target \in TargetNames
    BY KnownTargetType DEF TypeOK, Reservations
  <1>2. Verdict(verified, a) \in [status : {"RECONCILED_SUCCESS", "MANUAL_INTERVENTION"}, target : TargetNames]
    BY <1>1 DEF Verdict
  <1> QED
    BY <1>2 DEF Reservations, Receipts, ReceiptOf, FinalStates, SuccessStates, TargetNames

LEMMA ReconcileType ==
    ASSUME TypeInv, NEW p \in Requests, NEW verified \in BOOLEAN,
           Reconcile(p, verified) \/ ReconcileActionConflict(p, verified) \/ ReconcileRunConflict(p)
    PROVE  TypeInv'
  <1> USE DEF ledgerVars, erpVars, requestVars
  <1>1. act[p] \in Actions
    BY DEF TypeInv, RequestOK, Reconcile, ReconcileActionConflict, ReconcileRunConflict, ReconcileEntered
  <1>2. \A v \in BOOLEAN : /\ Verdict(v, act[p]) \in Reservations
                           /\ ReceiptOf(Verdict(v, act[p])) \in Receipts
    BY <1>1, VerdictType DEF TypeInv
  <1>3. Finish(p) /\ UNCHANGED <<proposed, erpVars>>
    BY DEF Reconcile, ReconcileActionConflict, ReconcileRunConflict
  <1>4. receipt' \in [Actions -> Receipts]
    BY <1>2 DEF TypeInv, TypeOK, Reconcile, ReconcileActionConflict, ReconcileRunConflict
  <1>5. reservation' \in [Actions -> Reservations]
    <2>1. CASE reservation' = [reservation EXCEPT ![act[p]].status = "RECONCILIATION_REQUIRED"]
      <3>1. [reservation[act[p]] EXCEPT !.status = "RECONCILIATION_REQUIRED"] \in Reservations
        BY <1>1 DEF TypeInv, TypeOK, Reservations, Unsettled
      <3> QED
        BY <2>1, <3>1, <1>1 DEF TypeInv, TypeOK
    <2>2. CASE \E v \in BOOLEAN : reservation' = [reservation EXCEPT ![act[p]] = Verdict(v, act[p])]
      BY <2>2, <1>2 DEF TypeInv, TypeOK
    <2> QED
      BY <2>1, <2>2 DEF Reconcile, ReconcileActionConflict, ReconcileRunConflict
  <1>6. action' \in [Actions -> ActionStates]
    <2>1. UNCHANGED action \/ CloseAction(p, "EXECUTED") \/ CloseAction(p, "EXPIRED")
      BY DEF Reconcile, ReconcileActionConflict, ReconcileRunConflict
    <2> QED
      BY <2>1, CloseActionType DEF TypeInv, TypeOK, ActionStates
  <1>7. run' \in [Runs -> RunRows]
    <2>1. UNCHANGED run \/ FreezeRun(p, ~verified)
      BY DEF Reconcile, ReconcileActionConflict, ReconcileRunConflict
    <2> QED
      BY <2>1, FreezeRunType DEF TypeInv, TypeOK
  <1>8. stale' \subseteq Requests
    BY SyncPlanStepsType DEF TypeInv, TypeOK, Reconcile, ReconcileActionConflict, ReconcileRunConflict
  <1> QED
    BY <1>3, <1>4, <1>5, <1>6, <1>7, <1>8, FinishType DEF TypeInv, TypeOK

\* Every step keeps the types.
LEMMA TypeStep ==
    ASSUME TypeInv, [Next]_vars
    PROVE  TypeInv'
  <1> USE DEF ledgerVars, erpVars, requestVars
  <1>1. ASSUME NEW a \in Actions, Propose(a)
        PROVE  TypeInv'
    <2>1. action' \in [Actions -> ActionStates]
      BY <1>1 DEF TypeInv, TypeOK, Propose, ActionStates
    <2>2. proposed' \in Seq(Actions) /\ stale' \subseteq Requests
      BY <1>1, SyncPlanStepsType DEF TypeInv, TypeOK, Propose
    <2> QED
      BY <1>1, <2>1, <2>2 DEF TypeInv, TypeOK, RequestOK, Propose
  <1>2. ASSUME NEW a \in Actions, NEW decision \in {"APPROVED", "DECLINED"}, Decide(a, decision)
        PROVE  TypeInv'
    <2>1. action' \in [Actions -> ActionStates] /\ stale' \subseteq Requests
      BY <1>2, SyncPlanStepsType DEF TypeInv, TypeOK, Decide, ActionStates
    <2> QED
      BY <1>2, <2>1 DEF TypeInv, TypeOK, RequestOK, Decide
  <1>3. ASSUME NEW p \in Requests, NEW a \in Actions, NEW handler \in Handlers, Begin(p, a, handler)
        PROVE  TypeInv'
    <2>1. target' = [target EXCEPT ![p] = target[p]] /\ target[p] \in TargetNames
      BY <1>3 DEF TypeInv, TypeOK, Begin
    <2>2. handler \in Places /\ handler # "t2b" /\ held[p] = {}
      BY <1>3 DEF Handlers, Places, TypeInv, RequestOK, Begin, Executing
    <2> QED
      BY <1>3, <2>1, <2>2, OpenTransactionType DEF Begin
  <1>4. ASSUME NEW p \in Requests, NEW terminal \in {"CANCELLED", "EXPIRED"}, CancelRun(p, terminal)
        PROVE  TypeInv'
    <2>1. \A r \in Runs : [run[r] EXCEPT !.state = terminal, !.live = FALSE] \in RunRows
      BY DEF TypeInv, TypeOK, RunRows, RunStates
    <2>2. run' \in [Runs -> RunRows]
      BY <1>4, <2>1 DEF TypeInv, TypeOK, CancelRun
    <2> QED
      BY <1>4, <2>2, FinishType DEF TypeInv, TypeOK, CancelRun
  <1>5. ASSUME NEW p \in Requests, ConfirmGoal(p)
        PROVE  TypeInv'
    <2>1. \A r \in Runs : run[r].goal < MaxGoalVersion =>
             [run[r] EXCEPT !.goal = run[r].goal + 1] \in RunRows
      <3> SUFFICES ASSUME NEW r \in Runs, run[r].goal < MaxGoalVersion
                   PROVE  [run[r] EXCEPT !.goal = run[r].goal + 1] \in RunRows
        OBVIOUS
      <3>1. run[r] \in RunRows
        BY DEF TypeInv, TypeOK
      <3>2. run[r].goal + 1 \in 0 .. MaxGoalVersion
        BY <3>1, P2PConstants DEF RunRows
      <3> QED
        BY <3>1, <3>2 DEF RunRows
    <2>2. run' \in [Runs -> RunRows]
      BY <1>5, <2>1 DEF TypeInv, TypeOK, ConfirmGoal
    <2>3. action' \in [Actions -> ActionStates]
      BY <1>5 DEF TypeInv, TypeOK, ConfirmGoal, ActionStates
    <2> QED
      BY <1>5, <2>2, <2>3, FinishType DEF TypeInv, TypeOK, ConfirmGoal
  <1>6. ASSUME NEW p \in Requests, Abandon(p)
        PROVE  TypeInv'
    BY <1>6, FinishType, SyncPlanStepsType DEF TypeInv, TypeOK, Abandon
  <1>7. ASSUME NEW r \in Runs, RevokeRun(r)
        PROVE  TypeInv'
    <2>1. [run[r] EXCEPT !.live = FALSE] \in RunRows
      BY DEF TypeInv, TypeOK, RunRows
    <2>2. run' \in [Runs -> RunRows]
      BY <1>7, <2>1 DEF TypeInv, TypeOK, RevokeRun
    <2> QED
      BY <1>7, <2>2 DEF TypeInv, TypeOK, RequestOK, RevokeRun
  <1>8. ASSUME NEW n \in DocNames, DeskSubmit(n) \/ DeskCancel(n)
        PROVE  TypeInv'
    <2>1. [erp[n] EXCEPT !.status = "SUBMITTED"] \in Docs /\ [erp[n] EXCEPT !.status = "CANCELLED"] \in Docs
      BY DEF TypeInv, TypeOK, Docs
    <2>2. erp' \in [DocNames -> Docs]
      BY <1>8, <2>1 DEF TypeInv, TypeOK, DeskSubmit, DeskCancel
    <2> QED
      BY <1>8, <2>2 DEF TypeInv, TypeOK, RequestOK, DeskSubmit, DeskCancel
  <1>9. CASE UNCHANGED vars
    BY <1>9 DEF TypeInv, TypeOK, RequestOK, vars
  <1> QED
    BY <1>1, <1>2, <1>3, <1>4, <1>5, <1>6, <1>7, <1>8, <1>9, ExecuteType, ReconcileType DEF Next

LEMMA InitialTypes ==
    ASSUME Init
    PROVE  TypeInv
  <1>1. \A r \in Runs : [state |-> "PROPOSED", live |-> TRUE, goal |-> 0] \in RunRows
    BY P2PConstants DEF RunRows, RunStates
  <1>2. TypeOK
    BY <1>1, P2PConstants, InitialValues DEF Init, TypeOK, ActionStates, Places, TargetNames
  <1>3. RequestOK
    BY DEF Init, RequestOK
  <1> QED
    BY <1>2, <1>3 DEF TypeInv

\* Every row, snapshot and request variable of the purchase-to-pay executor
\* keeps its type, and a connection holds only locks of its own Action.
THEOREM P2PTypeCorrect == Spec => []TypeInv
  <1>1. Init => TypeInv
    BY InitialTypes
  <1>2. TypeInv /\ [Next]_vars => TypeInv'
    BY TypeStep
  <1> QED
    BY <1>1, <1>2, PTL DEF Spec

-----------------------------------------------------------------------------
(* What one step does to one document. *)

\* A document keeps its rows and source once it exists, and only moves on.
DocumentLater(n) ==
    \/ erp'[n] = erp[n]
    \/ erp[n].status = "ABSENT" /\ erp'[n].status # "ABSENT"
    \/ /\ erp'[n].source = erp[n].source /\ erp'[n].rows = erp[n].rows
       /\ \/ erp[n].status = "DRAFT" /\ erp'[n].status = "SUBMITTED"
          \/ erp[n].status = "SUBMITTED" /\ erp'[n].status = "CANCELLED"

LEMMA SubmitsOrCancels ==
    ASSUME NEW a \in Actions, ~Creates(a), ~Submits(a)
    PROVE  Cancels(a)
  BY TypesOfActions DEF Creates, Submits, Cancels

LEMMA CreatesOrSubmits ==
    ASSUME NEW a \in Actions
    PROVE  ~(Creates(a) /\ Submits(a))
  BY DEF Creates, Submits, CreateActions, SubmitActions

\* What the native controller does is what the Action says.
LEMMA ControllerStep ==
    ASSUME TypeInv, NEW a \in Actions, NEW n \in DocNames,
           ControllerAccepts(a, n), ControllerWrite(a, n)
    PROVE  /\ \A m \in DocNames : DocumentLater(m)
           /\ Reached(a, n)'
  <1>0. erp \in [DocNames -> Docs] /\ erp[n] \in Docs
    BY DEF TypeInv, TypeOK
  <1>1. CASE Creates(a)
    <2>1. erp' = [erp EXCEPT ![n] = [kind |-> TargetDoctypes[TypeOf[a]], source |-> SourceOf[a],
                                     rows |-> ItemsOf[a], status |-> "DRAFT"]]
      BY <1>1, CreatesOrSubmits DEF ControllerWrite
    <2>2. erp[n].status = "ABSENT"
      BY <1>1, CreatesOrSubmits DEF ControllerAccepts, Exists
    <2> QED
      BY <1>0, <1>1, <2>1, <2>2, CreatesOrSubmits DEF DocumentLater, Reached
  <1>2. CASE Submits(a) /\ ~Creates(a)
    <2>1. erp' = [erp EXCEPT ![n] = [erp[n] EXCEPT !.status = "SUBMITTED"]]
      BY <1>2 DEF ControllerWrite
    <2>2. erp[n].status = "DRAFT"
      BY <1>2 DEF ControllerAccepts
    <2>3. erp'[n].status = "SUBMITTED" /\ erp'[n].source = erp[n].source /\ erp'[n].rows = erp[n].rows
      BY <1>0, <2>1 DEF Docs
    <2> QED
      BY <1>0, <1>2, <2>1, <2>2, <2>3 DEF DocumentLater, Reached
  <1>3. CASE ~Submits(a) /\ ~Creates(a)
    <2>1. erp' = [erp EXCEPT ![n] = [erp[n] EXCEPT !.status = "CANCELLED"]]
      BY <1>3 DEF ControllerWrite
    <2>2. erp[n].status = "SUBMITTED"
      BY <1>3 DEF ControllerAccepts
    <2>3. erp'[n].status = "CANCELLED" /\ erp'[n].source = erp[n].source /\ erp'[n].rows = erp[n].rows
      BY <1>0, <2>1 DEF Docs
    <2> QED
      BY <1>0, <1>3, <2>1, <2>2, <2>3 DEF DocumentLater, Reached
  <1> QED
    BY <1>1, <1>2, <1>3

LEMMA DeskStep ==
    ASSUME TypeInv, NEW n \in DocNames, DeskSubmit(n) \/ DeskCancel(n)
    PROVE  \A m \in DocNames : DocumentLater(m)
  <1>0. erp \in [DocNames -> Docs] /\ erp[n] \in Docs
    BY DEF TypeInv, TypeOK
  <1>1. CASE DeskSubmit(n)
    <2>1. erp' = [erp EXCEPT ![n] = [erp[n] EXCEPT !.status = "SUBMITTED"]] /\ erp[n].status = "DRAFT"
      BY <1>1 DEF DeskSubmit
    <2>2. erp'[n].status = "SUBMITTED" /\ erp'[n].source = erp[n].source /\ erp'[n].rows = erp[n].rows
      BY <1>0, <2>1 DEF Docs
    <2> QED
      BY <1>0, <2>1, <2>2 DEF DocumentLater
  <1>2. CASE DeskCancel(n)
    <2>1. erp' = [erp EXCEPT ![n] = [erp[n] EXCEPT !.status = "CANCELLED"]] /\ erp[n].status = "SUBMITTED"
      BY <1>2 DEF DeskCancel, CancelGate
    <2>2. erp'[n].status = "CANCELLED" /\ erp'[n].source = erp[n].source /\ erp'[n].rows = erp[n].rows
      BY <1>0, <2>1 DEF Docs
    <2> QED
      BY <1>0, <2>1, <2>2 DEF DocumentLater
  <1> QED
    BY <1>1, <1>2

\* The steps that change the ERP: an execution's write, and people.
Writes(p) ==
    \E n \in DocNames :
        /\ pc[p] = "t2" /\ ControllerAccepts(act[p], n) /\ ControllerWrite(act[p], n)
        /\ T2Commit(p, n) \/ T2Write(p, n)

LEMMA ErpStep ==
    ASSUME TypeInv, [Next]_vars
    PROVE  \/ UNCHANGED <<erp, applied>>
           \/ \E p \in Requests : Writes(p)
           \/ applied' = applied /\ \E n \in DocNames : DeskSubmit(n) \/ DeskCancel(n)
  <1> USE DEF ledgerVars, erpVars
  <1>1. ASSUME NEW p \in Requests, NEW n \in DocNames, T2Commit(p, n) \/ T2Write(p, n)
        PROVE  Writes(p)
    BY <1>1 DEF Writes, T2Commit, T2Write
  <1>2. ASSUME NEW p \in Requests, Execute(p), \A n \in DocNames : ~(T2Commit(p, n) \/ T2Write(p, n))
        PROVE  UNCHANGED <<erp, applied>>
    BY <1>2 DEF Execute, T1Reserve, Replay, AcquireLock, T2Begin, T2Record, T2Fail, T3Begin, T3Commit
  <1>3. CASE UNCHANGED vars
    BY <1>3 DEF vars
  <1>4. CASE \E a \in Actions : Propose(a) \/ \E decision \in {"APPROVED", "DECLINED"} : Decide(a, decision)
    BY <1>4 DEF Propose, Decide
  <1>5. CASE \E r \in Runs : RevokeRun(r)
    BY <1>5 DEF RevokeRun
  <1>6. CASE \E n \in DocNames : DeskSubmit(n) \/ DeskCancel(n)
    BY <1>6 DEF DeskSubmit, DeskCancel
  <1>7. ASSUME NEW p \in Requests,
               \/ \E a \in Actions, handler \in Handlers : Begin(p, a, handler)
               \/ \E verified \in BOOLEAN : Reconcile(p, verified) \/ ReconcileActionConflict(p, verified)
               \/ ReconcileRunConflict(p)
               \/ \E terminal \in {"CANCELLED", "EXPIRED"} : CancelRun(p, terminal)
               \/ ConfirmGoal(p)
               \/ Abandon(p)
        PROVE  UNCHANGED <<erp, applied>>
    BY <1>7 DEF Begin, Reconcile, ReconcileActionConflict, ReconcileRunConflict, CancelRun, ConfirmGoal, Abandon
  <1> QED
    BY <1>1, <1>2, <1>3, <1>4, <1>5, <1>6, <1>7 DEF Next

LEMMA DocumentsMoveOn ==
    ASSUME TypeInv, [Next]_vars
    PROVE  \A n \in DocNames : DocumentLater(n)
  <1>1. CASE UNCHANGED <<erp, applied>>
    BY <1>1 DEF DocumentLater
  <1>2. ASSUME NEW p \in Requests, Writes(p)
        PROVE  \A n \in DocNames : DocumentLater(n)
    <2>1. act[p] \in Actions
      BY <1>2 DEF TypeInv, RequestOK, Writes
    <2> QED
      BY <1>2, <2>1, ControllerStep DEF Writes
  <1> QED
    BY <1>1, <1>2, ErpStep, DeskStep

\* A claim a success makes stays true.
LEMMA ReachedLasts ==
    ASSUME TypeInv, [Next]_vars, NEW a \in Actions, NEW n \in DocNames, Reached(a, n)
    PROVE  Reached(a, n)'
  <1>1. DocumentLater(n)
    BY DocumentsMoveOn
  <1> QED
    BY <1>1 DEF DocumentLater, Reached

\* A target that can be read back is what the Action wanted.
LEMMA ReadBackReached ==
    ASSUME NEW a \in Actions, NEW n \in DocNames, ReadBack(a, n)
    PROVE  Reached(a, n)
  <1>1. CASE Creates(a)
    <2>1. TypeOf[a] \notin SubmitActions /\ TypeOf[a] \notin CancelActions
      BY <1>1 DEF Creates, CreateActions, SubmitActions, CancelActions
    <2>2. TypeOf[a] # "SUBMIT_PAYMENT_ENTRY" /\ TypeOf[a] # "CANCEL_PAYMENT_ENTRY"
      BY <2>1 DEF SubmitActions, CancelActions
    <2>3. DraftReadBack(a, n)
      BY <2>1, <2>2 DEF ReadBack
    <2> QED
      BY <1>1, <2>3, CreatesOrSubmits DEF DraftReadBack, Reached
  <1>2. CASE ~Creates(a) /\ Submits(a)
    <2>1. TypeOf[a] \in SubmitActions /\ TypeOf[a] \notin CancelActions
      BY <1>2 DEF Submits, SubmitActions, CancelActions
    <2>2. TypeOf[a] # "CANCEL_PAYMENT_ENTRY"
      BY <2>1 DEF CancelActions
    <2>3. SubmittedReadBack(n)
      BY <2>1, <2>2 DEF ReadBack, PaymentReadBack
    <2> QED
      BY <1>2, <2>3 DEF SubmittedReadBack, Reached
  <1>3. CASE ~Creates(a) /\ ~Submits(a)
    <2>1. TypeOf[a] \in CancelActions /\ TypeOf[a] \notin SubmitActions
      BY <1>3, SubmitsOrCancels DEF Submits, Cancels
    <2>2. TypeOf[a] # "SUBMIT_PAYMENT_ENTRY"
      BY <2>1 DEF SubmitActions
    <2>3. CancelledReadBack(n)
      BY <2>1, <2>2 DEF ReadBack, CancelledPaymentReadBack
    <2> QED
      BY <1>3, <2>3 DEF CancelledReadBack, Reached
  <1> QED
    BY <1>1, <1>2, <1>3

-----------------------------------------------------------------------------
(* What one step does to the rows of one Action. *)

Kept(a) == action'[a] = action[a] /\ reservation'[a] = reservation[a] /\ receipt'[a] = receipt[a]

\* Proposed, decided, or expired by another goal.
Judged(a) ==
    /\ reservation'[a] = reservation[a] /\ receipt'[a] = receipt[a]
    /\ \/ action[a] \in {"NONE", "AWAITING_APPROVAL"} /\ action'[a] \notin {"NONE", "EXECUTED", "EXPIRED"}
       \/ action[a] \in {"AWAITING_APPROVAL", "APPROVED"} /\ action'[a] = "EXPIRED"

Reserves(a) ==
    /\ action[a] = "APPROVED" /\ action'[a] = "APPROVED"
    /\ reservation[a] = NoReservation /\ reservation'[a] = StartedReservation
    /\ receipt'[a] = receipt[a]

\* Settled as a success, by the execution or by reconciliation.
Succeeds(a) ==
    /\ action[a] = "APPROVED" /\ action'[a] = "EXECUTED"
    /\ reservation[a].status \in Unsettled
    /\ \E n \in DocNames, state \in SuccessStates :
          /\ reservation'[a] = [status |-> state, target |-> n]
          /\ receipt'[a] = [state |-> state, target |-> n]
          /\ Reached(a, n)'

\* Left uncertain, or settled without success: the Action is closed.
Closes(a) ==
    /\ action'[a] = IF action[a] = "APPROVED" THEN "EXPIRED" ELSE action[a]
    /\ reservation[a].status \in Unsettled
    /\ reservation'[a].status \in {"FAILED", "RECONCILIATION_REQUIRED", "MANUAL_INTERVENTION"}
    /\ receipt'[a].state = reservation'[a].status

\* A reconciliation that only stored its Receipt.
Splits(a) ==
    /\ action'[a] = action[a] /\ action[a] # "APPROVED"
    /\ reservation[a].status \in Unsettled
    /\ reservation'[a].status = "RECONCILIATION_REQUIRED"
    /\ \/ receipt'[a].state = "MANUAL_INTERVENTION"
       \/ \E n \in DocNames : /\ receipt'[a] = [state |-> "RECONCILED_SUCCESS", target |-> n]
                              /\ Reached(a, n)'

RowStep(a) == Kept(a) \/ Judged(a) \/ Reserves(a) \/ Succeeds(a) \/ Closes(a) \/ Splits(a)

\* A request that closes its Action because it read it as approved.
LEMMA CloseActionStep ==
    ASSUME TypeInv, SnapshotsLast, NEW p \in Requests, pc[p] \in Loaded, act[p] \in Actions,
           snap[p].reservation.status # "NONE", NEW state, CloseAction(p, state)
    PROVE  /\ action'[act[p]] = IF action[act[p]] = "APPROVED" THEN state ELSE action[act[p]]
           /\ snap[p].action = "APPROVED" => action[act[p]] = "APPROVED"
           /\ \A a \in Actions : a # act[p] => action'[a] = action[a]
  <1>1. CASE snap[p].action = "APPROVED"
    BY <1>1 DEF TypeInv, TypeOK, CloseAction, ActionFresh
  <1>2. CASE snap[p].action # "APPROVED"
    BY <1>2 DEF SnapshotsLast, CloseAction
  <1> QED
    BY <1>1, <1>2

LEMMA RecordSuccessStep ==
    ASSUME TypeInv, NEW p \in Requests, NEW n \in DocNames, NEW b \in Actions, b = act[p],
           action[b] = "APPROVED", RecordSuccess(p, n), Reached(b, n)'
    PROVE  \A a \in Actions : RowStep(a)
  <1>1. /\ action' = [action EXCEPT ![b] = "EXECUTED"]
        /\ reservation[b] = StartedReservation
        /\ reservation' = [reservation EXCEPT ![b] = [status |-> "SUCCEEDED", target |-> n]]
        /\ receipt' = [receipt EXCEPT ![b] = [state |-> "SUCCEEDED", target |-> n]]
    BY DEF RecordSuccess, PersistReceipt
  <1>2. action \in [Actions -> ActionStates] /\ reservation \in [Actions -> Reservations]
        /\ receipt \in [Actions -> Receipts]
    BY DEF TypeInv, TypeOK
  <1>3. ASSUME NEW a \in Actions, a # b
        PROVE  Kept(a)
    BY <1>1, <1>2, <1>3 DEF Kept
  <1>4. Succeeds(b)
    <2>1. reservation[b].status \in Unsettled
      BY <1>1 DEF StartedReservation, Unsettled
    <2>2. /\ reservation'[b] = [status |-> "SUCCEEDED", target |-> n]
          /\ receipt'[b] = [state |-> "SUCCEEDED", target |-> n]
          /\ action'[b] = "EXECUTED"
      BY <1>1, <1>2
    <2>3. "SUCCEEDED" \in SuccessStates
      BY DEF SuccessStates
    <2> QED
      BY <2>1, <2>2, <2>3 DEF Succeeds
  <1> QED
    BY <1>3, <1>4 DEF RowStep

\* Where a reconciliation verified a target, it is the one it read.
LEMMA VerifiedTarget ==
    ASSUME TypeInv, SnapshotsLast, [Next]_vars, NEW p \in Requests, pc[p] \in Loaded, act[p] \in Actions,
           reservation[act[p]] = snap[p].reservation, TargetVerified(p)
    PROVE  /\ KnownTarget(act[p]) \in DocNames
           /\ \A a \in Actions, n \in DocNames : a = act[p] /\ n = KnownTarget(act[p]) => Reached(a, n)'
  <1>1. KnownTarget(act[p]) = TargetOf(act[p], snap[p].reservation)
    BY DEF KnownTarget, TargetOf
  <1>2. KnownTarget(act[p]) # NoName /\ Reached(act[p], KnownTarget(act[p]))
    BY <1>1 DEF SnapshotsLast, TargetVerified
  <1>3. KnownTarget(act[p]) \in DocNames
    BY <1>2, KnownTargetType DEF TypeInv, TargetNames
  <1> QED
    BY <1>2, <1>3, ReachedLasts

LEMMA ReconcileStep ==
    ASSUME TypeInv, SnapshotsLast, [Next]_vars, NEW p \in Requests, NEW verified \in BOOLEAN,
           Reconcile(p, verified) \/ ReconcileActionConflict(p, verified) \/ ReconcileRunConflict(p)
    PROVE  \A a \in Actions : RowStep(a)
  <1>0. /\ pc[p] \in Loaded /\ act[p] \in Actions
        /\ reservation[act[p]].status \in Unsettled /\ reservation[act[p]] = snap[p].reservation
        /\ snap[p].reservation.status # "NONE"
    BY DEF Loaded, Handlers, TypeInv, RequestOK, Reconcile, ReconcileActionConflict, ReconcileRunConflict,
           ReconcileEntered, Unsettled
  <1>1. action \in [Actions -> ActionStates] /\ reservation \in [Actions -> Reservations]
        /\ receipt \in [Actions -> Receipts]
    BY DEF TypeInv, TypeOK
  <1>2. PICK b \in Actions : b = act[p]
    BY <1>0
  <1>3. Verdict(FALSE, b).status = "MANUAL_INTERVENTION" /\ ReceiptOf(Verdict(FALSE, b)).state = "MANUAL_INTERVENTION"
    BY DEF Verdict, ReceiptOf
  <1>4. /\ Verdict(TRUE, b) = [status |-> "RECONCILED_SUCCESS", target |-> KnownTarget(b)]
        /\ ReceiptOf(Verdict(TRUE, b)) = [state |-> "RECONCILED_SUCCESS", target |-> KnownTarget(b)]
    BY DEF Verdict, ReceiptOf, SuccessStates
  <1>5. ASSUME TargetVerified(p)
        PROVE  \E n \in DocNames : n = KnownTarget(b) /\ Reached(b, n)'
    BY <1>0, <1>2, <1>5, VerifiedTarget
  <1>6. ASSUME NEW a \in Actions, a # b
        PROVE  Kept(a)
    <2>1. reservation'[a] = reservation[a] /\ receipt'[a] = receipt[a]
      BY <1>1, <1>2, <1>6 DEF Reconcile, ReconcileActionConflict, ReconcileRunConflict
    <2>2. action'[a] = action[a]
      <3>1. UNCHANGED action \/ CloseAction(p, "EXECUTED") \/ CloseAction(p, "EXPIRED")
        BY DEF Reconcile, ReconcileActionConflict, ReconcileRunConflict
      <3> QED
        BY <3>1, <1>0, <1>2, <1>6, CloseActionStep
    <2> QED
      BY <2>1, <2>2 DEF Kept
  <1>7. CASE Reconcile(p, verified) /\ verified
    <2>1. PICK n \in DocNames : n = KnownTarget(b) /\ Reached(b, n)'
      BY <1>5, <1>7 DEF Reconcile
    <2>2. /\ reservation'[b] = [status |-> "RECONCILED_SUCCESS", target |-> n]
          /\ receipt'[b] = [state |-> "RECONCILED_SUCCESS", target |-> n]
      BY <1>1, <1>2, <1>4, <1>7, <2>1 DEF Reconcile
    <2>3. CloseAction(p, "EXECUTED") /\ snap[p].action = "APPROVED"
      BY <1>7 DEF Reconcile, TargetVerified
    <2>4. action[b] = "APPROVED" /\ action'[b] = "EXECUTED"
      BY <2>3, <1>0, <1>2, CloseActionStep
    <2>5. "RECONCILED_SUCCESS" \in SuccessStates
      BY DEF SuccessStates
    <2>6. Succeeds(b)
      BY <1>0, <1>2, <2>1, <2>2, <2>4, <2>5 DEF Succeeds
    <2> QED
      BY <1>6, <2>6 DEF RowStep
  <1>8. CASE (Reconcile(p, verified) /\ ~verified) \/ ReconcileRunConflict(p)
    <2>1. reservation'[b].status = "MANUAL_INTERVENTION" /\ receipt'[b].state = "MANUAL_INTERVENTION"
      <3>1. verified = FALSE \/ ReconcileRunConflict(p)
        BY <1>8
      <3>2. reservation'[b] = Verdict(FALSE, b) /\ receipt'[b] = ReceiptOf(Verdict(FALSE, b))
        BY <1>1, <1>2, <1>8, <3>1 DEF Reconcile, ReconcileRunConflict
      <3> QED
        BY <3>2, <1>3
    <2>2. CloseAction(p, "EXPIRED")
      BY <1>8 DEF Reconcile, ReconcileRunConflict
    <2>3. action'[b] = IF action[b] = "APPROVED" THEN "EXPIRED" ELSE action[b]
      BY <2>2, <1>0, <1>2, CloseActionStep
    <2>4. Closes(b)
      BY <1>0, <1>2, <2>1, <2>3 DEF Closes
    <2> QED
      BY <1>6, <2>4 DEF RowStep
  <1>9. CASE ReconcileActionConflict(p, verified)
    <2>1. reservation'[b].status = "RECONCILIATION_REQUIRED"
      <3>1. reservation' = [reservation EXCEPT ![b] = [reservation[b] EXCEPT !.status = "RECONCILIATION_REQUIRED"]]
        BY <1>2, <1>9 DEF ReconcileActionConflict
      <3>2. reservation[b] \in Reservations
        BY <1>1
      <3> QED
        BY <1>1, <3>1, <3>2 DEF Reservations
    <2>2. receipt'[b] = ReceiptOf(Verdict(verified, b))
      BY <1>1, <1>2, <1>9 DEF ReconcileActionConflict
    <2>3. action'[b] = action[b] /\ action[b] # "APPROVED"
      BY <1>2, <1>9 DEF ReconcileActionConflict, ActionFresh
    <2>4. \/ receipt'[b].state = "MANUAL_INTERVENTION"
          \/ \E n \in DocNames : /\ receipt'[b] = [state |-> "RECONCILED_SUCCESS", target |-> n]
                                 /\ Reached(b, n)'
      <3>1. CASE verified = FALSE
        BY <3>1, <2>2, <1>3
      <3>2. CASE verified = TRUE
        BY <3>2, <2>2, <1>4, <1>5, <1>9 DEF ReconcileActionConflict
      <3> QED
        BY <3>1, <3>2
    <2>5. Splits(b)
      BY <1>0, <1>2, <2>1, <2>3, <2>4 DEF Splits
    <2> QED
      BY <1>6, <2>5 DEF RowStep
  <1> QED
    BY <1>7, <1>8, <1>9

LEMMA T3CommitStep ==
    ASSUME TypeInv, SnapshotsLast, NEW p \in Requests, T3Commit(p)
    PROVE  \A a \in Actions : RowStep(a)
  <1>1. act[p] \in Actions /\ pc[p] \in Loaded /\ snap[p].reservation.status # "NONE"
        /\ reservation[act[p]].status \in Unsettled
    BY DEF T3Commit, TypeInv, RequestOK, Loaded, Unsettled
  <1>2. /\ receipt' = [receipt EXCEPT ![act[p]] = [state |-> FailureState(p), target |-> target[p]]]
        /\ reservation' = [reservation EXCEPT ![act[p]] = [status |-> FailureState(p), target |-> target[p]]]
        /\ CloseAction(p, "EXPIRED")
    BY DEF T3Commit, PersistReceipt
  <1>3. FailureState(p) \in {"FAILED", "RECONCILIATION_REQUIRED"}
    BY DEF FailureState
  <1>4. reservation \in [Actions -> Reservations] /\ receipt \in [Actions -> Receipts]
    BY DEF TypeInv, TypeOK
  <1>5. ASSUME NEW a \in Actions, a # act[p]
        PROVE  Kept(a)
    BY <1>1, <1>2, <1>4, <1>5, CloseActionStep DEF Kept
  <1>6. /\ receipt'[act[p]].state = FailureState(p) /\ reservation'[act[p]].status = FailureState(p)
    BY <1>1, <1>2, <1>4
  <1>7. action'[act[p]] = IF action[act[p]] = "APPROVED" THEN "EXPIRED" ELSE action[act[p]]
    BY <1>1, <1>2, CloseActionStep
  <1>8. PICK b \in Actions : b = act[p]
    BY <1>1
  <1>9. Closes(b)
    BY <1>1, <1>3, <1>6, <1>7, <1>8 DEF Closes
  <1> QED
    BY <1>5, <1>8, <1>9 DEF RowStep

\* Every step moves the rows of an Action together in one of these ways.
LEMMA RowsMove ==
    ASSUME TypeInv, SnapshotsLast, CommittedIsReal, [Next]_vars
    PROVE  \A a \in Actions : RowStep(a)
  <1> USE DEF ledgerVars, erpVars, requestVars
  <1>0. action \in [Actions -> ActionStates] /\ reservation \in [Actions -> Reservations]
    BY DEF TypeInv, TypeOK
  <1>1. CASE UNCHANGED <<action, reservation, receipt>>
    BY <1>1 DEF RowStep, Kept
  <1>2. ASSUME NEW b \in Actions, Propose(b) \/ \E decision \in {"APPROVED", "DECLINED"} : Decide(b, decision)
        PROVE  \A a \in Actions : RowStep(a)
    <2>1. \A a \in Actions : Kept(a) \/ Judged(a)
      BY <1>0, <1>2 DEF Kept, Judged, Propose, Decide
    <2> QED
      BY <2>1 DEF RowStep
  <1>3. ASSUME NEW p \in Requests, ConfirmGoal(p)
        PROVE  \A a \in Actions : RowStep(a)
    <2>1. ASSUME NEW a \in Invalidated(p)
          PROVE  action[a] \in {"AWAITING_APPROVAL", "APPROVED"}
      <3>1. snap[p].pending \subseteq Actions \X {"AWAITING_APPROVAL", "APPROVED"}
        BY DEF TypeInv, TypeOK, Snapshots
      <3>2. PICK x \in snap[p].pending : a = x[1] /\ action[x[1]] = x[2]
        BY <2>1 DEF Invalidated
      <3> QED
        BY <3>1, <3>2
    <2>2. \A a \in Actions : Kept(a) \/ Judged(a)
      BY <1>0, <1>3, <2>1 DEF Kept, Judged, ConfirmGoal
    <2> QED
      BY <2>2 DEF RowStep
  <1>4. ASSUME NEW p \in Requests, T1Reserve(p)
        PROVE  \A a \in Actions : RowStep(a)
    <2>1. act[p] \in Actions
      BY <1>4 DEF T1Reserve, TypeInv, RequestOK
    <2>2. \A a \in Actions : Kept(a) \/ Reserves(a)
      BY <1>0, <1>4, <2>1 DEF Kept, Reserves, T1Reserve, PreExecuteRecheck
    <2> QED
      BY <2>2 DEF RowStep
  <1>5. ASSUME NEW p \in Requests, NEW n \in DocNames, T2Commit(p, n)
        PROVE  \A a \in Actions : RowStep(a)
    <2>1. act[p] \in Actions /\ action[act[p]] = "APPROVED" /\ RecordSuccess(p, n)
      BY <1>5 DEF T2Commit, TypeInv, RequestOK, PreExecuteRecheck
    <2>2. PICK b \in Actions : b = act[p]
      BY <2>1
    <2>3. Reached(b, n)'
      BY <1>5, <2>2, ControllerStep DEF T2Commit
    <2> QED
      BY <2>1, <2>2, <2>3, RecordSuccessStep
  <1>6. ASSUME NEW p \in Requests, T2Record(p)
        PROVE  \A a \in Actions : RowStep(a)
    <2>1. /\ act[p] \in Actions /\ target[p] \in DocNames /\ Reached(act[p], target[p])
          /\ action[act[p]] = "APPROVED" /\ RecordSuccess(p, target[p])
      BY <1>6 DEF T2Record, TypeInv, RequestOK, CommittedIsReal
    <2>2. PICK b \in Actions, n \in DocNames : b = act[p] /\ n = target[p]
      BY <2>1
    <2>3. Reached(b, n)'
      BY <2>1, <2>2, ReachedLasts
    <2> QED
      BY <2>1, <2>2, <2>3, RecordSuccessStep
  <1>7. ASSUME NEW p \in Requests, Execute(p),
               ~T1Reserve(p), \A n \in DocNames : ~T2Commit(p, n), ~T2Record(p), ~T3Commit(p)
        PROVE  UNCHANGED <<action, reservation, receipt>>
    BY <1>7 DEF Execute, Replay, AcquireLock, T2Begin, T2Write, T2Fail, T3Begin
  <1>8. ASSUME NEW p \in Requests,
               \/ \E a \in Actions, handler \in Handlers : Begin(p, a, handler)
               \/ \E terminal \in {"CANCELLED", "EXPIRED"} : CancelRun(p, terminal)
               \/ Abandon(p)
        PROVE  UNCHANGED <<action, reservation, receipt>>
    BY <1>8 DEF Begin, CancelRun, Abandon
  <1>9. ASSUME \/ \E r \in Runs : RevokeRun(r)
               \/ \E n \in DocNames : DeskSubmit(n) \/ DeskCancel(n)
               \/ UNCHANGED vars
        PROVE  UNCHANGED <<action, reservation, receipt>>
    BY <1>9 DEF RevokeRun, DeskSubmit, DeskCancel, vars
  <1> QED
    BY <1>1, <1>2, <1>3, <1>4, <1>5, <1>6, <1>7, <1>8, <1>9, T3CommitStep, ReconcileStep DEF Next

-----------------------------------------------------------------------------
(* What one step does to one request. *)

Stays(q) == pc'[q] = pc[q] /\ act'[q] = act[q] /\ snap'[q] = snap[q] /\ target'[q] = target[q]

\* A handler begins, or an execution goes on in a new transaction.
Opens(q) ==
    \E a \in Actions :
        /\ act'[q] = a /\ snap'[q] = Snapshot(a) /\ UNCHANGED ledgerVars
        /\ \/ pc[q] = "idle" /\ pc'[q] \in Handlers
           \/ /\ a = act[q] /\ pc[q] = "reserved" /\ pc'[q] = "t2"
              /\ LocksHeld(q) /\ UNCHANGED <<erp, held>>
           \/ a = act[q] /\ pc[q] = "failed" /\ pc'[q] = "t3"
           \/ /\ a = act[q] /\ pc[q] = "t2" /\ pc'[q] = "t2b"
              /\ \E n \in DocNames : target'[q] = n /\ Reached(a, n)'

\* T1 commits, and nobody else moves.
Claims(q) ==
    /\ pc[q] = "execute" /\ pc'[q] = "reserved" /\ act'[q] = act[q]
    /\ reservation[act[q]] = NoReservation /\ reservation'[act[q]] = StartedReservation
    /\ \A r \in Requests \ {q} : Stays(r)

Fails(q) == pc[q] \in {"reserved", "t2", "t2b"} /\ pc'[q] = "failed" /\ act'[q] = act[q]

RequestStep(q) == Stays(q) \/ pc'[q] = "idle" \/ Opens(q) \/ Claims(q) \/ Fails(q)

LEMMA FinishStep ==
    ASSUME TypeInv, NEW p \in Requests, Finish(p)
    PROVE  \A q \in Requests : Stays(q) \/ pc'[q] = "idle"
  BY DEF TypeInv, TypeOK, Finish, Stays

LEMMA OpenTransactionStep ==
    ASSUME TypeInv, NEW p \in Requests, NEW a \in Actions, NEW place, OpenTransaction(p, a, place)
    PROVE  /\ pc'[p] = place /\ act'[p] = a /\ snap'[p] = Snapshot(a)
           /\ \A q \in Requests \ {p} : pc'[q] = pc[q] /\ act'[q] = act[q] /\ snap'[q] = snap[q]
  BY DEF TypeInv, TypeOK, OpenTransaction

\* Every step of a request is one of these.
LEMMA RequestsMove ==
    ASSUME TypeInv, [Next]_vars
    PROVE  \A q \in Requests : RequestStep(q)
  <1> USE DEF ledgerVars, erpVars, requestVars
  <1>0. /\ pc \in [Requests -> Places] /\ act \in [Requests -> Actions \cup {NoAction}]
        /\ snap \in [Requests -> Snapshots] /\ target \in [Requests -> TargetNames]
        /\ reservation \in [Actions -> Reservations]
    BY DEF TypeInv, TypeOK
  <1>1. CASE UNCHANGED <<pc, act, snap, target>>
    BY <1>1 DEF RequestStep, Stays
  <1>2. ASSUME NEW p \in Requests, Finish(p)
        PROVE  \A q \in Requests : RequestStep(q)
    BY <1>2, FinishStep DEF RequestStep
  <1>3. ASSUME NEW p \in Requests, NEW a \in Actions, NEW handler \in Handlers, Begin(p, a, handler)
        PROVE  \A q \in Requests : RequestStep(q)
    <2>1. Opens(p)
      BY <1>3, OpenTransactionStep DEF Begin, Opens
    <2>2. \A q \in Requests \ {p} : Stays(q)
      BY <1>3, OpenTransactionStep DEF Begin, Stays
    <2> QED
      BY <2>1, <2>2 DEF RequestStep
  <1>4. ASSUME NEW p \in Requests, T1Reserve(p)
        PROVE  \A q \in Requests : RequestStep(q)
    <2>1. act[p] \in Actions
      BY <1>4 DEF T1Reserve, TypeInv, RequestOK
    <2>2. \A q \in Requests \ {p} : Stays(q)
      BY <1>0, <1>4 DEF T1Reserve, Stays
    <2>3. Claims(p)
      BY <1>0, <1>4, <2>1, <2>2 DEF T1Reserve, Claims
    <2> QED
      BY <2>2, <2>3 DEF RequestStep
  <1>5. ASSUME NEW p \in Requests, T2Begin(p)
        PROVE  \A q \in Requests : RequestStep(q)
    <2>1. PICK a \in Actions : a = act[p]
      BY <1>5 DEF T2Begin, LocksHeld, TypeInv, RequestOK
    <2>2. /\ OpenTransaction(p, a, "t2") /\ pc[p] = "reserved"
          /\ LocksHeld(p) /\ UNCHANGED <<ledgerVars, erp, target, held>>
      BY <1>5, <2>1 DEF T2Begin, LocksHeld
    <2>3. Opens(p)
      BY <2>1, <2>2, OpenTransactionStep DEF Opens
    <2>4. \A q \in Requests \ {p} : Stays(q)
      BY <2>2, OpenTransactionStep DEF Stays
    <2> QED
      BY <2>3, <2>4 DEF RequestStep
  <1>6. ASSUME NEW p \in Requests, NEW n \in DocNames, T2Write(p, n)
        PROVE  \A q \in Requests : RequestStep(q)
    <2>1. PICK a \in Actions : a = act[p]
      BY <1>6 DEF T2Write, TypeInv, RequestOK
    <2>2. Reached(a, n)'
      BY <1>6, <2>1, ControllerStep DEF T2Write
    <2>3. /\ pc[p] = "t2" /\ pc' = [pc EXCEPT ![p] = "t2b"] /\ target' = [target EXCEPT ![p] = n]
          /\ snap' = [snap EXCEPT ![p] = Snapshot(a)] /\ act' = act /\ UNCHANGED ledgerVars
      BY <1>6, <2>1 DEF T2Write
    <2>4. Opens(p)
      BY <1>0, <2>1, <2>2, <2>3 DEF Opens
    <2>5. \A q \in Requests \ {p} : Stays(q)
      BY <1>0, <2>3 DEF Stays
    <2> QED
      BY <2>4, <2>5 DEF RequestStep
  <1>7. ASSUME NEW p \in Requests, NEW outcome, NEW n, T2Fail(p, outcome, n)
        PROVE  \A q \in Requests : RequestStep(q)
    <2>1. Fails(p)
      BY <1>0, <1>7 DEF T2Fail, Fails
    <2>2. \A q \in Requests \ {p} : Stays(q)
      BY <1>0, <1>7 DEF T2Fail, Stays
    <2> QED
      BY <2>1, <2>2 DEF RequestStep
  <1>8. ASSUME NEW p \in Requests, T3Begin(p)
        PROVE  \A q \in Requests : RequestStep(q)
    <2>1. PICK a \in Actions : a = act[p]
      BY <1>8 DEF T3Begin, TypeInv, RequestOK
    <2>2. OpenTransaction(p, a, "t3") /\ pc[p] = "failed" /\ UNCHANGED ledgerVars
      BY <1>8, <2>1 DEF T3Begin
    <2>3. Opens(p)
      BY <2>1, <2>2, OpenTransactionStep DEF Opens
    <2>4. \A q \in Requests \ {p} : target'[q] = target[q]
      BY <1>0, <1>8 DEF T3Begin
    <2>5. \A q \in Requests \ {p} : Stays(q)
      BY <2>2, <2>4, OpenTransactionStep DEF Stays
    <2> QED
      BY <2>3, <2>5 DEF RequestStep
  <1>9. ASSUME NEW p \in Requests, Execute(p)
        PROVE  \A q \in Requests : RequestStep(q)
    <2>1. CASE Replay(p) \/ (\E n \in DocNames : T2Commit(p, n)) \/ T2Record(p) \/ T3Commit(p)
      BY <2>1, <1>2 DEF Replay, T2Commit, T2Record, T3Commit
    <2>2. CASE \E l \in LockNames(act[p]) : AcquireLock(p, l)
      BY <2>2, <1>1 DEF AcquireLock
    <2> QED
      BY <1>9, <2>1, <2>2, <1>4, <1>5, <1>6, <1>7, <1>8 DEF Execute
  <1>10. ASSUME NEW p \in Requests,
               \/ \E verified \in BOOLEAN : Reconcile(p, verified) \/ ReconcileActionConflict(p, verified)
               \/ ReconcileRunConflict(p)
               \/ \E terminal \in {"CANCELLED", "EXPIRED"} : CancelRun(p, terminal)
               \/ ConfirmGoal(p)
               \/ Abandon(p)
        PROVE  \A q \in Requests : RequestStep(q)
    BY <1>10, <1>2 DEF Reconcile, ReconcileActionConflict, ReconcileRunConflict, CancelRun, ConfirmGoal, Abandon
  <1>11. ASSUME \/ \E a \in Actions : Propose(a) \/ \E decision \in {"APPROVED", "DECLINED"} : Decide(a, decision)
                \/ \E r \in Runs : RevokeRun(r)
                \/ \E n \in DocNames : DeskSubmit(n) \/ DeskCancel(n)
                \/ UNCHANGED vars
         PROVE  UNCHANGED <<pc, act, snap, target>>
    BY <1>11 DEF Propose, Decide, RevokeRun, DeskSubmit, DeskCancel, vars
  <1> QED
    BY <1>1, <1>3, <1>9, <1>10, <1>11 DEF Next

-----------------------------------------------------------------------------
(* The ledgers agree, and a success is real. *)

\* The inductive invariant of the ledgers: the rows of an Action agree, what
\* open transactions read still bounds them, and successes are true.
LedgerInv ==
    TypeInv /\ ReservedWasApproved /\ SnapshotsLast /\ CommittedIsReal /\ LedgersAgree /\ SuccessIsReached

LEMMA ReachedIsReal ==
    ASSUME SuccessIsReached
    PROVE  SuccessIsReal
  BY DEF SuccessIsReached, SuccessIsReal, Reached

LEMMA ReservedStep ==
    ASSUME LedgerInv, [Next]_vars
    PROVE  ReservedWasApproved'
  <1> SUFFICES ASSUME NEW a \in Actions
               PROVE  /\ reservation'[a].status # "NONE" => action'[a] \in {"APPROVED", "EXECUTED", "EXPIRED"}
                      /\ reservation'[a].status \in FinalStates => action'[a] \in {"EXECUTED", "EXPIRED"}
    BY DEF ReservedWasApproved
  <1>1. RowStep(a)
    BY RowsMove DEF LedgerInv
  <1>2. /\ reservation[a].status # "NONE" => action[a] \in {"APPROVED", "EXECUTED", "EXPIRED"}
        /\ reservation[a].status \in FinalStates => action[a] \in {"EXECUTED", "EXPIRED"}
    BY DEF LedgerInv, ReservedWasApproved
  <1>3. reservation[a].status \in FinalStates => reservation[a].status # "NONE"
    BY DEF FinalStates, SuccessStates
  <1>4. CASE Kept(a)
    BY <1>2, <1>4 DEF Kept
  <1>5. CASE Judged(a)
    BY <1>2, <1>3, <1>5 DEF Judged
  <1>6. CASE Reserves(a)
    BY <1>6 DEF Reserves, StartedReservation, FinalStates, SuccessStates
  <1>7. CASE Succeeds(a)
    BY <1>7 DEF Succeeds
  <1>8. CASE Closes(a)
    BY <1>2, <1>8 DEF Closes, Unsettled
  <1>9. CASE Splits(a)
    BY <1>2, <1>9 DEF Splits, Unsettled
  <1> QED
    BY <1>1, <1>4, <1>5, <1>6, <1>7, <1>8, <1>9 DEF RowStep

LEMMA AgreeStep ==
    ASSUME LedgerInv, [Next]_vars
    PROVE  LedgersAgree'
  <1> DEFINE Agree(x, v, t) ==
               /\ x = "EXECUTED" <=> v.status \in SuccessStates
               /\ v.status \in FinalStates => t.state = v.status
               /\ v.status \in SuccessStates => v.target # NoName /\ t.target = v.target
  <1> SUFFICES ASSUME NEW a \in Actions
               PROVE  Agree(action'[a], reservation'[a], receipt'[a])
    BY DEF LedgersAgree
  <1>1. RowStep(a)
    BY RowsMove DEF LedgerInv
  <1>2. Agree(action[a], reservation[a], receipt[a])
    BY DEF LedgerInv, LedgersAgree
  <1>3. reservation[a].status # "NONE" => action[a] \in {"APPROVED", "EXECUTED", "EXPIRED"}
    BY DEF LedgerInv, ReservedWasApproved
  <1>4. CASE Kept(a)
    BY <1>2, <1>4 DEF Kept
  <1>5. CASE Judged(a)
    BY <1>2, <1>5 DEF Judged
  <1>6. CASE Reserves(a)
    BY <1>6 DEF Reserves, StartedReservation, FinalStates, SuccessStates
  <1>7. CASE Succeeds(a)
    BY <1>7, P2PConstants DEF Succeeds
  <1>8. CASE Closes(a)
    BY <1>2, <1>8 DEF Closes, Unsettled, SuccessStates
  <1>9. CASE Splits(a)
    BY <1>2, <1>9 DEF Splits, Unsettled, SuccessStates, FinalStates
  <1> QED
    BY <1>1, <1>4, <1>5, <1>6, <1>7, <1>8, <1>9 DEF RowStep

LEMMA ReachedStep ==
    ASSUME LedgerInv, [Next]_vars
    PROVE  SuccessIsReached'
  <1>0. ASSUME NEW a \in Actions, receipt'[a].state \in SuccessStates
        PROVE  \E n \in DocNames : n = receipt'[a].target /\ Reached(a, n)'
    <2>1. RowStep(a)
      BY RowsMove DEF LedgerInv
    <2>2. CASE receipt'[a] = receipt[a]
      <3>1. receipt[a].target # NoName /\ Reached(a, receipt[a].target)
        BY <1>0, <2>2 DEF LedgerInv, SuccessIsReached
      <3>2. receipt[a].target \in DocNames
        BY <3>1 DEF LedgerInv, TypeInv, TypeOK, Receipts, TargetNames
      <3> QED
        BY <2>2, <3>1, <3>2, ReachedLasts DEF LedgerInv
    <2>3. CASE Kept(a) \/ Judged(a) \/ Reserves(a)
      BY <2>2, <2>3 DEF Kept, Judged, Reserves
    <2>4. CASE Succeeds(a)
      BY <2>4 DEF Succeeds
    <2>5. CASE Closes(a)
      BY <1>0, <2>5 DEF Closes, SuccessStates
    <2>6. CASE Splits(a)
      <3>1. receipt'[a].state # "MANUAL_INTERVENTION"
        BY <1>0 DEF SuccessStates
      <3>2. PICK n \in DocNames : /\ receipt'[a] = [state |-> "RECONCILED_SUCCESS", target |-> n]
                                  /\ Reached(a, n)'
        BY <2>6, <3>1 DEF Splits
      <3> QED
        BY <3>2
    <2> QED
      BY <2>1, <2>3, <2>4, <2>5, <2>6 DEF RowStep
  <1>1. ASSUME NEW a \in Actions, receipt'[a].state \in SuccessStates
        PROVE  receipt'[a].target # NoName /\ Reached(a, receipt[a].target)'
    <2>1. PICK n \in DocNames : n = receipt'[a].target /\ Reached(a, n)'
      BY <1>0, <1>1
    <2> QED
      BY <2>1, P2PConstants DEF Reached
  <1> QED
    BY <1>1 DEF SuccessIsReached

\* Closed Actions stay closed.
LEMMA ClosedStay ==
    ASSUME LedgerInv, [Next]_vars, NEW a \in Actions, action[a] \in {"EXECUTED", "EXPIRED"}
    PROVE  action'[a] = action[a]
  BY RowsMove DEF LedgerInv, RowStep, Kept, Judged, Reserves, Succeeds, Closes, Splits

LEMMA SnapshotsLastStep ==
    ASSUME LedgerInv, [Next]_vars
    PROVE  SnapshotsLast'
  <1> SUFFICES ASSUME NEW q \in Requests, pc'[q] \in Loaded
               PROVE  /\ snap'[q].action \in {"EXECUTED", "EXPIRED"} => action'[act'[q]] = snap'[q].action
                      /\ snap'[q].reservation.status # "NONE" =>
                            snap'[q].action \in {"APPROVED", "EXECUTED", "EXPIRED"}
                      /\ snap'[q].readBack =>
                            \E a \in Actions, n \in DocNames :
                               a = act'[q] /\ n = TargetOf(a, snap'[q].reservation) /\ Reached(a, n)'
    BY P2PConstants DEF SnapshotsLast, Reached, TargetOf
  <1>1. RequestStep(q)
    BY RequestsMove DEF LedgerInv
  <1>2. CASE Stays(q)
    <2>1. pc[q] \in Loaded /\ pc[q] # "idle"
      BY <1>2 DEF Stays, Loaded, Handlers
    <2>2. PICK a \in Actions : a = act[q]
      BY <2>1 DEF LedgerInv, TypeInv, RequestOK
    <2>3. snap'[q] = snap[q] /\ act'[q] = a
      BY <1>2, <2>2 DEF Stays
    <2>4. /\ snap[q].action \in {"EXECUTED", "EXPIRED"} => action[a] = snap[q].action
          /\ snap[q].reservation.status # "NONE" => snap[q].action \in {"APPROVED", "EXECUTED", "EXPIRED"}
          /\ snap[q].readBack =>
                TargetOf(a, snap[q].reservation) # NoName /\ Reached(a, TargetOf(a, snap[q].reservation))
      BY <2>1, <2>2 DEF LedgerInv, SnapshotsLast
    <2>5. TargetOf(a, snap[q].reservation) \in TargetNames
      BY P2PConstants DEF LedgerInv, TypeInv, TypeOK, Snapshots, Reservations, TargetNames, TargetOf
    <2>6. snap[q].readBack =>
             \E n \in DocNames : n = TargetOf(a, snap[q].reservation) /\ Reached(a, n)'
      BY <2>4, <2>5, ReachedLasts DEF LedgerInv, TargetNames
    <2> QED
      BY <2>3, <2>4, <2>6, ClosedStay
  <1>3. CASE Opens(q)
    <2>1. PICK a \in Actions : act'[q] = a /\ snap'[q] = Snapshot(a) /\ UNCHANGED ledgerVars
      BY <1>3 DEF Opens
    <2>2. /\ snap'[q].action = action[a] /\ snap'[q].reservation = reservation[a]
          /\ snap'[q].readBack = (KnownTarget(a) # NoName /\ ReadBack(a, KnownTarget(a)))
      BY <2>1 DEF Snapshot
    <2>3. KnownTarget(a) = TargetOf(a, reservation[a]) /\ KnownTarget(a) \in TargetNames
      BY KnownTargetType DEF KnownTarget, TargetOf, LedgerInv, TypeInv
    <2>4. snap'[q].readBack =>
             \E n \in DocNames : n = TargetOf(a, reservation[a]) /\ Reached(a, n)'
      BY <2>2, <2>3, ReadBackReached, ReachedLasts DEF LedgerInv, TargetNames
    <2>5. action'[a] = action[a]
      BY <2>1 DEF ledgerVars
    <2> QED
      BY <2>1, <2>2, <2>4, <2>5 DEF LedgerInv, ReservedWasApproved
  <1>4. CASE pc'[q] = "idle" \/ Claims(q) \/ Fails(q)
    BY <1>4 DEF Claims, Fails, Loaded, Handlers
  <1> QED
    BY <1>1, <1>2, <1>3, <1>4 DEF RequestStep

LEMMA CommittedStep ==
    ASSUME LedgerInv, [Next]_vars
    PROVE  CommittedIsReal'
  <1>1. ASSUME NEW q \in Requests, pc'[q] = "t2b"
        PROVE  \E a \in Actions, n \in DocNames : a = act'[q] /\ n = target'[q] /\ Reached(a, n)'
    <2>1. RequestStep(q)
      BY RequestsMove DEF LedgerInv
    <2>2. CASE Stays(q)
      <3>1. PICK a \in Actions, n \in DocNames : a = act[q] /\ n = target[q] /\ Reached(a, n)
        BY <1>1, <2>2 DEF Stays, LedgerInv, TypeInv, RequestOK, CommittedIsReal
      <3> QED
        BY <2>2, <3>1, ReachedLasts DEF Stays, LedgerInv
    <2>3. CASE Opens(q)
      BY <1>1, <2>3 DEF Opens, Handlers
    <2> QED
      BY <1>1, <2>1, <2>2, <2>3 DEF RequestStep, Claims, Fails
  <1> QED
    BY <1>1 DEF CommittedIsReal, Reached

LEMMA LedgerInvariance == Spec => []LedgerInv
  <1>1. Init => LedgerInv
    <2> SUFFICES ASSUME Init PROVE LedgerInv
      OBVIOUS
    <2>1. TypeInv
      BY InitialTypes
    <2>2. ReservedWasApproved /\ LedgersAgree /\ SuccessIsReached
      BY DEF Init, ReservedWasApproved, LedgersAgree, SuccessIsReached, NoReservation, NoReceipt,
             FinalStates, SuccessStates
    <2>3. SnapshotsLast /\ CommittedIsReal
      BY DEF Init, SnapshotsLast, CommittedIsReal, Loaded, Handlers
    <2> QED
      BY <2>1, <2>2, <2>3 DEF LedgerInv
  <1>2. LedgerInv /\ [Next]_vars => LedgerInv'
    BY TypeStep, ReservedStep, AgreeStep, ReachedStep, SnapshotsLastStep, CommittedStep DEF LedgerInv
  <1> QED
    BY <1>1, <1>2, PTL DEF Spec

\* The rows T2, T3 and reconciliation write one by one agree, whatever commits
\* in between: an Action is EXECUTED exactly when its reservation is a success,
\* and a settled reservation has the Receipt of the same outcome and target.
THEOREM P2PLedgersAlwaysAgree == Spec => []LedgersAgree
  <1>1. LedgerInv => LedgersAgree
    BY DEF LedgerInv
  <1> QED
    BY <1>1, LedgerInvariance, PTL

\* A recorded success is true of the ERP document it names, also when a
\* reconciliation said so from an older snapshot and people moved the
\* document on by hand.
THEOREM P2PSuccessesAreReal == Spec => []SuccessIsReal
  <1>1. LedgerInv => SuccessIsReal
    BY ReachedIsReal DEF LedgerInv
  <1> QED
    BY <1>1, LedgerInvariance, PTL

\* A settled reservation, its Receipt and its Action never change again.
LEMMA FrozenStep ==
    ASSUME LedgerInv, [Next]_vars, NEW a \in Actions, reservation[a].status \in FinalStates
    PROVE  UNCHANGED <<reservation[a], receipt[a], action[a]>>
  <1>1. /\ action[a] \in {"EXECUTED", "EXPIRED"}
        /\ reservation[a].status \notin Unsettled /\ reservation[a] # NoReservation
    BY DEF LedgerInv, ReservedWasApproved, FinalStates, SuccessStates, Unsettled, NoReservation
  <1>2. RowStep(a)
    BY RowsMove DEF LedgerInv
  <1> QED
    BY <1>1, <1>2 DEF RowStep, Kept, Judged, Reserves, Succeeds, Closes, Splits

\* Nothing touches a settled execution: not a late T2 or T3, not a second
\* reconciliation, not another goal.
THEOREM P2PSettledStaysFrozen == Spec => SettledIsFrozen
  <1>1. LedgerInv /\ [Next]_vars =>
          [\A a \in Actions :
             reservation[a].status \in FinalStates =>
                UNCHANGED <<reservation[a], receipt[a], action[a]>>]_vars
    BY FrozenStep
  <1> QED
    BY <1>1, LedgerInvariance, PTL DEF Spec, SettledIsFrozen

-----------------------------------------------------------------------------
(* An approved Action takes effect at most once. *)

LEMMA NeverUnreserved ==
    ASSUME LedgerInv, [Next]_vars, NEW a \in Actions, reservation'[a].status = "NONE"
    PROVE  reservation[a].status = "NONE"
  <1>1. RowStep(a)
    BY RowsMove DEF LedgerInv
  <1>2. CASE Kept(a) \/ Judged(a)
    BY <1>2 DEF Kept, Judged
  <1>3. CASE Reserves(a)
    BY <1>3 DEF Reserves, StartedReservation
  <1>4. CASE Succeeds(a)
    BY <1>4 DEF Succeeds, SuccessStates
  <1>5. CASE Closes(a) \/ Splits(a)
    BY <1>5 DEF Closes, Splits
  <1> QED
    BY <1>1, <1>2, <1>3, <1>4, <1>5 DEF RowStep

\* Only a request at t2 applies an effect, and it leaves t2 with it.
LEMMA EffectStep ==
    ASSUME TypeInv, [Next]_vars
    PROVE  \/ applied' = applied
           \/ \E p \in Requests :
                 /\ pc[p] = "t2" /\ pc'[p] \notin Writing /\ act[p] \in Actions
                 /\ applied' = [applied EXCEPT ![act[p]] = @ + 1]
  <1>1. ASSUME NEW p \in Requests, Writes(p)
        PROVE  /\ pc[p] = "t2" /\ pc'[p] \notin Writing /\ act[p] \in Actions
               /\ applied' = [applied EXCEPT ![act[p]] = @ + 1]
    <2>1. pc[p] = "t2" /\ applied' = [applied EXCEPT ![act[p]] = @ + 1]
      BY <1>1 DEF Writes, ControllerWrite
    <2>2. pc'[p] \in {"idle", "t2b"}
      BY <1>1 DEF Writes, T2Commit, T2Write, Finish, TypeInv, TypeOK
    <2> QED
      BY <2>1, <2>2 DEF Writing, TypeInv, RequestOK
  <1> QED
    BY <1>1, ErpStep

\* Where a request that executes came from.
LEMMA ExecutingStep ==
    ASSUME TypeInv, [Next]_vars, NEW q \in Requests, pc'[q] \in Executing
    PROVE  /\ act[q] \in Actions /\ act'[q] = act[q]
           /\ \/ pc[q] \in Executing /\ (pc'[q] \in Writing => pc[q] \in Writing)
              \/ Claims(q)
  <1>1. RequestStep(q)
    BY RequestsMove
  <1>2. CASE Stays(q)
    BY <1>2 DEF Stays, Executing, TypeInv, RequestOK
  <1>3. CASE Opens(q)
    BY <1>3 DEF Opens, Executing, Writing, Handlers, TypeInv, RequestOK
  <1>4. CASE Claims(q)
    BY <1>4 DEF Claims, TypeInv, RequestOK
  <1>5. CASE Fails(q)
    BY <1>5 DEF Fails, Executing, Writing, TypeInv, RequestOK
  <1> QED
    BY <1>1, <1>2, <1>3, <1>4, <1>5 DEF RequestStep, Executing

LEMMA SingleWriterStep ==
    ASSUME LedgerInv, SingleWriter, [Next]_vars
    PROVE  SingleWriter'
  <1>0. TypeInv /\ Writing \subseteq Executing /\ applied \in [Actions -> Nat]
    BY DEF LedgerInv, TypeInv, TypeOK, Writing, Executing
  <1>1. ASSUME NEW q \in Requests, pc'[q] \in Executing
        PROVE  reservation'[act'[q]].status # "NONE"
    <2>1. CASE pc[q] \in Executing
      BY <1>0, <1>1, <2>1, ExecutingStep, NeverUnreserved DEF SingleWriter
    <2>2. CASE Claims(q)
      BY <2>2 DEF Claims, StartedReservation
    <2> QED
      BY <1>0, <1>1, <2>1, <2>2, ExecutingStep
  <1>2. ASSUME NEW q \in Requests, pc'[q] \in Writing
        PROVE  applied[act[q]] = 0 /\ \A p \in Requests : pc[p] = "t2" /\ act[p] = act[q] => p = q
    <2>1. CASE pc[q] \in Writing
      BY <2>1 DEF SingleWriter, Writing
    <2>2. CASE Claims(q)
      <3>1. act[q] \in Actions /\ reservation[act[q]].status = "NONE"
        BY <1>0, <1>2, <2>2, ExecutingStep DEF Claims, NoReservation
      <3>2. \A p \in Requests : pc[p] = "t2" => reservation[act[p]].status # "NONE"
        BY DEF SingleWriter, Executing
      <3> QED
        BY <3>1, <3>2 DEF SingleWriter
    <2> QED
      BY <1>0, <1>2, <2>1, <2>2, ExecutingStep
  <1>3. ASSUME NEW q \in Requests, pc'[q] \in Writing
        PROVE  applied'[act'[q]] = 0
    <2>1. act'[q] = act[q] /\ act[q] \in Actions
      BY <1>0, <1>3, ExecutingStep
    <2> QED
      BY <1>0, <1>2, <1>3, <2>1, EffectStep
  <1>4. ASSUME NEW p \in Requests, NEW q \in Requests,
               pc'[p] \in Writing, pc'[q] \in Writing, act'[p] = act'[q], p # q
        PROVE  FALSE
    <2>1. /\ act'[p] = act[p] /\ act'[q] = act[q] /\ act[p] \in Actions
          /\ pc[p] \in Writing \/ Claims(p)
          /\ pc[q] \in Writing \/ Claims(q)
      BY <1>0, <1>4, ExecutingStep
    <2>2. ASSUME NEW x \in Requests, NEW y \in Requests, Claims(x), act[y] = act[x], pc[y] \in Writing
          PROVE  FALSE
      <3>1. reservation[act[x]].status = "NONE"
        BY <2>2 DEF Claims, NoReservation
      <3> QED
        BY <1>0, <2>2, <3>1 DEF SingleWriter
    <2>3. ~(Claims(p) /\ Claims(q))
      BY <1>4 DEF Claims, Stays
    <2> QED
      BY <1>4, <2>1, <2>2, <2>3 DEF SingleWriter
  <1>5. ASSUME NEW a \in Actions, reservation'[a].status = "NONE"
        PROVE  applied'[a] = 0
    <2>1. reservation[a].status = "NONE" /\ applied[a] = 0
      BY <1>5, NeverUnreserved DEF SingleWriter
    <2>2. \A p \in Requests : pc[p] = "t2" => act[p] # a
      BY <2>1 DEF SingleWriter, Executing
    <2> QED
      BY <1>0, <2>1, <2>2, EffectStep
  <1> QED
    BY <1>1, <1>3, <1>4, <1>5 DEF SingleWriter

LEMMA OneEffectStep ==
    ASSUME LedgerInv, SingleWriter, AtMostOneEffect, [Next]_vars
    PROVE  AtMostOneEffect'
  <1>1. applied \in [Actions -> Nat] /\ TypeInv
    BY DEF LedgerInv, TypeInv, TypeOK
  <1>2. ASSUME NEW p \in Requests, pc[p] = "t2"
        PROVE  applied[act[p]] = 0
    BY <1>2 DEF SingleWriter, Writing
  <1> QED
    BY <1>1, <1>2, EffectStep DEF AtMostOneEffect

LEMMA WriterInvariance == Spec => [](SingleWriter /\ AtMostOneEffect)
  <1>1. Init => SingleWriter /\ AtMostOneEffect
    BY DEF Init, SingleWriter, AtMostOneEffect, Executing, Writing
  <1>2. LedgerInv /\ SingleWriter /\ AtMostOneEffect /\ [Next]_vars => SingleWriter' /\ AtMostOneEffect'
    BY SingleWriterStep, OneEffectStep
  <1> QED
    BY <1>1, <1>2, LedgerInvariance, PTL DEF Spec

\* One approval converts, submits or cancels at most once, whatever crashes,
\* lost answers, controller commits and repeated calls happen on the way.
THEOREM P2PAppliedAtMostOnce == Spec => []AtMostOneEffect
  BY WriterInvariance, PTL

LEMMA LostEffectStep ==
    ASSUME ~ControllerMayCommit, LedgerInv, NoLostEffect, [Next]_vars
    PROVE  NoLostEffect'
  <1>0. /\ applied \in [Actions -> Nat] /\ TypeInv
        /\ reservation \in [Actions -> Reservations]
    BY DEF LedgerInv, TypeInv, TypeOK
  <1>1. ASSUME NEW a \in Actions, applied[a] > 0
        PROVE  reservation'[a].status = "SUCCEEDED"
    <2>1. reservation[a].status = "SUCCEEDED"
      BY <1>1 DEF NoLostEffect
    <2>2. reservation'[a] = reservation[a]
      BY <2>1, FrozenStep DEF FinalStates, SuccessStates
    <2> QED
      BY <2>1, <2>2
  <1>2. ASSUME NEW p \in Requests, Writes(p)
        PROVE  /\ act[p] \in Actions /\ reservation'[act[p]].status = "SUCCEEDED"
               /\ \A a \in Actions : a # act[p] => applied'[a] = applied[a]
    <2>1. PICK n \in DocNames : T2Commit(p, n)
      BY <1>2 DEF Writes, T2Write
    <2>2. act[p] \in Actions
      BY <2>1, <1>0 DEF T2Commit, TypeInv, RequestOK
    <2>3. reservation'[act[p]] = [status |-> "SUCCEEDED", target |-> n]
      BY <1>0, <2>1, <2>2 DEF T2Commit, RecordSuccess
    <2>4. \A a \in Actions : a # act[p] => applied'[a] = applied[a]
      BY <1>0, <2>1 DEF T2Commit, ControllerWrite
    <2> QED
      BY <2>2, <2>3, <2>4
  <1> QED
    BY <1>0, <1>1, <1>2, ErpStep DEF NoLostEffect

\* With controllers that leave the commit to the executor, no failed, uncertain
\* or abandoned execution leaves a changed document behind: every effect is
\* recorded as a success by the transaction that made it.
THEOREM P2PNoEffectIsLost ==
    ASSUME ~ControllerMayCommit
    PROVE  Spec => []NoLostEffect
  <1>1. Init => NoLostEffect
    BY DEF Init, NoLostEffect
  <1>2. LedgerInv /\ NoLostEffect /\ [Next]_vars => NoLostEffect'
    BY LostEffectStep
  <1> QED
    BY <1>1, <1>2, LedgerInvariance, PTL DEF Spec

-----------------------------------------------------------------------------
(* Executions do not wait for each other. *)

\* Two locks of one Action are on the same document, so their rows tell them
\* apart.
LEMMA LocksDiffer ==
    ASSUME NEW a \in Actions, NEW l \in LockNames(a), NEW m \in LockNames(a), l # m
    PROVE  l[2] # m[2]
  BY DEF LockNames

\* Named locks are taken one by one, kept, or all released.
HeldStep(q) ==
    \/ held'[q] = {} /\ pc'[q] \in {"idle", "failed"}
    \/ act'[q] = act[q] /\ held'[q] = held[q]
    \/ held[q] = {} /\ held'[q] = {} /\ pc[q] = "idle"
    \/ /\ act'[q] = act[q] /\ act[q] \in Actions
       /\ \E l \in LockNames(act[q]) :
             NextLock(q, l) /\ Free(l) /\ held' = [held EXCEPT ![q] = held[q] \cup {l}]

LEMMA LocksMove ==
    ASSUME TypeInv, [Next]_vars
    PROVE  \A q \in Requests : HeldStep(q)
  <1> USE DEF ledgerVars, erpVars, requestVars
  <1>0. /\ act \in [Requests -> Actions \cup {NoAction}]
        /\ held \in [Requests -> SUBSET (DocNames \X Nat)] /\ pc \in [Requests -> Places]
    BY DEF TypeInv, TypeOK, RequestOK
  <1>1. CASE UNCHANGED <<act, held>>
    BY <1>1 DEF HeldStep
  <1>2. ASSUME NEW p \in Requests, Finish(p)
        PROVE  \A q \in Requests : HeldStep(q)
    BY <1>0, <1>2 DEF HeldStep, Finish
  <1>3. ASSUME NEW p \in Requests, NEW a \in Actions, NEW handler \in Handlers, Begin(p, a, handler)
        PROVE  \A q \in Requests : HeldStep(q)
    <2>1. pc[p] = "idle" /\ held[p] = {} /\ held' = held /\ act' = [act EXCEPT ![p] = a]
      BY <1>3 DEF Begin, OpenTransaction, TypeInv, RequestOK, Executing
    <2> QED
      BY <1>0, <2>1 DEF HeldStep
  <1>4. ASSUME NEW p \in Requests, NEW l \in LockNames(act[p]), AcquireLock(p, l)
        PROVE  \A q \in Requests : HeldStep(q)
    <2>1. /\ act[p] \in Actions /\ act' = act /\ NextLock(p, l) /\ Free(l)
          /\ held' = [held EXCEPT ![p] = held[p] \cup {l}]
      BY <1>4 DEF AcquireLock, TypeInv, RequestOK
    <2> QED
      BY <1>0, <1>4, <2>1 DEF HeldStep
  <1>5. ASSUME NEW p \in Requests, NEW outcome, NEW n, T2Fail(p, outcome, n)
        PROVE  \A q \in Requests : HeldStep(q)
    <2>1. /\ act' = act /\ (held' = [held EXCEPT ![p] = held[p]] \/ held' = [held EXCEPT ![p] = {}])
          /\ pc' = [pc EXCEPT ![p] = "failed"]
      BY <1>5 DEF T2Fail
    <2> QED
      BY <1>0, <2>1 DEF HeldStep
  <1>6. ASSUME NEW p \in Requests, T2Begin(p) \/ T3Begin(p)
        PROVE  UNCHANGED <<act, held>>
    <2>1. act' = [act EXCEPT ![p] = act[p]] /\ held' = held
      BY <1>6 DEF T2Begin, T3Begin, OpenTransaction
    <2> QED
      BY <1>0, <2>1
  <1>7. ASSUME NEW p \in Requests, Execute(p)
        PROVE  \A q \in Requests : HeldStep(q)
    <2>1. CASE Replay(p) \/ (\E n \in DocNames : T2Commit(p, n)) \/ T2Record(p) \/ T3Commit(p)
      BY <2>1, <1>2 DEF Replay, T2Commit, T2Record, T3Commit
    <2>2. CASE T1Reserve(p) \/ \E n \in DocNames : T2Write(p, n)
      BY <2>2, <1>1 DEF T1Reserve, T2Write
    <2> QED
      BY <1>7, <2>1, <2>2, <1>1, <1>4, <1>5, <1>6 DEF Execute
  <1>8. ASSUME NEW p \in Requests,
               \/ \E verified \in BOOLEAN : Reconcile(p, verified) \/ ReconcileActionConflict(p, verified)
               \/ ReconcileRunConflict(p)
               \/ \E terminal \in {"CANCELLED", "EXPIRED"} : CancelRun(p, terminal)
               \/ ConfirmGoal(p)
               \/ Abandon(p)
        PROVE  \A q \in Requests : HeldStep(q)
    BY <1>8, <1>2 DEF Reconcile, ReconcileActionConflict, ReconcileRunConflict, CancelRun, ConfirmGoal, Abandon
  <1>9. ASSUME \/ \E a \in Actions : Propose(a) \/ \E decision \in {"APPROVED", "DECLINED"} : Decide(a, decision)
               \/ \E r \in Runs : RevokeRun(r)
               \/ \E n \in DocNames : DeskSubmit(n) \/ DeskCancel(n)
               \/ UNCHANGED vars
        PROVE  \A q \in Requests : HeldStep(q)
    BY <1>9, <1>1 DEF Propose, Decide, RevokeRun, DeskSubmit, DeskCancel, vars
  <1> QED
    BY <1>3, <1>7, <1>8, <1>9 DEF Next

LEMMA AscendStep ==
    ASSUME TypeInv, LocksAscend, [Next]_vars
    PROVE  LocksAscend'
  <1> SUFFICES ASSUME NEW q \in Requests, NEW k \in held'[q], NEW m \in Wanted(q)'
               PROVE  k[2] < m[2]
    BY DEF LocksAscend
  <1>0. m \notin held'[q] /\ (act'[q] = act[q] => m \in LockNames(act[q]))
    BY DEF Wanted, LockNames, RowsWanted
  <1>1. HeldStep(q)
    BY LocksMove
  <1>2. CASE act'[q] = act[q] /\ held'[q] = held[q]
    BY <1>0, <1>2 DEF LocksAscend, Wanted
  <1>3. CASE act[q] \in Actions /\ act'[q] = act[q] /\
             \E l \in LockNames(act[q]) : NextLock(q, l) /\ held'[q] = held[q] \cup {l}
    <2>1. PICK l \in LockNames(act[q]) : NextLock(q, l) /\ held'[q] = held[q] \cup {l}
      BY <1>3
    <2>2. m \in Wanted(q) /\ m \in LockNames(act[q]) /\ m # l
      BY <1>0, <1>3, <2>1 DEF Wanted
    <2>3. CASE k \in held[q]
      BY <2>2, <2>3 DEF LocksAscend
    <2>4. CASE k = l
      <3>1. l[2] <= m[2] /\ l[2] # m[2]
        BY <1>3, <2>1, <2>2, LocksDiffer DEF NextLock
      <3>2. l[2] \in Nat /\ m[2] \in Nat
        BY <1>3, <2>2, LockNamesType
      <3> QED
        BY <2>4, <3>1, <3>2
    <2> QED
      BY <2>1, <2>3, <2>4
  <1>4. held \in [Requests -> SUBSET (DocNames \X Nat)]
    BY DEF TypeInv, RequestOK
  <1> QED
    BY <1>1, <1>2, <1>3, <1>4 DEF HeldStep

LEMMA AscendingLocksHaveNoCycle ==
    ASSUME TypeInv, LocksAscend
    PROVE  NoLockCycle
  <1> SUFFICES ASSUME NEW p \in Requests, NEW q \in Requests, WaitsFor(p, q), WaitsFor(q, p)
               PROVE  FALSE
    BY DEF NoLockCycle
  <1>1. PICK l \in held[q] : l \in Wanted(p)
    BY DEF WaitsFor, NextLock
  <1>2. PICK m \in held[p] : m \in Wanted(q)
    BY DEF WaitsFor, NextLock
  <1>3. m[2] < l[2] /\ l[2] < m[2]
    BY <1>1, <1>2 DEF LocksAscend
  <1>4. l[2] \in Nat /\ m[2] \in Nat
    BY <1>1, <1>2 DEF TypeInv, RequestOK
  <1> QED
    BY <1>3, <1>4

\* However many rows, documents and executions there are, no two executions
\* wait for each other's named locks: the rows of a source are locked in order.
THEOREM LocksNeverCycle == Spec => []NoLockCycle
  <1>1. Init => LocksAscend
    BY DEF Init, LocksAscend
  <1>2. TypeInv /\ LocksAscend /\ [Next]_vars => LocksAscend'
    BY AscendStep
  <1>3. TypeInv /\ LocksAscend => NoLockCycle
    BY AscendingLocksHaveNoCycle
  <1> QED
    BY <1>1, <1>2, <1>3, P2PTypeCorrect, PTL DEF Spec

-----------------------------------------------------------------------------
(* An uncertain result freezes the Run. *)

\* The requests that may change a reservation.
LEMMA ReservationMoves ==
    ASSUME TypeInv, [Next]_vars, NEW a \in Actions, reservation'[a] # reservation[a]
    PROVE  \E p \in Requests :
              /\ act[p] = a
              /\ \/ T1Reserve(p)
                 \/ \E n \in DocNames : RecordSuccess(p, n)
                 \/ T3Commit(p)
                 \/ \E verified \in BOOLEAN : Reconcile(p, verified) \/ ReconcileActionConflict(p, verified)
                 \/ ReconcileRunConflict(p)
  <1> USE DEF ledgerVars, erpVars, requestVars
  <1>0. reservation \in [Actions -> Reservations]
    BY DEF TypeInv, TypeOK
  <1>1. ASSUME NEW p \in Requests, T1Reserve(p)
        PROVE  act[p] = a
    BY <1>0, <1>1 DEF T1Reserve
  <1>2. ASSUME NEW p \in Requests, NEW n \in DocNames, RecordSuccess(p, n)
        PROVE  act[p] = a
    BY <1>0, <1>2 DEF RecordSuccess
  <1>3. ASSUME NEW p \in Requests, T3Commit(p)
        PROVE  act[p] = a
    BY <1>0, <1>3 DEF T3Commit
  <1>4. ASSUME NEW p \in Requests, NEW verified \in BOOLEAN,
               Reconcile(p, verified) \/ ReconcileActionConflict(p, verified) \/ ReconcileRunConflict(p)
        PROVE  act[p] = a
    BY <1>0, <1>4 DEF Reconcile, ReconcileActionConflict, ReconcileRunConflict
  <1>5. ASSUME NEW p \in Requests, NEW n \in DocNames, T2Commit(p, n)
        PROVE  RecordSuccess(p, n)
    BY <1>5 DEF T2Commit
  <1>6. ASSUME NEW p \in Requests, T2Record(p)
        PROVE  \E n \in DocNames : RecordSuccess(p, n)
    BY <1>6 DEF T2Record, TypeInv, RequestOK
  <1>7. ASSUME NEW p \in Requests, Execute(p),
               ~T1Reserve(p), \A n \in DocNames : ~T2Commit(p, n), ~T2Record(p), ~T3Commit(p)
        PROVE  UNCHANGED reservation
    BY <1>7 DEF Execute, Replay, AcquireLock, T2Begin, T2Write, T2Fail, T3Begin
  <1>8. ASSUME NEW p \in Requests,
               \/ \E b \in Actions, handler \in Handlers : Begin(p, b, handler)
               \/ \E terminal \in {"CANCELLED", "EXPIRED"} : CancelRun(p, terminal)
               \/ ConfirmGoal(p)
               \/ Abandon(p)
        PROVE  UNCHANGED reservation
    BY <1>8 DEF Begin, CancelRun, ConfirmGoal, Abandon
  <1>9. ASSUME \/ \E b \in Actions : Propose(b) \/ \E decision \in {"APPROVED", "DECLINED"} : Decide(b, decision)
               \/ \E r \in Runs : RevokeRun(r)
               \/ \E n \in DocNames : DeskSubmit(n) \/ DeskCancel(n)
               \/ UNCHANGED vars
        PROVE  UNCHANGED reservation
    BY <1>9 DEF Propose, Decide, RevokeRun, DeskSubmit, DeskCancel, vars
  <1> QED
    BY <1>1, <1>2, <1>3, <1>4, <1>5, <1>6, <1>7, <1>8, <1>9 DEF Next

LEMMA FreezeRunLater ==
    ASSUME TypeInv, NEW p \in Requests, NEW uncertain, FreezeRun(p, uncertain)
    PROVE  \A r \in Runs : RunLater(run[r], run'[r])
  <1>0. run \in [Runs -> RunRows]
    BY DEF TypeInv, TypeOK
  <1>1. CASE UNCHANGED run
    BY <1>0, <1>1 DEF RunLater, RunRows
  <1>2. CASE /\ snap[p].run.state = "EXECUTING" /\ RunFresh(p)
             /\ run' = [run EXCEPT ![RunOf[act[p]]].state = "RECONCILIATION_REQUIRED"]
    BY <1>0, <1>2 DEF RunLater, RunRows, RunFresh
  <1> QED
    BY <1>1, <1>2 DEF FreezeRun

\* A Run row only moves on.
LEMMA RunStep ==
    ASSUME TypeInv, [Next]_vars
    PROVE  \A r \in Runs : RunLater(run[r], run'[r])
  <1> USE DEF ledgerVars, erpVars, requestVars
  <1>0. run \in [Runs -> RunRows]
    BY DEF TypeInv, TypeOK
  <1>1. CASE UNCHANGED run
    BY <1>0, <1>1 DEF RunLater, RunRows
  <1>2. ASSUME NEW p \in Requests, T1Reserve(p)
        PROVE  \A r \in Runs : RunLater(run[r], run'[r])
    <2>1. CASE /\ RunFresh(p) /\ snap[p].run.state \in {"PROPOSED", "AWAITING_APPROVAL"}
               /\ run' = [run EXCEPT ![RunOf[act[p]]].state = "EXECUTING"]
      BY <1>0, <2>1 DEF RunLater, RunRows, RunFresh
    <2> QED
      BY <1>1, <1>2, <2>1 DEF T1Reserve, MoveRunToExecuting, PreExecuteRecheck, RunTakesSteps
  <1>3. ASSUME NEW p \in Requests, T3Commit(p)
        PROVE  \A r \in Runs : RunLater(run[r], run'[r])
    BY <1>3, FreezeRunLater DEF T3Commit
  <1>4. ASSUME NEW p \in Requests, NEW verified \in BOOLEAN, Reconcile(p, verified)
        PROVE  \A r \in Runs : RunLater(run[r], run'[r])
    BY <1>4, FreezeRunLater DEF Reconcile
  <1>5. ASSUME NEW p \in Requests, NEW terminal \in {"CANCELLED", "EXPIRED"}, CancelRun(p, terminal)
        PROVE  \A r \in Runs : RunLater(run[r], run'[r])
    BY <1>0, <1>5 DEF CancelRun, RunLater, RunRows
  <1>6. ASSUME NEW p \in Requests, ConfirmGoal(p)
        PROVE  \A r \in Runs : RunLater(run[r], run'[r])
    BY <1>0, <1>6 DEF ConfirmGoal, RunLater, RunRows
  <1>7. ASSUME NEW s \in Runs, RevokeRun(s)
        PROVE  \A r \in Runs : RunLater(run[r], run'[r])
    BY <1>0, <1>7 DEF RevokeRun, RunLater, RunRows
  <1>8. ASSUME NEW p \in Requests, Execute(p), ~T1Reserve(p), ~T3Commit(p)
        PROVE  UNCHANGED run
    BY <1>8 DEF Execute, Replay, AcquireLock, T2Begin, T2Commit, RecordSuccess, T2Write, T2Record, T2Fail, T3Begin
  <1>9. ASSUME NEW p \in Requests,
               \/ \E b \in Actions, handler \in Handlers : Begin(p, b, handler)
               \/ \E verified \in BOOLEAN : ReconcileActionConflict(p, verified)
               \/ ReconcileRunConflict(p)
               \/ Abandon(p)
        PROVE  UNCHANGED run
    BY <1>9 DEF Begin, ReconcileActionConflict, ReconcileRunConflict, Abandon
  <1>10. ASSUME \/ \E b \in Actions : Propose(b) \/ \E decision \in {"APPROVED", "DECLINED"} : Decide(b, decision)
                \/ \E n \in DocNames : DeskSubmit(n) \/ DeskCancel(n)
                \/ UNCHANGED vars
         PROVE  UNCHANGED run
    BY <1>10 DEF Propose, Decide, DeskSubmit, DeskCancel, vars
  <1> QED
    BY <1>1, <1>2, <1>3, <1>4, <1>5, <1>6, <1>7, <1>8, <1>9, <1>10 DEF Next

LEMMA RunLaterTransitive ==
    ASSUME NEW x \in RunRows, NEW y \in RunRows, NEW z \in RunRows, RunLater(x, y), RunLater(y, z)
    PROVE  RunLater(x, z)
  <1>1. x.goal \in Nat /\ y.goal \in Nat /\ z.goal \in Nat
    BY P2PConstants DEF RunRows
  <1> QED
    BY <1>1 DEF RunLater

LEMMA RunsMoveOnStep ==
    ASSUME LedgerInv, RunsMoveOn, [Next]_vars
    PROVE  RunsMoveOn'
  <1>0. TypeInv /\ TypeInv' /\ run \in [Runs -> RunRows] /\ run' \in [Runs -> RunRows]
    BY TypeStep DEF LedgerInv, TypeInv, TypeOK
  <1>1. ASSUME NEW q \in Requests, pc'[q] \in Loaded
        PROVE  /\ RunLater(snap'[q].run, run'[RunOf[act'[q]]])
               /\ snap'[q].reservation.status # "NONE" =>
                     snap'[q].run.state \notin {"PROPOSED", "AWAITING_APPROVAL"}
               /\ \A x \in snap'[q].pending : RunOf[x[1]] = RunOf[act'[q]]
    <2>1. RequestStep(q)
      BY <1>0, RequestsMove
    <2>2. CASE Stays(q)
      <3>1. pc[q] \in Loaded /\ act'[q] = act[q] /\ snap'[q] = snap[q] /\ act[q] \in Actions
        BY <1>0, <1>1, <2>2 DEF Stays, Loaded, Handlers, TypeInv, RequestOK
      <3>2. snap[q].run \in RunRows /\ RunOf[act[q]] \in Runs
        BY <1>0, <3>1, P2PConstants DEF TypeInv, TypeOK, Snapshots
      <3>3. RunLater(snap[q].run, run[RunOf[act[q]]]) /\ RunLater(run[RunOf[act[q]]], run'[RunOf[act[q]]])
        BY <1>0, <3>1, <3>2, RunStep DEF RunsMoveOn
      <3>4. RunLater(snap[q].run, run'[RunOf[act[q]]])
        BY <1>0, <3>2, <3>3, RunLaterTransitive
      <3> QED
        BY <3>1, <3>4 DEF RunsMoveOn
    <2>3. CASE Opens(q)
      <3>1. PICK a \in Actions : act'[q] = a /\ snap'[q] = Snapshot(a) /\ run' = run
        BY <2>3 DEF Opens, ledgerVars
      <3>2. /\ snap'[q].run = run[RunOf[a]] /\ snap'[q].reservation = reservation[a]
            /\ \A x \in snap'[q].pending : RunOf[x[1]] = RunOf[a]
        BY <3>1 DEF Snapshot
      <3>3. RunLater(run[RunOf[a]], run[RunOf[a]])
        BY <1>0, P2PConstants DEF RunLater, RunRows
      <3> QED
        BY <3>1, <3>2, <3>3 DEF RunsMoveOn
    <2> QED
      BY <1>1, <2>1, <2>2, <2>3 DEF RequestStep, Claims, Fails, Loaded, Handlers
  <1>2. ASSUME NEW a \in Actions, reservation'[a].status # "NONE"
        PROVE  run'[RunOf[a]].state \notin {"PROPOSED", "AWAITING_APPROVAL"}
    <2>0. RunOf[a] \in Runs
      BY P2PConstants
    <2>1. CASE reservation[a].status # "NONE"
      BY <1>0, <2>0, <2>1, RunStep DEF RunsMoveOn, RunLater
    <2>2. CASE reservation[a].status = "NONE"
      <3>1. PICK p \in Requests : T1Reserve(p) /\ act[p] = a
        <4>1. ASSUME NEW q \in Requests, act[q] = a, NEW n \in DocNames, RecordSuccess(q, n)
              PROVE  FALSE
          BY <2>2, <4>1 DEF RecordSuccess, StartedReservation
        <4>2. ASSUME NEW q \in Requests, act[q] = a, T3Commit(q)
              PROVE  FALSE
          BY <2>2, <4>2 DEF T3Commit
        <4>3. ASSUME NEW q \in Requests, act[q] = a, ReconcileEntered(q)
              PROVE  FALSE
          BY <2>2, <4>3 DEF ReconcileEntered, Unsettled
        <4>4. reservation'[a] # reservation[a]
          BY <1>2, <2>2
        <4> QED
          BY <1>0, <4>1, <4>2, <4>3, <4>4, ReservationMoves
             DEF Reconcile, ReconcileActionConflict, ReconcileRunConflict
      <3>2. CASE snap[p].run.state = "EXECUTING" /\ run' = run
        BY <3>1, <3>2 DEF T1Reserve, RunsMoveOn, RunLater, Loaded, Handlers
      <3>3. CASE run' = [run EXCEPT ![RunOf[a]].state = "EXECUTING"]
        BY <1>0, <2>0, <3>3 DEF RunRows
      <3> QED
        BY <3>1, <3>2, <3>3 DEF T1Reserve, MoveRunToExecuting
    <2> QED
      BY <2>1, <2>2
  <1> QED
    BY <1>1, <1>2 DEF RunsMoveOn

\* An approval is taken away from a started execution by another goal only.
LEMMA GoalMoves ==
    ASSUME LedgerInv, RunsMoveOn, [Next]_vars, NEW a \in Actions, action[a] = "APPROVED",
           action'[a] # "APPROVED", reservation'[a] = reservation[a], reservation[a].status # "NONE"
    PROVE  run'[RunOf[a]].goal > 0
  <1> USE DEF ledgerVars, erpVars, requestVars
  <1>0. TypeInv /\ action \in [Actions -> ActionStates] /\ reservation \in [Actions -> Reservations]
        /\ run \in [Runs -> RunRows] /\ RunOf[a] \in Runs
    BY P2PConstants DEF LedgerInv, TypeInv, TypeOK
  <1>1. ASSUME NEW p \in Requests, ConfirmGoal(p)
        PROVE  run'[RunOf[a]].goal > 0
    <2>1. a \in Invalidated(p)
      BY <1>1 DEF ConfirmGoal
    <2>2. PICK x \in snap[p].pending : x[1] = a
      BY <2>1 DEF Invalidated
    <2>3. RunOf[act[p]] = RunOf[a]
      BY <1>1, <2>2 DEF ConfirmGoal, RunsMoveOn, Loaded, Handlers
    <2>4. run' = [run EXCEPT ![RunOf[a]] = [run[RunOf[a]] EXCEPT !.goal = run[RunOf[a]].goal + 1]]
      BY <1>1, <2>3 DEF ConfirmGoal
    <2>5. run[RunOf[a]] \in RunRows /\ run[RunOf[a]].goal \in Nat
      BY <1>0, P2PConstants DEF RunRows
    <2>6. run'[RunOf[a]].goal = run[RunOf[a]].goal + 1
      BY <1>0, <2>4, <2>5 DEF RunRows
    <2> QED
      BY <2>5, <2>6
  <1>2. ASSUME NEW p \in Requests, NEW n \in DocNames, RecordSuccess(p, n)
        PROVE  FALSE
    <2>1. act[p] = a
      BY <1>0, <1>2 DEF RecordSuccess
    <2> QED
      BY <1>0, <1>2, <2>1 DEF RecordSuccess, StartedReservation
  <1>3. ASSUME NEW p \in Requests, T3Commit(p)
        PROVE  FALSE
    <2>1. act[p] = a
      BY <1>0, <1>3 DEF T3Commit, CloseAction
    <2>2. reservation[a].status = "STARTED" /\ reservation'[a].status = FailureState(p)
      BY <1>0, <1>3, <2>1 DEF T3Commit
    <2> QED
      BY <2>2 DEF FailureState
  <1>4. ASSUME NEW p \in Requests, NEW verified \in BOOLEAN,
               Reconcile(p, verified) \/ ReconcileRunConflict(p)
        PROVE  FALSE
    <2>1. act[p] = a
      BY <1>0, <1>4 DEF Reconcile, ReconcileRunConflict, CloseAction
    <2>2. PICK v \in BOOLEAN : reservation'[a] = Verdict(v, a)
      BY <1>0, <1>4, <2>1 DEF Reconcile, ReconcileRunConflict
    <2>3. reservation[a].status \in Unsettled
      BY <1>4, <2>1 DEF Reconcile, ReconcileRunConflict, ReconcileEntered
    <2> QED
      BY <2>2, <2>3 DEF Verdict, Unsettled
  <1>5. ASSUME NEW b \in Actions, Propose(b) \/ \E decision \in {"APPROVED", "DECLINED"} : Decide(b, decision)
        PROVE  FALSE
    BY <1>0, <1>5 DEF Propose, Decide
  <1>6. ASSUME NEW p \in Requests, T2Record(p)
        PROVE  FALSE
    BY <1>0, <1>2, <1>6 DEF T2Record, TypeInv, RequestOK
  <1>7. ASSUME NEW p \in Requests, Execute(p), \A n \in DocNames : ~T2Commit(p, n), ~T2Record(p), ~T3Commit(p)
        PROVE  UNCHANGED action
    BY <1>7 DEF Execute, T1Reserve, Replay, AcquireLock, T2Begin, T2Write, T2Fail, T3Begin
  <1>8. ASSUME NEW p \in Requests,
               \/ \E b \in Actions, handler \in Handlers : Begin(p, b, handler)
               \/ \E verified \in BOOLEAN : ReconcileActionConflict(p, verified)
               \/ \E terminal \in {"CANCELLED", "EXPIRED"} : CancelRun(p, terminal)
               \/ Abandon(p)
        PROVE  UNCHANGED action
    BY <1>8 DEF Begin, ReconcileActionConflict, CancelRun, Abandon
  <1>9. ASSUME \/ \E r \in Runs : RevokeRun(r)
               \/ \E n \in DocNames : DeskSubmit(n) \/ DeskCancel(n)
               \/ UNCHANGED vars
        PROVE  UNCHANGED action
    BY <1>9 DEF RevokeRun, DeskSubmit, DeskCancel, vars
  <1>10. ASSUME NEW p \in Requests, NEW n \in DocNames, T2Commit(p, n)
         PROVE  FALSE
    BY <1>2, <1>10 DEF T2Commit
  <1> QED
    BY <1>1, <1>3, <1>4, <1>5, <1>6, <1>7, <1>8, <1>9, <1>10 DEF Next

LEMMA ApprovalsLastStep ==
    ASSUME LedgerInv, RunsMoveOn, ApprovalsLast, [Next]_vars
    PROVE  ApprovalsLast'
  <1> SUFFICES ASSUME NEW a \in Actions
               PROVE  /\ reservation'[a].status = "STARTED" /\ action'[a] # "APPROVED" =>
                            run'[RunOf[a]].goal > 0
                      /\ reservation'[a].status = "RECONCILIATION_REQUIRED" => action'[a] # "APPROVED"
    BY DEF ApprovalsLast
  <1>0. TypeInv /\ RunOf[a] \in Runs /\ run[RunOf[a]].goal \in Nat /\ run'[RunOf[a]].goal \in Nat
    <2>1. TypeInv /\ TypeInv' /\ RunOf[a] \in Runs
      BY TypeStep, P2PConstants DEF LedgerInv
    <2>2. run[RunOf[a]] \in RunRows /\ run'[RunOf[a]] \in RunRows
      BY <2>1 DEF TypeInv, TypeOK
    <2>3. \A row \in RunRows : row.goal \in Nat
      BY P2PConstants DEF RunRows
    <2> QED
      BY <2>1, <2>2, <2>3
  <1>1. RowStep(a)
    BY RowsMove DEF LedgerInv
  <1>2. RunLater(run[RunOf[a]], run'[RunOf[a]])
    BY <1>0, RunStep
  <1>3. reservation[a].status = "STARTED" /\ action[a] # "APPROVED" => run'[RunOf[a]].goal > 0
    BY <1>0, <1>2 DEF ApprovalsLast, RunLater
  <1>4. /\ reservation[a].status # "NONE" => action[a] \in {"APPROVED", "EXECUTED", "EXPIRED"}
        /\ reservation[a].status = "RECONCILIATION_REQUIRED" => action[a] # "APPROVED"
    BY DEF LedgerInv, ReservedWasApproved, ApprovalsLast
  <1>5. CASE Kept(a)
    BY <1>3, <1>4, <1>5 DEF Kept
  <1>6. CASE Judged(a)
    BY <1>3, <1>4, <1>6, GoalMoves DEF Judged
  <1>7. CASE Reserves(a)
    BY <1>7 DEF Reserves, StartedReservation
  <1>8. CASE Succeeds(a)
    BY <1>8 DEF Succeeds, SuccessStates
  <1>9. CASE Closes(a) \/ Splits(a)
    BY <1>9 DEF Closes, Splits
  <1> QED
    BY <1>1, <1>5, <1>6, <1>7, <1>8, <1>9 DEF RowStep

\* A Run as an uncertain result may leave it.
Frozen(row) == ~(row.live /\ row.state = "EXECUTING" /\ row.goal = 0)

LEMMA FrozenLater ==
    ASSUME NEW x \in RunRows, NEW y \in RunRows, RunLater(x, y), Frozen(x),
           x.state \notin {"PROPOSED", "AWAITING_APPROVAL"}
    PROVE  Frozen(y)
  <1>1. x.goal \in Nat /\ y.goal \in Nat /\ x.live \in BOOLEAN /\ y.live \in BOOLEAN
        /\ x.state \in {"EXECUTING", "RECONCILIATION_REQUIRED", "CANCELLED", "EXPIRED"}
    BY P2PConstants DEF RunRows, RunStates
  <1> QED
    BY <1>1 DEF RunLater, Frozen

\* A request that saw its Run executing and found it changed saw it frozen,
\* revoked or under another goal.
LEMMA ChangedRun ==
    ASSUME NEW x \in RunRows, NEW y \in RunRows, RunLater(x, y), x # y,
           x.state \notin {"PROPOSED", "AWAITING_APPROVAL"}
    PROVE  Frozen(y)
  <1> SUFFICES ASSUME y.live, y.state = "EXECUTING", y.goal = 0
               PROVE  FALSE
    BY DEF Frozen
  <1>1. x.goal \in Nat /\ x.live \in BOOLEAN /\ y.live \in BOOLEAN
        /\ x.state \in {"EXECUTING", "RECONCILIATION_REQUIRED", "CANCELLED", "EXPIRED"}
    BY P2PConstants DEF RunRows, RunStates
  <1>2. x.goal = 0 /\ x.live = TRUE /\ x.state = "EXECUTING" /\ y.live = TRUE
    BY <1>1 DEF RunLater
  <1>3. x = [state |-> "EXECUTING", live |-> TRUE, goal |-> 0]
    BY <1>2 DEF RunRows
  <1>4. y = [state |-> "EXECUTING", live |-> TRUE, goal |-> 0]
    BY <1>2 DEF RunRows
  <1> QED
    BY <1>3, <1>4

LEMMA FreezeStep ==
    ASSUME LedgerInv, RunsMoveOn, NEW p \in Requests, pc[p] \in Loaded, act[p] \in Actions,
           snap[p].reservation.status # "NONE", FreezeRun(p, TRUE)
    PROVE  Frozen(run'[RunOf[act[p]]])
  <1>0. run \in [Runs -> RunRows] /\ RunOf[act[p]] \in Runs /\ snap[p].run \in RunRows
    BY P2PConstants DEF LedgerInv, TypeInv, TypeOK, Snapshots
  <1>1. CASE snap[p].run.state = "EXECUTING"
    BY <1>0, <1>1 DEF FreezeRun, Frozen, RunRows
  <1>2. CASE snap[p].run.state # "EXECUTING"
    <2>1. run' = run /\ snap[p].run.state \notin {"PROPOSED", "AWAITING_APPROVAL"}
      BY <1>2 DEF FreezeRun, RunsMoveOn
    <2>2. Frozen(snap[p].run) /\ RunLater(snap[p].run, run[RunOf[act[p]]])
      BY <1>2 DEF Frozen, RunsMoveOn
    <2> QED
      BY <1>0, <2>1, <2>2, FrozenLater
  <1> QED
    BY <1>1, <1>2

LEMMA UncertainStep ==
    ASSUME LedgerInv, RunsMoveOn, ApprovalsLast, UncertainFreezes, [Next]_vars
    PROVE  UncertainFreezes'
  <1> SUFFICES ASSUME NEW a \in Actions,
                      reservation'[a].status \in {"RECONCILIATION_REQUIRED", "MANUAL_INTERVENTION"}
               PROVE  Frozen(run'[RunOf[a]])
    BY DEF UncertainFreezes, Frozen
  <1>0. TypeInv /\ RunOf[a] \in Runs /\ run[RunOf[a]] \in RunRows /\ run'[RunOf[a]] \in RunRows
        /\ reservation \in [Actions -> Reservations]
    <2>1. TypeInv /\ TypeInv' /\ RunOf[a] \in Runs
      BY TypeStep, P2PConstants DEF LedgerInv
    <2> QED
      BY <2>1 DEF TypeInv, TypeOK
  <1>1. RunLater(run[RunOf[a]], run'[RunOf[a]])
    BY <1>0, RunStep
  <1>2. CASE reservation[a].status \in {"RECONCILIATION_REQUIRED", "MANUAL_INTERVENTION"}
    <2>1. Frozen(run[RunOf[a]])
      BY <1>2 DEF UncertainFreezes, Frozen
    <2>2. run[RunOf[a]].state \notin {"PROPOSED", "AWAITING_APPROVAL"}
      BY <1>2 DEF RunsMoveOn
    <2> QED
      BY <1>0, <1>1, <2>1, <2>2, FrozenLater
  <1>3. CASE reservation[a].status \notin {"RECONCILIATION_REQUIRED", "MANUAL_INTERVENTION"}
    <2>0. reservation'[a] # reservation[a]
      BY <1>3
    <2>1. ASSUME NEW p \in Requests, act[p] = a, T1Reserve(p) \/ \E n \in DocNames : RecordSuccess(p, n)
          PROVE  FALSE
      BY <1>0, <2>1 DEF T1Reserve, RecordSuccess, StartedReservation
    <2>2. ASSUME NEW p \in Requests, act[p] = a, T3Commit(p)
          PROVE  Frozen(run'[RunOf[a]])
      <3>1. reservation'[a].status = FailureState(p)
        BY <1>0, <2>2 DEF T3Commit
      <3>2. fault[p] = "UNCERTAIN"
        BY <3>1 DEF FailureState
      <3>3. FreezeRun(p, TRUE)
        BY <2>2, <3>2 DEF T3Commit, FreezeRun
      <3>4. pc[p] \in Loaded /\ snap[p].reservation.status # "NONE"
        BY <2>2 DEF T3Commit, Loaded
      <3> QED
        BY <2>2, <3>3, <3>4, FreezeStep
    <2>3. ASSUME NEW p \in Requests, act[p] = a, NEW verified \in BOOLEAN,
                 Reconcile(p, verified) \/ ReconcileRunConflict(p)
          PROVE  Frozen(run'[RunOf[a]])
      <3>1. pc[p] \in Loaded /\ snap[p].reservation.status # "NONE"
        BY <2>3 DEF Reconcile, ReconcileRunConflict, ReconcileEntered, Loaded, Handlers, Unsettled
      <3>2. CASE Reconcile(p, verified)
        <4>1. reservation'[a] = Verdict(verified, a)
          BY <1>0, <2>3, <3>2 DEF Reconcile
        <4>2. verified = FALSE
          BY <4>1 DEF Verdict
        <4>3. FreezeRun(p, TRUE)
          BY <3>2, <4>2 DEF Reconcile, FreezeRun
        <4> QED
          BY <2>3, <3>1, <4>3, FreezeStep
      <3>3. CASE ReconcileRunConflict(p)
        <4>1. run' = run /\ snap[p].run.state = "EXECUTING" /\ snap[p].run # run[RunOf[a]]
          BY <2>3, <3>3 DEF ReconcileRunConflict, RunFresh
        <4>2. snap[p].run \in RunRows
          BY <1>0 DEF TypeInv, TypeOK, Snapshots
        <4>3. RunLater(snap[p].run, run[RunOf[a]])
          BY <2>3, <3>1 DEF RunsMoveOn
        <4> QED
          BY <1>0, <4>1, <4>2, <4>3, ChangedRun
      <3> QED
        BY <2>3, <3>2, <3>3
    <2>4. ASSUME NEW p \in Requests, act[p] = a, NEW verified \in BOOLEAN, ReconcileActionConflict(p, verified)
          PROVE  Frozen(run'[RunOf[a]])
      <3>1. reservation[a].status = "STARTED" /\ action[a] # "APPROVED" /\ run' = run
        BY <1>3, <2>4 DEF ReconcileActionConflict, ReconcileEntered, Unsettled, ActionFresh
      <3>2. run[RunOf[a]].goal > 0
        BY <3>1 DEF ApprovalsLast
      <3> QED
        BY <3>1, <3>2 DEF Frozen
    <2> QED
      BY <1>0, <2>0, <2>1, <2>2, <2>3, <2>4, ReservationMoves
  <1> QED
    BY <1>2, <1>3

\* Until the initiator confirms another goal, nothing of a live Run is EXECUTING
\* on while one of its results needs reconciliation or a human.  (Under another
\* goal a conflicting reconciliation may leave the Run as it is.)
LEMMA FreezeInvariance == Spec => [](RunsMoveOn /\ ApprovalsLast /\ UncertainFreezes)
  <1>1. Init => RunsMoveOn /\ ApprovalsLast /\ UncertainFreezes
    BY DEF Init, RunsMoveOn, ApprovalsLast, UncertainFreezes, NoReservation, Loaded, Handlers
  <1>2. LedgerInv /\ RunsMoveOn /\ ApprovalsLast /\ UncertainFreezes /\ [Next]_vars
          => RunsMoveOn' /\ ApprovalsLast' /\ UncertainFreezes'
    BY RunsMoveOnStep, ApprovalsLastStep, UncertainStep
  <1> QED
    BY <1>1, <1>2, LedgerInvariance, PTL DEF Spec

\* A Run whose goal stands is frozen by the first uncertain result, whichever
\* of T3, reconciliation, revocation and the other Actions of the Run saved
\* the Run row in between.
THEOREM UncertainResultsFreezeRuns ==
    ASSUME MaxGoalVersion = 0
    PROVE  Spec => []UncertainFreezesRun
  <1>1. TypeInv /\ UncertainFreezes => UncertainFreezesRun
    <2> SUFFICES ASSUME TypeInv, UncertainFreezes, NEW a \in Actions,
                        reservation[a].status \in {"RECONCILIATION_REQUIRED", "MANUAL_INTERVENTION"}
                 PROVE  ~(run[RunOf[a]].live /\ run[RunOf[a]].state = "EXECUTING")
      BY DEF UncertainFreezesRun
    <2>1. run[RunOf[a]].goal = 0
      BY P2PConstants DEF TypeInv, TypeOK, RunRows
    <2> QED
      BY <2>1 DEF UncertainFreezes
  <1> QED
    BY <1>1, P2PTypeCorrect, FreezeInvariance, PTL

-----------------------------------------------------------------------------
(***************************************************************************)
(* The Actions of a Run take effect in the order of their inferred         *)
(* dependencies.  Dependencies are read once, in the snapshot of T2; what  *)
(* makes the read good until the commit is that every writer of the Run    *)
(* that could add one saves the plan steps again.                          *)
(***************************************************************************)
\* The documents an ERP document was converted from are there.
SourcesKnown ==
    \A n \in DocNames : Exists(n) /\ erp[n].source # NoName => Exists(erp[n].source)

\* So is the source of every Action the gates let through.
ProposedKnown ==
    \A a \in Actions : action[a] \notin {"NONE", "POLICY_REJECTED"} => Exists(SourceOf[a])

\* Only reserved Actions have a Receipt.
ReceiptsReserved ==
    \A a \in Actions : receipt[a].state # "NONE" => reservation[a].status # "NONE"

\* A T2 has read a reservation, and no reconciliation has read an approval
\* together with an uncertain result.
ReservationsRead ==
    \A p \in Requests :
        /\ pc[p] = "t2" => snap[p].reservation.status # "NONE"
        /\ pc[p] \in Loaded /\ snap[p].reservation.status = "RECONCILIATION_REQUIRED" =>
              snap[p].action # "APPROVED"

\* While the plan steps it loaded are current, what a T2 read of its
\* predecessors stands.
PredecessorsStand ==
    \A p \in Requests : pc[p] = "t2" /\ p \notin stale /\ snap[p].ready => DependenciesConfirmed(act[p])

-----------------------------------------------------------------------------
(* The documents. *)

\* A document that comes into being was converted by an approved Action.
LEMMA NewDocument ==
    ASSUME TypeInv, [Next]_vars, NEW n \in DocNames, erp[n].status = "ABSENT", erp'[n].status # "ABSENT"
    PROVE  \E a \in Actions : action[a] = "APPROVED" /\ erp'[n].source = SourceOf[a]
  <1>0. erp \in [DocNames -> Docs]
    BY DEF TypeInv, TypeOK
  <1>1. PICK p \in Requests : Writes(p)
    <2>1. ASSUME NEW m \in DocNames, DeskSubmit(m) \/ DeskCancel(m)
          PROVE  FALSE
      BY <1>0, <2>1 DEF DeskSubmit, DeskCancel, CancelGate
    <2> QED
      BY <2>1, ErpStep
  <1>2. PICK m \in DocNames : /\ pc[p] = "t2" /\ ControllerAccepts(act[p], m) /\ ControllerWrite(act[p], m)
                              /\ T2Commit(p, m) \/ T2Write(p, m)
    BY <1>1 DEF Writes
  <1>3. act[p] \in Actions /\ action[act[p]] = "APPROVED"
    BY <1>2 DEF TypeInv, RequestOK, T2Commit, T2Write, PreExecuteRecheck
  <1>4. m = n
    BY <1>0, <1>2 DEF ControllerWrite
  <1>5. Creates(act[p])
    BY <1>2, <1>4 DEF ControllerAccepts
  <1>6. erp'[n].source = SourceOf[act[p]]
    BY <1>0, <1>2, <1>3, <1>4, <1>5, CreatesOrSubmits DEF ControllerWrite
  <1> QED
    BY <1>3, <1>6

\* Documents stay, with their sources.
LEMMA DocumentsStay ==
    ASSUME TypeInv, [Next]_vars, NEW n \in DocNames, Exists(n)
    PROVE  erp'[n].status # "ABSENT" /\ erp'[n].source = erp[n].source
  BY DocumentsMoveOn DEF DocumentLater, Exists

LEMMA SourcesKnownStep ==
    ASSUME TypeInv, SourcesKnown, ProposedKnown, [Next]_vars
    PROVE  SourcesKnown'
  <1>1. ASSUME NEW n \in DocNames, erp'[n].status # "ABSENT", erp'[n].source # NoName
        PROVE  \E s \in DocNames : s = erp'[n].source /\ erp'[s].status # "ABSENT"
    <2>1. CASE Exists(n)
      <3>1. erp'[n].source = erp[n].source /\ Exists(erp[n].source)
        BY <1>1, <2>1, DocumentsStay DEF SourcesKnown
      <3>2. erp[n].source \in DocNames
        BY <1>1, <3>1 DEF TypeInv, TypeOK, Docs, TargetNames
      <3> QED
        BY <3>1, <3>2, DocumentsStay
    <2>2. CASE ~Exists(n)
      <3>1. PICK a \in Actions : action[a] = "APPROVED" /\ erp'[n].source = SourceOf[a]
        BY <1>1, <2>2, NewDocument DEF Exists
      <3>2. Exists(SourceOf[a]) /\ SourceOf[a] \in DocNames
        BY <3>1, P2PConstants DEF ProposedKnown
      <3> QED
        BY <3>1, <3>2, DocumentsStay
    <2> QED
      BY <2>1, <2>2
  <1> QED
    BY <1>1 DEF SourcesKnown, Exists

\* The gates let an Action through only when its source is there.
LEMMA ProposalStep ==
    ASSUME TypeInv, [Next]_vars, NEW a \in Actions, action[a] = "NONE", action'[a] # "NONE",
           action'[a] # "POLICY_REJECTED"
    PROVE  Exists(SourceOf[a])
  <1> USE DEF ledgerVars, erpVars, requestVars
  <1>0. action \in [Actions -> ActionStates]
    BY DEF TypeInv, TypeOK
  <1>1. ASSUME NEW b \in Actions, Propose(b)
        PROVE  Exists(SourceOf[a])
    BY <1>0, <1>1 DEF Propose, DeterministicGate
  <1>2. ASSUME NEW b \in Actions, NEW decision, Decide(b, decision)
        PROVE  FALSE
    BY <1>0, <1>2 DEF Decide
  <1>3. ASSUME NEW p \in Requests, NEW n \in DocNames, T2Commit(p, n)
        PROVE  FALSE
    BY <1>0, <1>3 DEF T2Commit, RecordSuccess, PreExecuteRecheck
  <1>4. ASSUME NEW p \in Requests, T2Record(p)
        PROVE  FALSE
    BY <1>0, <1>4 DEF T2Record, RecordSuccess
  <1>5. ASSUME NEW p \in Requests, NEW state, CloseAction(p, state)
        PROVE  FALSE
    BY <1>0, <1>5 DEF CloseAction, ActionFresh
  <1>6. ASSUME NEW p \in Requests, ConfirmGoal(p)
        PROVE  FALSE
    <2>1. a \in Invalidated(p)
      BY <1>0, <1>6 DEF ConfirmGoal
    <2>2. PICK x \in snap[p].pending : x[1] = a /\ action[x[1]] = x[2]
      BY <2>1 DEF Invalidated
    <2>3. x[2] \in {"AWAITING_APPROVAL", "APPROVED"}
      BY <2>2 DEF TypeInv, TypeOK, Snapshots
    <2> QED
      BY <2>2, <2>3
  <1>7. ASSUME NEW p \in Requests, Execute(p), \A n \in DocNames : ~T2Commit(p, n), ~T2Record(p), ~T3Commit(p)
        PROVE  FALSE
    BY <1>7 DEF Execute, T1Reserve, Replay, AcquireLock, T2Begin, T2Write, T2Fail, T3Begin
  <1>8. ASSUME NEW p \in Requests,
               \/ T3Commit(p)
               \/ \E verified \in BOOLEAN : Reconcile(p, verified)
               \/ ReconcileRunConflict(p)
        PROVE  FALSE
    BY <1>5, <1>8 DEF T3Commit, Reconcile, ReconcileRunConflict
  <1>9. ASSUME NEW p \in Requests,
               \/ \E b \in Actions, handler \in Handlers : Begin(p, b, handler)
               \/ \E verified \in BOOLEAN : ReconcileActionConflict(p, verified)
               \/ \E terminal \in {"CANCELLED", "EXPIRED"} : CancelRun(p, terminal)
               \/ Abandon(p)
        PROVE  FALSE
    BY <1>9 DEF Begin, ReconcileActionConflict, CancelRun, Abandon
  <1>10. ASSUME \/ \E r \in Runs : RevokeRun(r)
                \/ \E n \in DocNames : DeskSubmit(n) \/ DeskCancel(n)
                \/ UNCHANGED vars
         PROVE  FALSE
    BY <1>10 DEF RevokeRun, DeskSubmit, DeskCancel, vars
  <1> QED
    BY <1>1, <1>2, <1>3, <1>4, <1>6, <1>7, <1>8, <1>9, <1>10 DEF Next

LEMMA ProposedKnownStep ==
    ASSUME LedgerInv, ProposedKnown, [Next]_vars
    PROVE  ProposedKnown'
  <1>0. TypeInv
    BY DEF LedgerInv
  <1>1. ASSUME NEW a \in Actions, action'[a] \notin {"NONE", "POLICY_REJECTED"}
        PROVE  erp'[SourceOf[a]].status # "ABSENT"
    <2>1. Exists(SourceOf[a])
      <3>1. CASE action[a] \notin {"NONE", "POLICY_REJECTED"}
        BY <3>1 DEF ProposedKnown
      <3>2. CASE action[a] = "NONE"
        BY <1>0, <1>1, <3>2, ProposalStep
      <3>3. CASE action[a] = "POLICY_REJECTED"
        <4>1. RowStep(a)
          BY RowsMove DEF LedgerInv
        <4>2. reservation[a].status = "NONE"
          BY <3>3 DEF LedgerInv, ReservedWasApproved
        <4> QED
          BY <1>1, <3>3, <4>1, <4>2 DEF RowStep, Kept, Judged, Reserves, Succeeds, Closes, Splits, Unsettled
      <3> QED
        BY <3>1, <3>2, <3>3
    <2> QED
      BY <1>0, <2>1, P2PConstants, DocumentsStay
  <1> QED
    BY <1>1 DEF ProposedKnown, Exists

LEMMA ReceiptsReservedStep ==
    ASSUME LedgerInv, ReceiptsReserved, [Next]_vars
    PROVE  ReceiptsReserved'
  <1> SUFFICES ASSUME NEW a \in Actions, receipt'[a].state # "NONE", reservation'[a].status = "NONE"
               PROVE  FALSE
    BY DEF ReceiptsReserved
  <1>1. RowStep(a) /\ reservation[a].status = "NONE"
    BY RowsMove, NeverUnreserved DEF LedgerInv
  <1>2. CASE Kept(a) \/ Judged(a) \/ Reserves(a)
    BY <1>1, <1>2 DEF Kept, Judged, Reserves, ReceiptsReserved
  <1>3. CASE Succeeds(a) \/ Closes(a) \/ Splits(a)
    BY <1>1, <1>3 DEF Succeeds, Closes, Splits, Unsettled
  <1> QED
    BY <1>1, <1>2, <1>3 DEF RowStep

LEMMA ReservationsReadStep ==
    ASSUME TypeInv, SingleWriter, ApprovalsLast, ReservationsRead, [Next]_vars
    PROVE  ReservationsRead'
  <1> SUFFICES ASSUME NEW q \in Requests
               PROVE  /\ pc'[q] = "t2" => snap'[q].reservation.status # "NONE"
                      /\ pc'[q] \in Loaded /\ snap'[q].reservation.status = "RECONCILIATION_REQUIRED" =>
                            snap'[q].action # "APPROVED"
    BY DEF ReservationsRead
  <1>1. RequestStep(q)
    BY RequestsMove
  <1>2. CASE Stays(q)
    BY <1>2 DEF Stays, ReservationsRead
  <1>3. CASE Opens(q)
    <2>1. PICK a \in Actions : /\ act'[q] = a /\ snap'[q] = Snapshot(a)
                               /\ pc'[q] = "t2" => a = act[q] /\ pc[q] = "reserved"
      BY <1>3 DEF Opens, Handlers
    <2>2. snap'[q].reservation = reservation[a] /\ snap'[q].action = action[a]
      BY <2>1 DEF Snapshot
    <2> QED
      BY <2>1, <2>2 DEF SingleWriter, Executing, ApprovalsLast
  <1>4. CASE pc'[q] = "idle" \/ Claims(q) \/ Fails(q)
    BY <1>4 DEF Claims, Fails, Loaded, Handlers
  <1> QED
    BY <1>1, <1>2, <1>3, <1>4 DEF RequestStep

-----------------------------------------------------------------------------
(* What other requests may do to a Run without saving its plan steps. *)

\* Nothing is proposed in the Run, and its Receipts stay or are sent to a
\* human without naming a document.
Quiet(r) ==
    /\ \A b \in Actions : RunOf[b] = r =>
          \/ receipt'[b] = receipt[b]
          \/ receipt'[b].state = "MANUAL_INTERVENTION" /\ receipt'[b].target = NoName
    /\ \/ proposed' = proposed
       \/ \E c \in Actions : RunOf[c] # r /\ proposed' = Append(proposed, c)

\* Whoever saves the plan steps of a Run makes its other transactions stale.
LEMMA SyncMisses ==
    ASSUME NEW r, NEW except, NEW q \in Requests, SyncPlanSteps(r, except), q # except,
           snap[q] # NoSnapshot, q \notin stale'
    PROVE  q \notin stale /\ RunOf[act[q]] # r
  BY DEF SyncPlanSteps

\* A conflict on the Action takes another goal.
LEMMA NoActionConflict ==
    ASSUME MaxGoalVersion = 0, TypeInv, ApprovalsLast, ReservationsRead,
           NEW p \in Requests, NEW verified, ReconcileActionConflict(p, verified)
    PROVE  FALSE
  <1>1. /\ pc[p] \in Loaded /\ act[p] \in Actions
        /\ reservation[act[p]] = snap[p].reservation /\ snap[p].reservation.status \in Unsettled
        /\ snap[p].action = "APPROVED" /\ action[act[p]] # "APPROVED"
    BY DEF TypeInv, RequestOK, ReconcileActionConflict, ReconcileEntered, ActionFresh, Loaded, Handlers
  <1>2. run[RunOf[act[p]]].goal = 0
    BY <1>1, P2PConstants DEF TypeInv, TypeOK, RunRows
  <1>3. CASE snap[p].reservation.status = "STARTED"
    BY <1>1, <1>2, <1>3 DEF ApprovalsLast
  <1>4. CASE snap[p].reservation.status = "RECONCILIATION_REQUIRED"
    BY <1>1, <1>4 DEF ReservationsRead
  <1> QED
    BY <1>1, <1>3, <1>4 DEF Unsettled

\* While a transaction of T2 stays current, its Run is quiet.
LEMMA CurrentIsQuiet ==
    ASSUME MaxGoalVersion = 0, TypeInv, ApprovalsLast, ReservationsRead, [Next]_vars,
           NEW q \in Requests, pc[q] = "t2", pc'[q] = "t2", q \notin stale'
    PROVE  q \notin stale /\ Quiet(RunOf[act[q]])
  <1> USE DEF ledgerVars, erpVars, requestVars
  <1> DEFINE r == RunOf[act[q]]
  <1>0. /\ receipt \in [Actions -> Receipts] /\ pc \in [Requests -> Places]
        /\ snap[q] # NoSnapshot /\ q # NoName
    BY P2PConstants DEF TypeInv, TypeOK, ReservationsRead, NoSnapshot, NoReservation
  <1>1. ASSUME NEW a \in Actions, Propose(a)
        PROVE  q \notin stale /\ Quiet(r)
    <2>1. SyncPlanSteps(RunOf[a], NoName) /\ receipt' = receipt /\ proposed' = Append(proposed, a)
      BY <1>1 DEF Propose
    <2>2. q \notin stale /\ RunOf[a] # r
      BY <1>0, <2>1, SyncMisses
    <2> QED
      BY <2>1, <2>2 DEF Quiet
  <1>2. ASSUME NEW a \in Actions, NEW decision, Decide(a, decision)
        PROVE  q \notin stale /\ Quiet(r)
    <2>1. SyncPlanSteps(RunOf[a], NoName) /\ receipt' = receipt /\ proposed' = proposed
      BY <1>2 DEF Decide
    <2> QED
      BY <1>0, <2>1, SyncMisses DEF Quiet
  <1>3. ASSUME NEW p \in Requests, p # q, act[p] \in Actions,
               SyncPlanSteps(RunOf[act[p]], p), proposed' = proposed,
               \E row : receipt' = [receipt EXCEPT ![act[p]] = row]
        PROVE  q \notin stale /\ Quiet(r)
    <2>1. q \notin stale /\ RunOf[act[p]] # r
      BY <1>0, <1>3, SyncMisses
    <2>2. \A b \in Actions : RunOf[b] = r => receipt'[b] = receipt[b]
      BY <1>0, <1>3, <2>1
    <2> QED
      BY <1>3, <2>1, <2>2 DEF Quiet
  <1>4. ASSUME NEW p \in Requests, NEW n, pc[p] # "idle", Finish(p), RecordSuccess(p, n)
        PROVE  q \notin stale /\ Quiet(r)
    <2>1. p # q /\ act[p] \in Actions
      BY <1>0, <1>4 DEF Finish, TypeInv, RequestOK
    <2> QED
      BY <1>3, <1>4, <2>1 DEF RecordSuccess, PersistReceipt
  <1>5. ASSUME NEW p \in Requests, T3Commit(p)
        PROVE  q \notin stale /\ Quiet(r)
    <2>1. p # q /\ act[p] \in Actions
      BY <1>0, <1>5 DEF T3Commit, TypeInv, RequestOK
    <2> QED
      BY <1>3, <1>5, <2>1 DEF T3Commit, PersistReceipt
  <1>6. ASSUME NEW p \in Requests, NEW verified, Reconcile(p, verified)
        PROVE  q \notin stale /\ Quiet(r)
    <2>1. p # q /\ act[p] \in Actions
      BY <1>0, <1>6 DEF Reconcile, ReconcileEntered, TypeInv, RequestOK
    <2> QED
      BY <1>3, <1>6, <2>1 DEF Reconcile
  <1>7. ASSUME NEW p \in Requests, ReconcileRunConflict(p)
        PROVE  q \notin stale /\ Quiet(r)
    <2>1. /\ receipt' = [receipt EXCEPT ![act[p]] = ReceiptOf(Verdict(FALSE, act[p]))]
          /\ stale' = stale /\ proposed' = proposed
      BY <1>7 DEF ReconcileRunConflict
    <2>2. /\ ReceiptOf(Verdict(FALSE, act[p])).state = "MANUAL_INTERVENTION"
          /\ ReceiptOf(Verdict(FALSE, act[p])).target = NoName
      BY DEF ReceiptOf, Verdict, SuccessStates
    <2> QED
      BY <1>0, <2>1, <2>2 DEF Quiet
  <1>8. ASSUME NEW p \in Requests, p # q, stale' = stale \ {p}, UNCHANGED <<receipt, proposed>>
        PROVE  q \notin stale /\ Quiet(r)
    BY <1>8 DEF Quiet
  <1>9. ASSUME UNCHANGED <<receipt, proposed, stale>>
        PROVE  q \notin stale /\ Quiet(r)
    BY <1>9 DEF Quiet
  <1>10. ASSUME NEW p \in Requests, pc[p] # "idle", Execute(p)
         PROVE  q \notin stale /\ Quiet(r)
    <2>1. CASE T1Reserve(p)
      <3>1. p # q /\ stale' = stale \ {p} /\ UNCHANGED <<receipt, proposed>>
        BY <1>0, <2>1 DEF T1Reserve
      <3> QED
        BY <1>8, <3>1
    <2>2. CASE Replay(p)
      <3>1. p # q /\ stale' = stale \ {p} /\ UNCHANGED <<receipt, proposed>>
        BY <1>0, <2>2 DEF Replay
      <3> QED
        BY <1>8, <3>1
    <2>3. CASE \E l \in LockNames(act[p]) : AcquireLock(p, l)
      BY <1>9, <2>3 DEF AcquireLock
    <2>4. CASE T2Begin(p) \/ T3Begin(p)
      <3>1. p # q /\ stale' = stale \ {p} /\ UNCHANGED <<receipt, proposed>>
        BY <1>0, <2>4 DEF T2Begin, T3Begin, LocksHeld, OpenTransaction
      <3> QED
        BY <1>8, <3>1
    <2>5. CASE \E n \in DocNames : T2Commit(p, n)
      BY <1>4, <1>10, <2>5 DEF T2Commit
    <2>6. CASE \E n \in DocNames : T2Write(p, n)
      <3>1. p # q /\ stale' = stale \ {p} /\ UNCHANGED <<receipt, proposed>>
        BY <1>0, <2>6 DEF T2Write
      <3> QED
        BY <1>8, <3>1
    <2>7. CASE T2Record(p)
      BY <1>4, <1>10, <2>7 DEF T2Record
    <2>8. CASE \E outcome \in {"FAILED", "UNCERTAIN"}, n \in TargetNames : T2Fail(p, outcome, n)
      <3>1. p # q /\ stale' = stale \ {p} /\ UNCHANGED <<receipt, proposed>>
        BY <1>0, <2>8 DEF T2Fail
      <3> QED
        BY <1>8, <3>1
    <2> QED
      BY <1>5, <1>10, <2>1, <2>2, <2>3, <2>4, <2>5, <2>6, <2>7, <2>8 DEF Execute
  <1>11. ASSUME NEW p \in Requests, NEW a \in Actions, NEW handler \in Handlers, Begin(p, a, handler)
         PROVE  q \notin stale /\ Quiet(r)
    <2>1. p # q /\ stale' = stale \ {p} /\ UNCHANGED <<receipt, proposed>>
      BY <1>0, <1>11 DEF Begin, OpenTransaction
    <2> QED
      BY <1>8, <2>1
  <1>12. ASSUME NEW p \in Requests, Abandon(p)
         PROVE  q \notin stale /\ Quiet(r)
    <2>1. p # q /\ UNCHANGED <<receipt, proposed>>
      BY <1>0, <1>12 DEF Abandon, Finish
    <2>2. CASE stale' = stale \ {p}
      BY <1>8, <2>1, <2>2
    <2>3. CASE SyncPlanSteps(RunOf[act[p]], p)
      BY <1>0, <2>1, <2>3, SyncMisses DEF Quiet
    <2> QED
      BY <1>12, <2>2, <2>3 DEF Abandon
  <1>13. ASSUME \/ \E p \in Requests, terminal \in {"CANCELLED", "EXPIRED"} : CancelRun(p, terminal)
                \/ \E p \in Requests : ConfirmGoal(p)
                \/ \E x \in Runs : RevokeRun(x)
                \/ \E n \in DocNames : DeskSubmit(n) \/ DeskCancel(n)
                \/ UNCHANGED vars
         PROVE  q \notin stale /\ Quiet(r)
    BY <1>9, <1>13 DEF CancelRun, ConfirmGoal, RevokeRun, DeskSubmit, DeskCancel, vars
  <1> QED
    BY <1>1, <1>2, <1>6, <1>7, <1>10, <1>11, <1>12, <1>13, NoActionConflict DEF Next

-----------------------------------------------------------------------------
(* The read stands. *)

\* In a quiet Run no two Actions come into a new order.
LEMMA OrderStays ==
    ASSUME TypeInv, NEW a \in Actions, NEW b \in Actions, RunOf[b] = RunOf[a], Quiet(RunOf[a]),
           CreatedBefore(b, a)'
    PROVE  CreatedBefore(b, a)
  <1>1. CASE proposed' = proposed
    BY <1>1 DEF CreatedBefore
  <1>2. ASSUME NEW c \in Actions, RunOf[c] # RunOf[a], proposed' = Append(proposed, c)
        PROVE  CreatedBefore(b, a)
    <2>0. proposed \in Seq(Actions)
      BY DEF TypeInv, TypeOK
    <2>1. PICK i \in DOMAIN proposed', j \in DOMAIN proposed' :
             i < j /\ proposed'[i] = b /\ proposed'[j] = a
      BY DEF CreatedBefore
    <2>2. i \in DOMAIN proposed /\ j \in DOMAIN proposed
      BY <1>2, <2>0, <2>1
    <2>3. proposed[i] = b /\ proposed[j] = a
      BY <1>2, <2>0, <2>1, <2>2
    <2> QED
      BY <2>1, <2>2, <2>3 DEF CreatedBefore
  <1> QED
    BY <1>1, <1>2 DEF Quiet

\* In a quiet Run no Action gets another reference.
LEMMA RefsStay ==
    ASSUME LedgerInv, SourcesKnown, ProposedKnown, ReceiptsReserved, [Next]_vars,
           NEW a \in Actions, Quiet(RunOf[a])
    PROVE  RelatedRefs(a)' \subseteq RelatedRefs(a)
  <1>0. TypeInv /\ SourceOf[a] \in DocNames
    BY P2PConstants DEF LedgerInv
  <1>1. CASE receipt'[a].state \notin SuccessStates
    <2>1. VerifiedRefs(a)' = {}
      BY <1>1 DEF VerifiedRefs
    <2>2. receipt'[a].target \in {receipt[a].target, NoName}
      BY DEF Quiet
    <2> QED
      BY <2>1, <2>2 DEF RelatedRefs
  <1>2. CASE receipt'[a].state \in SuccessStates
    <2>1. receipt'[a] = receipt[a]
      BY <1>2 DEF Quiet, SuccessStates
    <2>2. Exists(SourceOf[a])
      <3>1. reservation[a].status # "NONE"
        BY <1>2, <2>1 DEF ReceiptsReserved, SuccessStates
      <3>2. action[a] \in {"APPROVED", "EXECUTED", "EXPIRED"}
        BY <3>1 DEF LedgerInv, ReservedWasApproved
      <3> QED
        BY <3>2 DEF ProposedKnown
    <2>3. PICK n \in DocNames : n = SourceOf[a]
      BY <1>0
    <2>4. erp'[n].source = erp[n].source
      BY <1>0, <2>2, <2>3, DocumentsStay
    <2>5. erp[n].source # NoName => erp'[erp[n].source].source = erp[erp[n].source].source
      <3>1. erp[n].source # NoName => erp[n].source \in DocNames /\ Exists(erp[n].source)
        BY <1>0, <2>2, <2>3 DEF SourcesKnown, TypeInv, TypeOK, Docs, TargetNames
      <3> QED
        BY <1>0, <3>1, DocumentsStay
    <2>6. VerifiedRefs(a)' = VerifiedRefs(a)
      BY <2>1, <2>3, <2>4, <2>5 DEF VerifiedRefs
    <2> QED
      BY <2>1, <2>6 DEF RelatedRefs
  <1> QED
    BY <1>1, <1>2

\* So what was read of the predecessors is still true.
LEMMA DependenciesStay ==
    ASSUME LedgerInv, SourcesKnown, ProposedKnown, ReceiptsReserved, [Next]_vars,
           NEW a \in Actions, Quiet(RunOf[a]), DependenciesConfirmed(a)
    PROVE  DependenciesConfirmed(a)'
  <1>1. ASSUME NEW b \in Actions, b \in InferDependencies(a)'
        PROVE  action'[b] = "EXECUTED" /\ receipt'[b].state \in SuccessStates
    <2>1. /\ RunOf[b] = RunOf[a] /\ CreatedBefore(b, a)'
          /\ ActionOrder[TypeOf[b]] < ActionOrder[TypeOf[a]]
          /\ RelatedRefs(a)' \cap RelatedRefs(b)' # {}
      BY <1>1 DEF InferDependencies
    <2>2. CreatedBefore(b, a)
      BY <2>1, OrderStays DEF LedgerInv
    <2>3. RelatedRefs(a) \cap RelatedRefs(b) # {}
      BY <2>1, RefsStay
    <2>4. action[b] = "EXECUTED"
      BY <2>1, <2>2, <2>3 DEF InferDependencies, DependenciesConfirmed
    <2>5. reservation[b].status \in FinalStates /\ receipt[b].state \in SuccessStates
      BY <2>4 DEF LedgerInv, LedgersAgree, FinalStates
    <2> QED
      BY <2>4, <2>5, FrozenStep
  <1> QED
    BY <1>1 DEF DependenciesConfirmed, InferDependencies

LEMMA PredecessorsStep ==
    ASSUME MaxGoalVersion = 0, LedgerInv, ApprovalsLast, SourcesKnown, ProposedKnown, ReceiptsReserved,
           ReservationsRead, PredecessorsStand, [Next]_vars
    PROVE  PredecessorsStand'
  <1>0. TypeInv
    BY DEF LedgerInv
  <1>1. ASSUME NEW q \in Requests, pc'[q] = "t2", q \notin stale', snap'[q].ready
        PROVE  \E a \in Actions : a = act'[q] /\ DependenciesConfirmed(a)'
    <2>1. CASE Stays(q)
      <3>1. pc[q] = "t2" /\ act'[q] = act[q] /\ snap[q].ready /\ act[q] \in Actions
        BY <1>0, <1>1, <2>1 DEF Stays, TypeInv, RequestOK
      <3>2. q \notin stale /\ Quiet(RunOf[act[q]])
        BY <1>0, <1>1, <3>1, CurrentIsQuiet
      <3>3. DependenciesConfirmed(act[q])
        BY <3>1, <3>2 DEF PredecessorsStand
      <3>4. PICK a \in Actions : a = act[q]
        BY <3>1
      <3> QED
        BY <3>1, <3>2, <3>3, <3>4, DependenciesStay
    <2>2. CASE Opens(q)
      <3>1. PICK a \in Actions : act'[q] = a /\ snap'[q] = Snapshot(a) /\ UNCHANGED ledgerVars /\ pc[q] = "reserved"
        BY <1>1, <2>2 DEF Opens, Handlers
      <3>2. DependenciesConfirmed(a)
        BY <1>1, <3>1 DEF Snapshot
      <3>3. Quiet(RunOf[a])
        BY <3>1 DEF Quiet, ledgerVars
      <3> QED
        BY <3>1, <3>2, <3>3, DependenciesStay
    <2> QED
      BY <1>0, <1>1, <2>1, <2>2, RequestsMove DEF RequestStep, Claims, Fails
  <1> QED
    BY <1>1 DEF PredecessorsStand

-----------------------------------------------------------------------------
(* The order of effects. *)

\* The documents of the ERP at the start were converted from documents it has.
InitialSourcesKnown ==
    \A n \in DocNames :
        InitialDocs[n].status # "ABSENT" /\ InitialDocs[n].source # NoName =>
            InitialDocs[InitialDocs[n].source].status # "ABSENT"

DependencyInv ==
    SourcesKnown /\ ProposedKnown /\ ReceiptsReserved /\ ReservationsRead /\ PredecessorsStand

LEMMA DependencyInvariance ==
    ASSUME MaxGoalVersion = 0, InitialSourcesKnown
    PROVE  Spec => []DependencyInv
  <1>1. Init => DependencyInv
    <2>1. Init => SourcesKnown
      BY DEF Init, InitialSourcesKnown, SourcesKnown, Exists
    <2>2. Init => ProposedKnown /\ ReceiptsReserved
      BY DEF Init, ProposedKnown, ReceiptsReserved, NoReceipt
    <2>3. Init => ReservationsRead /\ PredecessorsStand
      BY DEF Init, ReservationsRead, PredecessorsStand, Loaded, Handlers
    <2> QED
      BY <2>1, <2>2, <2>3 DEF DependencyInv
  <1>2. LedgerInv /\ SingleWriter /\ ApprovalsLast /\ DependencyInv /\ [Next]_vars => DependencyInv'
    <2> SUFFICES ASSUME LedgerInv, SingleWriter, ApprovalsLast, DependencyInv, [Next]_vars
                 PROVE  DependencyInv'
      OBVIOUS
    <2>0. TypeInv /\ SourcesKnown /\ ProposedKnown /\ ReceiptsReserved /\ ReservationsRead /\ PredecessorsStand
      BY DEF LedgerInv, DependencyInv
    <2>1. SourcesKnown' /\ ProposedKnown'
      BY <2>0, SourcesKnownStep, ProposedKnownStep
    <2>2. ReceiptsReserved' /\ ReservationsRead'
      BY <2>0, ReceiptsReservedStep, ReservationsReadStep
    <2>3. PredecessorsStand'
      BY <2>0, PredecessorsStep
    <2> QED
      BY <2>1, <2>2, <2>3 DEF DependencyInv
  <1> QED
    BY <1>1, <1>2, LedgerInvariance, WriterInvariance, FreezeInvariance, PTL DEF Spec

\* An Action changes the ERP only after everything it depends on was executed
\* and recorded, although execute read the dependencies one transaction
\* earlier: as long as the goal stands and controllers leave the commit to
\* the executor, whoever adds a dependency also saves the plan steps T2 needs.
THEOREM EffectsFollowDependencies ==
    ASSUME MaxGoalVersion = 0, ~ControllerMayCommit, InitialSourcesKnown
    PROVE  Spec => DependenciesFirst
  <1>1. TypeInv /\ DependencyInv /\ [Next]_vars =>
          [\A a \in Actions :
             applied'[a] # applied[a] =>
                \A b \in InferDependencies(a) :
                   action[b] = "EXECUTED" /\ receipt[b].state \in SuccessStates]_vars
    <2> SUFFICES ASSUME TypeInv, DependencyInv, [Next]_vars, NEW a \in Actions, applied'[a] # applied[a]
                 PROVE  DependenciesConfirmed(a)
      BY DEF DependenciesConfirmed
    <2>1. PICK p \in Requests : Writes(p)
      BY ErpStep
    <2>2. PICK n \in DocNames : pc[p] = "t2" /\ ControllerWrite(act[p], n) /\ T2Commit(p, n)
      BY <2>1 DEF Writes, T2Write
    <2>3. a = act[p]
      BY <2>2 DEF TypeInv, TypeOK, ControllerWrite
    <2>4. snap[p].ready /\ p \notin stale
      BY <2>2 DEF T2Commit, RecordSuccess, StepsFresh
    <2> QED
      BY <2>2, <2>3, <2>4 DEF DependencyInv, PredecessorsStand
  <1> QED
    BY <1>1, P2PTypeCorrect, DependencyInvariance, PTL DEF Spec, DependenciesFirst

-----------------------------------------------------------------------------
(***************************************************************************)
(* Nothing is converted twice.  The duplicate gate is a read, and other    *)
(* executions write between that read and the insert; what makes the read  *)
(* good until then is that the named locks of the rows are held before it. *)
(***************************************************************************)
\* The conversions of a source that count, or will when they are submitted.
Open(n) == Converted(n, {"DRAFT", "SUBMITTED"})

\* The quantity of row r that is taken.
Taken(n, r) == RowTotal(Open(n), r)

\* The quantity an Action would add to row r of its source still fits.
Fits(a, r) ==
    Taken(SourceOf[a], r) + ItemsOf[a][r] <= erp[SourceOf[a]].rows[r]

\* No two connections hold the same named lock.
LocksExclude ==
    \A p, q \in Requests : p # q => held[p] \cap held[q] = {}

\* A T2 holds every lock of its Action.
WritersHoldLocks ==
    \A p \in Requests : pc[p] = "t2" => LockNames(act[p]) \subseteq held[p]

\* What a T2 that converts has read stands: there is room for its draft.
RoomIsKept ==
    \A p \in Requests, a \in Actions :
        pc[p] = "t2" /\ snap[p].gate /\ act[p] = a /\ Creates(a) =>
            Exists(SourceOf[a]) /\ \A r \in RowsWanted(a) : Fits(a, r)

ConversionInv ==
    SourcesKnown /\ ProposedKnown /\ LocksExclude /\ WritersHoldLocks /\ RoomIsKept /\ NoOverConversion

\* Payments are drafted for invoices, receipts and invoices for orders and
\* receipts: what converts one document locks it in one of the two ways.
PaymentsApart ==
    \A a, b \in Actions :
        Creates(a) /\ Creates(b) /\ SourceOf[a] = SourceOf[b] =>
            (TypeOf[a] = "CREATE_PAYMENT_ENTRY_DRAFT") = (TypeOf[b] = "CREATE_PAYMENT_ENTRY_DRAFT")

-----------------------------------------------------------------------------
(* Quantities, counted unit by unit. *)

\* The units of the documents of S, each with the quantity f gives it.
Units(S, f) == UNION {{d} \X (1 .. f[d]) : d \in S}

LEMMA UnitsFinite ==
    ASSUME NEW S, IsFiniteSet(S), NEW f \in [S -> Nat]
    PROVE  IsFiniteSet(Units(S, f)) /\ Cardinality(Units(S, f)) \in Nat
  <1> DEFINE boxes == {{d} \X (1 .. f[d]) : d \in S}
             box == [d \in S |-> {d} \X (1 .. f[d])]
  <1>1. box \in Surjection(S, boxes)
    BY DEF Surjection
  <1>2. IsFiniteSet(boxes)
    <2> HIDE DEF boxes, box
    <2> QED
      BY <1>1, FS_Surjection
  <1>3. \A d \in S : IsFiniteSet({d} \X (1 .. f[d]))
    <2> TAKE d \in S
    <2>1. IsFiniteSet({d})
      BY FS_Singleton
    <2>2. f[d] \in Int /\ 1 \in Int
      OBVIOUS
    <2>3. IsFiniteSet(1 .. f[d])
      BY <2>2, FS_Interval
    <2> QED
      BY <2>1, <2>3, FS_Product
  <1>4. \A T \in boxes : IsFiniteSet(T)
    BY <1>3
  <1>5. IsFiniteSet(UNION boxes)
    <2> HIDE DEF boxes
    <2> QED
      BY <1>2, <1>4, FS_UNION
  <1> QED
    BY <1>5, FS_CardinalityType DEF Units

\* Documents without quantity do not count, and fewer documents have less.
LEMMA FewerUnits ==
    ASSUME NEW S, IsFiniteSet(S), NEW f \in [S -> Nat],
           NEW T, IsFiniteSet(T), NEW g \in [T -> Nat],
           \A d \in T : g[d] = 0 \/ (d \in S /\ g[d] = f[d])
    PROVE  Cardinality(Units(T, g)) <= Cardinality(Units(S, f))
  <1>1. Units(T, g) \subseteq Units(S, f)
    <2> SUFFICES ASSUME NEW u \in Units(T, g)
                 PROVE  u \in Units(S, f)
      OBVIOUS
    <2>1. PICK d \in T : u \in {d} \X (1 .. g[d])
      BY DEF Units
    <2>2. g[d] # 0
      BY <2>1
    <2> QED
      BY <2>1, <2>2 DEF Units
  <1> QED
    BY <1>1, UnitsFinite, FS_Subset

\* One more document adds no more than its quantity.
LEMMA OneMoreDocument ==
    ASSUME NEW S, IsFiniteSet(S), NEW f \in [S -> Nat],
           NEW T, IsFiniteSet(T), NEW g \in [T -> Nat], NEW n \in T,
           \A d \in T \ {n} : d \in S /\ g[d] = f[d]
    PROVE  Cardinality(Units(T, g)) <= Cardinality(Units(S, f)) + g[n]
  <1> DEFINE new == {n} \X (1 .. g[n])
  <1>1. Units(T, g) \subseteq Units(S, f) \cup new
    <2> SUFFICES ASSUME NEW u \in Units(T, g), u \notin new
                 PROVE  u \in Units(S, f)
      OBVIOUS
    <2>1. PICK d \in T : u \in {d} \X (1 .. g[d])
      BY DEF Units
    <2> QED
      BY <2>1 DEF Units
  <1>2. IsFiniteSet(Units(S, f)) /\ Cardinality(Units(S, f)) \in Nat
    BY UnitsFinite
  <1>3. IsFiniteSet(Units(T, g)) /\ Cardinality(Units(T, g)) \in Nat
    BY UnitsFinite
  <1>4. IsFiniteSet(new) /\ Cardinality(new) = g[n]
    <2>1. IsFiniteSet({n}) /\ Cardinality({n}) = 1
      BY FS_Singleton
    <2>2. IsFiniteSet(1 .. g[n]) /\ Cardinality(1 .. g[n]) = g[n]
      BY FS_Interval
    <2>3. IsFiniteSet(new) /\ Cardinality(new) = 1 * Cardinality(1 .. g[n])
      BY <2>1, <2>2, FS_Product
    <2> QED
      BY <2>2, <2>3
  <1> HIDE DEF new
  <1>5. /\ IsFiniteSet(Units(S, f) \cup new)
        /\ Cardinality(Units(S, f) \cup new) =
              Cardinality(Units(S, f)) + Cardinality(new) - Cardinality(Units(S, f) \cap new)
    BY <1>2, <1>4, FS_Union
  <1>6. Cardinality(Units(S, f) \cap new) \in Nat
    BY <1>2, FS_Intersection, FS_CardinalityType
  <1>7. Cardinality(Units(T, g)) <= Cardinality(Units(S, f) \cup new)
    BY <1>1, <1>5, FS_Subset
  <1>8. g[n] \in Nat
    OBVIOUS
  <1> QED
    BY <1>2, <1>3, <1>4, <1>5, <1>6, <1>7, <1>8

\* The quantity of row r in the documents of S.
LEMMA TotalIsUnits ==
    ASSUME NEW S, NEW r
    PROVE  RowTotal(S, r) = Cardinality(Units(S, [d \in S |-> erp[d].rows[r]]))
  <1>1. \A d \in S : [x \in S |-> erp[x].rows[r]][d] = erp[d].rows[r]
    OBVIOUS
  <1>2. {{d} \X (1 .. erp[d].rows[r]) : d \in S}
          = {{d} \X (1 .. [x \in S |-> erp[x].rows[r]][d]) : d \in S}
    BY <1>1
  <1> QED
    BY <1>2 DEF RowTotal, Units

\* A conversion that is about to write: its T2 has passed the gates.
Drafts(p, n) ==
    /\ pc[p] = "t2" /\ pc'[p] # "t2" /\ snap[p].gate
    /\ act[p] \in Actions /\ Creates(act[p])
    /\ erp'[n].source = SourceOf[act[p]] /\ erp'[n].rows = ItemsOf[act[p]]
    /\ \A m \in DocNames \ {n} : erp'[m] = erp[m]

\* A document that comes into being is the draft of one such T2.
LEMMA DraftStep ==
    ASSUME TypeInv, [Next]_vars, NEW n \in DocNames, erp[n].status = "ABSENT", erp'[n].status # "ABSENT"
    PROVE  \E p \in Requests : Drafts(p, n)
  <1>0. erp \in [DocNames -> Docs] /\ pc \in [Requests -> Places]
    BY DEF TypeInv, TypeOK
  <1>1. PICK p \in Requests : Writes(p)
    <2>1. ASSUME NEW m \in DocNames, DeskSubmit(m) \/ DeskCancel(m)
          PROVE  FALSE
      BY <1>0, <2>1 DEF DeskSubmit, DeskCancel, CancelGate
    <2> QED
      BY <2>1, ErpStep
  <1>2. PICK m \in DocNames : /\ pc[p] = "t2" /\ ControllerAccepts(act[p], m) /\ ControllerWrite(act[p], m)
                              /\ T2Commit(p, m) \/ T2Write(p, m)
    BY <1>1 DEF Writes
  <1>3. act[p] \in Actions /\ snap[p].gate /\ pc'[p] # "t2"
    BY <1>0, <1>2 DEF TypeInv, RequestOK, T2Commit, T2Write, PreExecuteRecheck, Finish
  <1>4. m = n
    BY <1>0, <1>2 DEF ControllerWrite
  <1>5. Creates(act[p])
    BY <1>2, <1>4 DEF ControllerAccepts
  <1>6. erp' = [erp EXCEPT ![n] = [kind |-> TargetDoctypes[TypeOf[act[p]]], source |-> SourceOf[act[p]],
                                   rows |-> ItemsOf[act[p]], status |-> "DRAFT"]]
    BY <1>2, <1>3, <1>4, <1>5, CreatesOrSubmits DEF ControllerWrite
  <1>7. /\ erp'[n].source = SourceOf[act[p]] /\ erp'[n].rows = ItemsOf[act[p]]
        /\ \A k \in DocNames \ {n} : erp'[k] = erp[k]
    BY <1>0, <1>6
  <1> QED
    BY <1>2, <1>3, <1>5, <1>7 DEF Drafts

\* Without a new draft, what is open stays open or leaves.
LEMMA OldConversion ==
    ASSUME TypeInv, [Next]_vars, NEW s \in DocNames, NEW d \in Open(s)', Exists(d)
    PROVE  d \in Open(s) /\ erp'[d].rows = erp[d].rows
  <1>1. d \in DocNames /\ erp'[d].source = s /\ erp'[d].status \in {"DRAFT", "SUBMITTED"}
    BY DEF Open, Converted
  <1>2. DocumentLater(d)
    BY <1>1, DocumentsMoveOn
  <1> QED
    BY <1>1, <1>2 DEF DocumentLater, Open, Converted, Exists

LEMMA OpenTotal ==
    ASSUME TypeInv, IsFiniteSet(DocNames), NEW s \in DocNames, NEW r \in Rows
    PROVE  /\ IsFiniteSet(Open(s))
           /\ [d \in Open(s) |-> erp[d].rows[r]] \in [Open(s) -> Nat]
           /\ Taken(s, r) \in Nat
  <1>1. IsFiniteSet(Open(s))
    BY FS_Subset DEF Open, Converted
  <1>2. \A d \in Open(s) : erp[d].rows[r] \in Nat
    BY DEF TypeInv, TypeOK, Docs, Open, Converted
  <1>3. [d \in Open(s) |-> erp[d].rows[r]] \in [Open(s) -> Nat]
    BY <1>2
  <1> QED
    BY <1>1, <1>3, UnitsFinite, TotalIsUnits DEF Taken

\* The same of the next state.
LEMMA NextTotal ==
    ASSUME TypeInv', IsFiniteSet(DocNames), NEW s \in DocNames, NEW r \in Rows
    PROVE  /\ IsFiniteSet(Open(s)')
           /\ [d \in Open(s)' |-> erp'[d].rows[r]] \in [Open(s)' -> Nat]
           /\ Taken(s, r)' = Cardinality(Units(Open(s)', [d \in Open(s)' |-> erp'[d].rows[r]]))
           /\ Taken(s, r)' \in Nat
  <1> DEFINE S == Open(s)'
             f == [d \in S |-> erp'[d].rows[r]]
  <1>1. S \subseteq DocNames
    BY DEF Open, Converted
  <1>2. IsFiniteSet(S)
    BY <1>1, FS_Subset
  <1>3. \A d \in DocNames : erp'[d].rows[r] \in Nat
    BY DEF TypeInv, TypeOK, Docs
  <1>4. f \in [S -> Nat]
    BY <1>1, <1>3
  <1>5. \A d \in S : f[d] = erp'[d].rows[r]
    OBVIOUS
  <1>6. Taken(s, r)' = Cardinality(UNION {{d} \X (1 .. erp'[d].rows[r]) : d \in S})
    BY DEF Taken, RowTotal
  <1>7. {{d} \X (1 .. erp'[d].rows[r]) : d \in S} = {{d} \X (1 .. f[d]) : d \in S}
    BY <1>5
  <1>8. Taken(s, r)' = Cardinality(Units(S, f))
    BY <1>6, <1>7 DEF Units
  <1>9. Cardinality(Units(S, f)) \in Nat
    <2> HIDE DEF S, f
    <2> QED
      BY <1>2, <1>4, UnitsFinite
  <1> QED
    BY <1>2, <1>4, <1>8, <1>9

\* What is converted of a row grows only by the draft of one T2.
LEMMA TotalStep ==
    ASSUME TypeInv, TypeInv', IsFiniteSet(DocNames), [Next]_vars, NEW s \in DocNames, NEW r \in Rows
    PROVE  \/ Taken(s, r)' <= Taken(s, r)
           \/ \E p \in Requests, n \in DocNames :
                 /\ Drafts(p, n) /\ SourceOf[act[p]] = s
                 /\ Taken(s, r)' <= Taken(s, r) + ItemsOf[act[p]][r]
  <1> DEFINE S == Open(s)
             f == [d \in S |-> erp[d].rows[r]]
             T == Open(s)'
             g == [d \in T |-> erp'[d].rows[r]]
             before == Taken(s, r)
             after == Taken(s, r)'
  <1>1. /\ IsFiniteSet(S) /\ f \in [S -> Nat] /\ before = Cardinality(Units(S, f))
        /\ IsFiniteSet(T) /\ g \in [T -> Nat] /\ after = Cardinality(Units(T, g))
    BY OpenTotal, NextTotal, TotalIsUnits DEF Taken
  <1>2. \A d \in T : Exists(d) => d \in S /\ g[d] = f[d]
    BY OldConversion
  <1>3. CASE \A d \in T : Exists(d)
    <2>1. \A d \in T : g[d] = 0 \/ (d \in S /\ g[d] = f[d])
      BY <1>2, <1>3
    <2> HIDE DEF S, f, T, g
    <2>2. Cardinality(Units(T, g)) <= Cardinality(Units(S, f))
      BY <1>1, <2>1, FewerUnits
    <2> QED
      BY <1>1, <2>2
  <1>4. ASSUME NEW n \in T, ~Exists(n)
        PROVE  \E p \in Requests, m \in DocNames :
                 /\ Drafts(p, m) /\ SourceOf[act[p]] = s
                 /\ after <= before + ItemsOf[act[p]][r]
    <2>1. n \in DocNames /\ erp[n].status = "ABSENT" /\ erp'[n].status # "ABSENT" /\ erp'[n].source = s
      BY <1>4 DEF Open, Converted, Exists
    <2>2. PICK p \in Requests : Drafts(p, n)
      BY <2>1, DraftStep
    <2>3. \A d \in T \ {n} : d \in S /\ g[d] = f[d]
      BY <2>2 DEF Drafts, Open, Converted
    <2>4. g[n] = ItemsOf[act[p]][r] /\ SourceOf[act[p]] = s
      BY <1>4, <2>1, <2>2 DEF Drafts
    <2>5. Cardinality(Units(T, g)) <= Cardinality(Units(S, f)) + g[n]
      <3> HIDE DEF S, f, T, g
      <3> QED
        BY <1>1, <1>4, <2>3, OneMoreDocument
    <2>6. after <= before + ItemsOf[act[p]][r]
      BY <1>1, <2>4, <2>5
    <2> QED
      BY <2>1, <2>2, <2>4, <2>6
  <1> QED
    BY <1>3, <1>4

-----------------------------------------------------------------------------
(* The locks, the room and the total. *)

LEMMA LocksExcludeStep ==
    ASSUME TypeInv, LocksExclude, [Next]_vars
    PROVE  LocksExclude'
  <1> SUFFICES ASSUME NEW p \in Requests, NEW q \in Requests, p # q, NEW k \in held'[p], k \in held'[q]
               PROVE  FALSE
    BY DEF LocksExclude
  <1>0. held \in [Requests -> SUBSET (DocNames \X Nat)]
    BY DEF TypeInv, RequestOK
  <1>1. HeldStep(p) /\ HeldStep(q)
    BY LocksMove
  <1>2. ASSUME NEW x \in Requests, NEW y \in Requests, x # y, k \in held'[x], k \in held'[y],
               NEW l, Free(l), held' = [held EXCEPT ![x] = held[x] \cup {l}]
        PROVE  FALSE
    <2>1. k \in held[y] /\ (k \in held[x] \/ k = l)
      BY <1>0, <1>2
    <2> QED
      BY <1>2, <2>1 DEF Free, LocksExclude
  <1>3. CASE held'[p] = held[p] /\ held'[q] = held[q]
    BY <1>3 DEF LocksExclude
  <1> QED
    BY <1>1, <1>2, <1>3 DEF HeldStep

LEMMA WritersHoldLocksStep ==
    ASSUME TypeInv, WritersHoldLocks, [Next]_vars
    PROVE  WritersHoldLocks'
  <1> SUFFICES ASSUME NEW q \in Requests, pc'[q] = "t2"
               PROVE  LockNames(act'[q]) \subseteq held'[q]
    BY DEF WritersHoldLocks, LockNames, RowsWanted
  <1>0. held \in [Requests -> SUBSET (DocNames \X Nat)]
    BY DEF TypeInv, RequestOK
  <1>1. RequestStep(q) /\ HeldStep(q)
    BY RequestsMove, LocksMove
  <1>2. CASE Stays(q)
    <2>1. LockNames(act[q]) \subseteq held[q] /\ act'[q] = act[q]
      BY <1>2 DEF Stays, WritersHoldLocks
    <2>2. held[q] \subseteq held'[q]
      BY <1>0, <1>1, <1>2 DEF Stays, HeldStep
    <2> QED
      BY <2>1, <2>2
  <1>3. CASE Opens(q)
    BY <1>3 DEF Opens, Handlers, LocksHeld, Wanted
  <1> QED
    BY <1>1, <1>2, <1>3 DEF RequestStep, Claims, Fails

\* The gates let a conversion through only when there is room for it.
LEMMA GateLeavesRoom ==
    ASSUME TypeInv, IsFiniteSet(DocNames), NEW a \in Actions, Creates(a), DeterministicGate(a)
    PROVE  Exists(SourceOf[a]) /\ \A r \in RowsWanted(a) : Fits(a, r)
  <1> DEFINE s == SourceOf[a]
  <1>1. Exists(s) /\ ConversionGate(a) /\ s \in DocNames
    BY P2PConstants DEF DeterministicGate
  <1>2. ASSUME NEW r \in RowsWanted(a)
        PROVE  Fits(a, r)
    <2> DEFINE S == Converted(s, {"SUBMITTED"})
               f == [d \in S |-> erp[d].rows[r]]
               T == Open(s)
               g == [d \in T |-> erp[d].rows[r]]
    <2>0. r \in Rows /\ ItemsOf[a][r] \in Nat /\ ItemsOf[a][r] > 0
      BY P2PConstants DEF RowsWanted
    <2>1. /\ ItemsOf[a][r] <= Remaining(s, r)
          /\ \A d \in Converted(s, {"DRAFT"}) : erp[d].rows[r] = 0
      BY <1>1 DEF ConversionGate
    <2>2. \A d \in T : g[d] = 0 \/ (d \in S /\ g[d] = f[d])
      BY <2>1 DEF Open, Converted
    <2>3. IsFiniteSet(S) /\ f \in [S -> Nat] /\ RowTotal(S, r) = Cardinality(Units(S, f))
      <3>1. IsFiniteSet(S)
        BY FS_Subset DEF Converted
      <3>2. \A d \in S : erp[d].rows[r] \in Nat
        BY <2>0 DEF TypeInv, TypeOK, Docs, Converted
      <3> QED
        BY <3>1, <3>2, TotalIsUnits
    <2>4. IsFiniteSet(T) /\ g \in [T -> Nat] /\ Taken(s, r) = Cardinality(Units(T, g))
      BY <1>1, <2>0, OpenTotal, TotalIsUnits DEF Taken
    <2>5. Cardinality(Units(T, g)) <= Cardinality(Units(S, f)) /\ Cardinality(Units(S, f)) \in Nat
      <3> HIDE DEF S, f, T, g
      <3> QED
        BY <2>2, <2>3, <2>4, FewerUnits, UnitsFinite
    <2>6. Taken(s, r) \in Nat
      BY <1>1, <2>0, OpenTotal
    <2>7. ItemsOf[a][r] + RowTotal(S, r) <= erp[s].rows[r]
      <3>1. erp[s].rows[r] \in Nat /\ RowTotal(S, r) \in Nat
        BY <1>1, <2>0, <2>3, <2>5 DEF TypeInv, TypeOK, Docs
      <3> QED
        BY <2>0, <2>1, <3>1 DEF Remaining
    <2>8. erp[s].rows[r] \in Nat
      BY <1>1, <2>0 DEF TypeInv, TypeOK, Docs
    <2> HIDE DEF S, f, T, g
    <2>9. Taken(s, r) + ItemsOf[a][r] <= erp[s].rows[r]
      BY <2>0, <2>3, <2>4, <2>5, <2>6, <2>7, <2>8
    <2> QED
      BY <2>9 DEF Fits
  <1> QED
    BY <1>1, <1>2

\* Two conversions of one source that are both in T2 convert different rows.
LEMMA ConversionsApart ==
    ASSUME TypeInv, LocksExclude, WritersHoldLocks, PaymentsApart,
           NEW p \in Requests, NEW q \in Requests, p # q, pc[p] = "t2", pc[q] = "t2",
           Creates(act[p]), Creates(act[q]), SourceOf[act[p]] = SourceOf[act[q]]
    PROVE  RowsWanted(act[p]) \cap RowsWanted(act[q]) = {}
  <1>1. act[p] \in Actions /\ act[q] \in Actions
    BY DEF TypeInv, RequestOK
  <1>2. LockNames(act[p]) \cap LockNames(act[q]) = {}
    BY DEF LocksExclude, WritersHoldLocks
  <1>3. (TypeOf[act[p]] = "CREATE_PAYMENT_ENTRY_DRAFT") = (TypeOf[act[q]] = "CREATE_PAYMENT_ENTRY_DRAFT")
    BY <1>1 DEF PaymentsApart
  <1>4. CASE TypeOf[act[p]] = "CREATE_PAYMENT_ENTRY_DRAFT"
    <2>1. LockNames(act[p]) = {<<SourceOf[act[p]], 0>>} /\ LockNames(act[q]) = {<<SourceOf[act[q]], 0>>}
      BY <1>3, <1>4 DEF LockNames
    <2> QED
      BY <1>2, <2>1
  <1>5. CASE TypeOf[act[p]] # "CREATE_PAYMENT_ENTRY_DRAFT"
    <2>1. /\ TypeOf[act[p]] \in {"CREATE_PR_DRAFT", "CREATE_PI_DRAFT"}
          /\ TypeOf[act[q]] \in {"CREATE_PR_DRAFT", "CREATE_PI_DRAFT"}
      BY <1>3, <1>5 DEF Creates, CreateActions
    <2>2. /\ \A r \in RowsWanted(act[p]) : <<SourceOf[act[p]], r>> \in LockNames(act[p])
          /\ \A r \in RowsWanted(act[q]) : <<SourceOf[act[p]], r>> \in LockNames(act[q])
      BY <2>1 DEF LockNames
    <2> QED
      BY <1>2, <2>2
  <1> QED
    BY <1>4, <1>5

LEMMA RoomStep ==
    ASSUME TypeInv, TypeInv', IsFiniteSet(DocNames), PaymentsApart, LocksExclude, WritersHoldLocks,
           RoomIsKept, [Next]_vars
    PROVE  RoomIsKept'
  <1> SUFFICES ASSUME NEW q \in Requests, NEW a \in Actions,
                      pc'[q] = "t2", snap'[q].gate, act'[q] = a, Creates(a)
               PROVE  Exists(SourceOf[a])' /\ \A r \in RowsWanted(a) : Fits(a, r)'
    BY DEF RoomIsKept, Creates, RowsWanted
  <1>0. PICK s \in DocNames : s = SourceOf[a]
    BY P2PConstants
  <1>1. RequestStep(q)
    BY RequestsMove
  <1>2. CASE Stays(q)
    <2>1. /\ pc[q] = "t2" /\ snap[q].gate /\ act[q] = a
          /\ Exists(s) /\ \A r \in RowsWanted(a) : Fits(a, r)
      BY <1>0, <1>2 DEF Stays, RoomIsKept
    <2>2. erp'[s].status # "ABSENT" /\ erp'[s].rows = erp[s].rows
      BY <2>1, DocumentsMoveOn DEF DocumentLater, Exists
    <2>3. ASSUME NEW r \in RowsWanted(a)
          PROVE  Taken(s, r)' <= Taken(s, r)
      <3>1. r \in Rows
        BY DEF RowsWanted
      <3>2. ASSUME NEW p \in Requests, NEW n \in DocNames, Drafts(p, n), SourceOf[act[p]] = s
            PROVE  ItemsOf[act[p]][r] = 0
        <4>1. p # q /\ pc[p] = "t2" /\ Creates(act[p]) /\ act[p] \in Actions
          BY <3>2, <1>2, <2>1 DEF Drafts, Stays
        <4>2. RowsWanted(act[p]) \cap RowsWanted(act[q]) = {}
          BY <1>0, <3>2, <4>1, <2>1, ConversionsApart
        <4>3. r \notin RowsWanted(act[p]) /\ ItemsOf[act[p]][r] \in Nat
          BY <2>1, <2>3, <3>1, <4>1, <4>2, P2PConstants
        <4> QED
          BY <3>1, <4>3 DEF RowsWanted
      <3>3. Taken(s, r) \in Nat
        BY <3>1, OpenTotal
      <3> QED
        BY <3>1, <3>2, <3>3, TotalStep
    <2>4. ASSUME NEW r \in RowsWanted(a)
          PROVE  Fits(a, r)'
      <3>1. r \in Rows
        BY DEF RowsWanted
      <3>2. Taken(s, r) \in Nat /\ Taken(s, r)' \in Nat
        BY <3>1, OpenTotal, NextTotal
      <3>3. ItemsOf[a][r] \in Nat /\ erp[s].rows[r] \in Nat
        BY <3>1, P2PConstants DEF TypeInv, TypeOK, Docs
      <3>4. Taken(s, r) + ItemsOf[a][r] <= erp[s].rows[r]
        BY <1>0, <2>1, <2>4 DEF Fits
      <3>5. Taken(s, r)' <= Taken(s, r)
        BY <2>3, <2>4
      <3>6. Taken(s, r)' + ItemsOf[a][r] <= erp'[s].rows[r]
        BY <2>2, <3>2, <3>3, <3>4, <3>5
      <3> QED
        BY <1>0, <3>6 DEF Fits
    <2> QED
      BY <1>0, <2>2, <2>4 DEF Exists
  <1>3. CASE Opens(q)
    <2>1. snap'[q] = Snapshot(a) /\ UNCHANGED erp
      BY <1>3 DEF Opens, Handlers
    <2>2. DeterministicGate(a)
      BY <2>1 DEF Snapshot
    <2>3. Exists(SourceOf[a]) /\ \A r \in RowsWanted(a) : Fits(a, r)
      BY <2>2, GateLeavesRoom
    <2>4. \A r : Fits(a, r)' = Fits(a, r)
      BY <2>1 DEF Fits, Taken, RowTotal, Open, Converted
    <2> QED
      BY <2>1, <2>3, <2>4 DEF Exists
  <1> QED
    BY <1>1, <1>2, <1>3 DEF RequestStep, Claims, Fails

LEMMA NoOverConversionStep ==
    ASSUME TypeInv, TypeInv', IsFiniteSet(DocNames), SourcesKnown, ProposedKnown, RoomIsKept,
           NoOverConversion, [Next]_vars
    PROVE  NoOverConversion'
  <1> SUFFICES ASSUME NEW n \in DocNames, NEW r \in Rows, erp'[n].status # "ABSENT"
               PROVE  Taken(n, r)' <= erp'[n].rows[r]
    BY DEF NoOverConversion, Exists, Taken, Open
  <1>0. Taken(n, r) \in Nat /\ Taken(n, r)' \in Nat /\ erp'[n].rows[r] \in Nat
    <2>1. Taken(n, r) \in Nat
      BY OpenTotal
    <2>2. Taken(n, r)' \in Nat
      BY NextTotal
    <2>3. erp'[n].rows[r] \in Nat
      BY DEF TypeInv, TypeOK, Docs
    <2> QED
      BY <2>1, <2>2, <2>3
  <1>1. CASE Exists(n)
    <2>1. erp'[n].rows = erp[n].rows
      BY <1>1, DocumentsMoveOn DEF DocumentLater, Exists
    <2>2. Taken(n, r) <= erp[n].rows[r]
      BY <1>1 DEF NoOverConversion, Taken, Open
    <2>3. ASSUME NEW p \in Requests, NEW m \in DocNames, Drafts(p, m), SourceOf[act[p]] = n,
                 Taken(n, r)' <= Taken(n, r) + ItemsOf[act[p]][r]
          PROVE  Taken(n, r)' <= erp[n].rows[r]
      <3>1. act[p] \in Actions /\ pc[p] = "t2" /\ snap[p].gate /\ Creates(act[p])
        BY <2>3 DEF Drafts
      <3>2. CASE r \in RowsWanted(act[p])
        <4>1. Taken(n, r) + ItemsOf[act[p]][r] <= erp[n].rows[r]
          BY <2>3, <3>1, <3>2 DEF RoomIsKept, Fits
        <4>2. ItemsOf[act[p]][r] \in Nat /\ erp[n].rows[r] \in Nat
          BY <3>1, P2PConstants DEF TypeInv, TypeOK, Docs
        <4> QED
          BY <1>0, <2>3, <4>1, <4>2
      <3>3. CASE r \notin RowsWanted(act[p])
        <4>1. ItemsOf[act[p]][r] = 0
          BY <3>1, <3>3, P2PConstants DEF RowsWanted
        <4>2. erp[n].rows[r] \in Nat
          BY DEF TypeInv, TypeOK, Docs
        <4> QED
          BY <1>0, <2>2, <2>3, <4>1, <4>2
      <3> QED
        BY <3>2, <3>3
    <2>4. CASE Taken(n, r)' <= Taken(n, r)
      BY <1>0, <2>1, <2>2, <2>4
    <2> QED
      BY <2>1, <2>3, <2>4, TotalStep
  <1>2. CASE ~Exists(n)
    <2>1. ASSUME NEW d \in Open(n)'
          PROVE  FALSE
      <3>1. d \in DocNames /\ erp'[d].source = n /\ erp'[d].status # "ABSENT"
        BY <2>1 DEF Open, Converted
      <3>2. CASE Exists(d)
        <4>1. erp[d].source = n
          BY <3>1, <3>2, DocumentsStay
        <4>2. n # NoName
          BY P2PConstants
        <4> QED
          BY <1>2, <3>1, <3>2, <4>1, <4>2 DEF SourcesKnown
      <3>3. CASE ~Exists(d)
        <4>1. PICK a \in Actions : action[a] = "APPROVED" /\ erp'[d].source = SourceOf[a]
          BY <3>1, <3>3, NewDocument DEF Exists
        <4> QED
          BY <1>2, <3>1, <4>1 DEF ProposedKnown
      <3> QED
        BY <3>2, <3>3
    <2>2. Open(n)' = {}
      BY <2>1
    <2>3. Taken(n, r)' = Cardinality({})
      BY <2>2 DEF Taken, RowTotal
    <2> QED
      BY <1>0, <2>3, FS_EmptySet
  <1> QED
    BY <1>1, <1>2

\* The ERP starts with no row converted beyond its quantity.
InitialRoom ==
    \A n \in DocNames, r \in Rows :
        InitialDocs[n].status # "ABSENT" =>
            Cardinality(UNION {{d} \X (1 .. InitialDocs[d].rows[r]) :
                                  d \in {x \in DocNames : /\ InitialDocs[x].source = n
                                                          /\ InitialDocs[x].status \in {"DRAFT", "SUBMITTED"}}})
               <= InitialDocs[n].rows[r]

LEMMA ConversionInvariance ==
    ASSUME IsFiniteSet(DocNames), PaymentsApart, InitialSourcesKnown, InitialRoom
    PROVE  Spec => []ConversionInv
  <1>1. Init => ConversionInv
    <2> SUFFICES ASSUME Init
                 PROVE  ConversionInv
      OBVIOUS
    <2>1. SourcesKnown /\ ProposedKnown
      BY DEF Init, InitialSourcesKnown, SourcesKnown, ProposedKnown, Exists
    <2>2. LocksExclude /\ WritersHoldLocks /\ RoomIsKept
      BY DEF Init, LocksExclude, WritersHoldLocks, RoomIsKept
    <2>3. NoOverConversion
      BY DEF Init, InitialRoom, NoOverConversion, Exists, RowTotal, Converted
    <2> QED
      BY <2>1, <2>2, <2>3 DEF ConversionInv
  <1>2. TypeInv /\ TypeInv' /\ LedgerInv /\ ConversionInv /\ [Next]_vars => ConversionInv'
    <2> SUFFICES ASSUME TypeInv, TypeInv', LedgerInv, ConversionInv, [Next]_vars
                 PROVE  ConversionInv'
      OBVIOUS
    <2>0. /\ SourcesKnown /\ ProposedKnown /\ LocksExclude /\ WritersHoldLocks
          /\ RoomIsKept /\ NoOverConversion
      BY DEF ConversionInv
    <2>1. SourcesKnown' /\ ProposedKnown'
      BY <2>0, SourcesKnownStep, ProposedKnownStep
    <2>2. LocksExclude' /\ WritersHoldLocks'
      BY <2>0, LocksExcludeStep, WritersHoldLocksStep
    <2>3. RoomIsKept'
      BY <2>0, RoomStep
    <2>4. NoOverConversion'
      BY <2>0, NoOverConversionStep
    <2> QED
      BY <2>1, <2>2, <2>3, <2>4 DEF ConversionInv
  <1> QED
    BY <1>1, <1>2, P2PTypeCorrect, LedgerInvariance, PTL DEF Spec

\* However many executions convert rows of however many documents at the same
\* time, with controllers that commit and people who submit and cancel:
\* drafts and submitted documents together never exceed a row of their source.
THEOREM RowsAreNeverOverConverted ==
    ASSUME IsFiniteSet(DocNames), PaymentsApart, InitialSourcesKnown, InitialRoom
    PROVE  Spec => []NoOverConversion
  <1>1. ConversionInv => NoOverConversion
    BY DEF ConversionInv
  <1> QED
    BY <1>1, ConversionInvariance, PTL
=============================================================================
