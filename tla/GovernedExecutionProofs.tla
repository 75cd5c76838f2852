---------------------- MODULE GovernedExecutionProofs ----------------------
(***************************************************************************)
(* Proofs about GovernedExecution for any number of Actions, Runs and      *)
(* concurrent requests, and whether or not ERP controllers commit.         *)
(***************************************************************************)
EXTENDS GovernedExecution, FiniteSetTheorems, WellFoundedInduction, TLAPS

\* The places of an execution after T1 has committed.
Reserved == {"reserved", "t2", "cleared", "t2b", "ok", "failed", "t3"}

\* The places from which a request may still insert its draft.
Writing == {"reserved", "t2", "cleared"}

\* A request that is under way is about an Action; past the gates it holds the
\* approval and the Run they saw, after a controller's commit the draft's name.
RequestOK ==
    /\ \A p \in Requests : pc[p] # "idle" => act[p] \in Actions
    /\ \A p \in Requests : pc[p] = "t2b" => snap[p].action = "APPROVED" /\ written[p] \in Names
    /\ \A p \in Requests : pc[p] = "cleared" =>
          /\ snap[p].action = "APPROVED" /\ snap[p].run.live
          /\ snap[p].run.state \in {"PROPOSED", "AWAITING_APPROVAL", "EXECUTING"}

TypeInv == TypeOK /\ RequestOK

\* Why no Action is written twice: whoever may still write holds the only
\* claim to a reserved Action that has no draft yet.
SingleWriter ==
    /\ \A p \in Requests : pc[p] \in Reserved => reservation[act[p]].status # "NONE"
    /\ \A p \in Requests : pc[p] \in Writing => OwnDrafts(act[p]) = {}
    /\ \A p, q \in Requests : pc[p] \in Writing /\ pc[q] \in Writing /\ act[p] = act[q] => p = q
    /\ \A a \in Actions : reservation[a].status = "NONE" => OwnDrafts(a) = {}

-----------------------------------------------------------------------------
(* Types. *)

\* A snapshot of well-typed tables is well typed.
LEMMA SnapshotType ==
    ASSUME TypeOK, NEW a \in Actions
    PROVE  Snapshot(a) \in Snapshots
  <1>1. action[a] \in ActionStates /\ reservation[a] \in Reservations /\ receipt[a] \in Receipts
    BY DEF TypeOK
  <1>2. run[RunOf[a]] \in RunRows
    BY ConstantsAssumption DEF TypeOK
  <1>3. {d \in docs : SameItem(d, a)} \in SUBSET Docs
    BY DEF TypeOK
  <1>4. Busy(RunOf[a]) \in BOOLEAN
    BY DEF Busy
  <1> QED
    BY <1>1, <1>2, <1>3, <1>4 DEF Snapshot, Snapshots

\* The values requests are reset to are well typed.
LEMMA InitialValues ==
    /\ NoReservation \in Reservations
    /\ NoReceipt \in Receipts
    /\ NoSnapshot \in Snapshots
  BY DEF NoReservation, NoReceipt, NoSnapshot, Reservations, Receipts, Snapshots, TargetNames,
         Unsettled, RunRows, RunStates, ActionStates

\* A request that ends leaves the request variables well typed.
LEMMA FinishType ==
    ASSUME TypeInv, NEW p \in Requests, Finish(p)
    PROVE  /\ pc' \in [Requests -> Places]
           /\ act' \in [Requests -> Actions \cup {NoAction}]
           /\ snap' \in [Requests -> Snapshots]
           /\ fault' \in [Requests -> {"NONE", "CERTAIN", "UNCERTAIN"}]
           /\ written' \in [Requests -> TargetNames]
           /\ RequestOK'
  <1>1. NoSnapshot \in Snapshots
    BY InitialValues
  <1>2. /\ pc' \in [Requests -> Places]
        /\ act' \in [Requests -> Actions \cup {NoAction}]
        /\ snap' \in [Requests -> Snapshots]
        /\ fault' \in [Requests -> {"NONE", "CERTAIN", "UNCERTAIN"}]
        /\ written' \in [Requests -> TargetNames]
    BY <1>1 DEF TypeInv, TypeOK, Finish, Places, TargetNames
  <1>3. RequestOK'
    BY DEF TypeInv, TypeOK, RequestOK, Finish
  <1> QED
    BY <1>2, <1>3

\* So does a transaction that opens, and one that ends while its request goes on.
LEMMA OpenTransactionType ==
    ASSUME TypeInv, NEW p \in Requests, NEW a \in Actions, NEW place \in Places,
           place \notin {"t2b", "cleared"}, OpenTransaction(p, a, place)
    PROVE  TypeInv'
  <1>1. Snapshot(a) \in Snapshots
    BY SnapshotType DEF TypeInv
  <1>2. TypeOK'
    BY <1>1 DEF TypeInv, TypeOK, OpenTransaction, ledgerVars, erpVars, clockVars
  <1>3. RequestOK'
    BY DEF TypeInv, TypeOK, RequestOK, OpenTransaction
  <1> QED
    BY <1>2, <1>3 DEF TypeInv

LEMMA ContinueType ==
    ASSUME TypeInv, NEW p \in Requests, NEW place \in Places, pc[p] # "idle",
           place \notin {"t2b", "cleared"}, Continue(p, place),
           written' = written \/ \E n \in TargetNames : written' = [written EXCEPT ![p] = n]
    PROVE  /\ pc' \in [Requests -> Places]
           /\ act' \in [Requests -> Actions \cup {NoAction}]
           /\ snap' \in [Requests -> Snapshots]
           /\ written' \in [Requests -> TargetNames]
           /\ RequestOK'
  <1>1. NoSnapshot \in Snapshots
    BY InitialValues
  <1>2. /\ pc' \in [Requests -> Places]
        /\ act' \in [Requests -> Actions \cup {NoAction}]
        /\ snap' \in [Requests -> Snapshots]
        /\ written' \in [Requests -> TargetNames]
    BY <1>1 DEF TypeInv, TypeOK, Continue
  <1>3. RequestOK'
    BY DEF TypeInv, TypeOK, RequestOK, Continue
  <1> QED
    BY <1>2, <1>3

\* Closing a Run writes a Run row.
LEMMA CloseRunType ==
    ASSUME TypeOK, NEW p \in Requests, NEW target \in RunStates, CloseRun(p, target)
    PROVE  run' \in [Runs -> RunRows]
  BY DEF TypeOK, CloseRun, RunRows

\* Where the reconciliation found its draft, the draft has a name.
LEMMA ReconcileTarget ==
    ASSUME TypeOK, NEW p \in Requests, Classification(p) = "RECONCILED_SUCCESS"
    PROVE  (CHOOSE d \in Matches(p) : TRUE).name \in Names
  <1>1. Matches(p) # {}
    <2>1. Cardinality(Matches(p)) = 1
      BY DEF Classification, ClassifyReconciliation
    <2> QED
      BY <2>1, FS_EmptySet
  <1>2. Matches(p) \subseteq Docs
    BY DEF TypeOK, Snapshots, Matches, Candidates, FirstByName
  <1> QED
    BY <1>1, <1>2 DEF Docs

LEMMA ClassificationType ==
    ASSUME NEW p \in Requests
    PROVE  Classification(p) \in {"RECONCILED_SUCCESS", "RECONCILED_FAILURE", "MANUAL_INTERVENTION"}
  BY DEF Classification, ClassifyReconciliation

\* The transaction that ends an execution writes rows of the right type.
LEMMA RecordSuccessType ==
    ASSUME TypeInv, NEW p \in Requests, NEW n \in Names, pc[p] # "idle", RecordSuccess(p, n)
    PROVE  /\ action' \in [Actions -> ActionStates]
           /\ run' \in [Runs -> RunRows]
           /\ reservation' \in [Actions -> Reservations]
           /\ receipt' \in [Actions -> Receipts]
           /\ pc' \in [Requests -> Places]
           /\ act' \in [Requests -> Actions \cup {NoAction}]
           /\ snap' \in [Requests -> Snapshots]
           /\ written' \in [Requests -> TargetNames]
           /\ RequestOK'
  <1>1. act[p] \in Actions
    BY DEF TypeInv, RequestOK
  <1>2. run' \in [Runs -> RunRows]
    BY CloseRunType DEF TypeInv, RecordSuccess, RunStates
  <1>3. action' \in [Actions -> ActionStates]
    BY DEF TypeInv, TypeOK, RecordSuccess, ActionStates
  <1>4. reservation' \in [Actions -> Reservations]
    BY <1>1 DEF TypeInv, TypeOK, RecordSuccess, Reservations, FinalStates, SuccessStates, TargetNames
  <1>5. receipt' \in [Actions -> Receipts]
    BY <1>1 DEF TypeInv, TypeOK, RecordSuccess, ReceiptInput, Receipts, FinalStates, SuccessStates,
                TargetNames
  <1>6. Continue(p, "ok") /\ written' = [written EXCEPT ![p] = n] /\ n \in TargetNames
    BY DEF RecordSuccess, TargetNames
  <1>7. "ok" \in Places
    BY DEF Places
  <1> QED
    BY <1>2, <1>3, <1>4, <1>5, <1>6, <1>7, ContinueType

\* Every step of an execution keeps the types.
LEMMA ExecuteType ==
    ASSUME TypeInv, NEW p \in Requests, Execute(p)
    PROVE  TypeInv'
  <1> USE DEF TypeInv, erpVars, ledgerVars, clockVars
  <1>1. CASE T1Expire(p)
    <2>1. action' \in [Actions -> ActionStates]
      BY <1>1 DEF TypeOK, T1Expire, ActionStates
    <2> QED
      BY <1>1, <2>1, FinishType DEF TypeOK, T1Expire
  <1>2. CASE T1Reserve(p)
    <2>1. reservation' \in [Actions -> Reservations]
      BY <1>2 DEF TypeOK, T1Reserve, Reservations, StartedReservation, Unsettled, TargetNames
    <2>2. run' \in [Runs -> RunRows]
      <3>1. snap[p].run.live \in BOOLEAN
        BY DEF TypeOK, Snapshots, RunRows
      <3> QED
        BY <1>2, <3>1 DEF TypeOK, T1Reserve, MoveRunToExecuting, RunRows, RunStates
    <2>3. "reserved" \in Places /\ "reserved" \notin {"t2b", "cleared"} /\ pc[p] # "idle"
      BY <1>2 DEF T1Reserve, Places
    <2> QED
      BY <1>2, <2>1, <2>2, <2>3, ContinueType DEF TypeOK, T1Reserve
  <1>3. CASE Replay(p)
    <2>1. act[p] \in Actions /\ snap[p].receipt.target \in TargetNames
      BY <1>3 DEF TypeOK, RequestOK, Replay, Snapshots, Receipts
    <2> QED
      BY <1>3, <2>1, FinishType DEF TypeOK, Replay
  <1>4. CASE T2Begin(p)
    BY <1>4, OpenTransactionType DEF T2Begin, RequestOK, Places
  <1>5. CASE \E n \in Names : T2Commit(p, n)
    <2>1. PICK n \in Names : T2Commit(p, n)
      BY <1>5
    <2>2. act[p] \in Actions /\ pc[p] # "idle"
      BY <2>1 DEF T2Commit, RequestOK
    <2>3. docs' \subseteq Docs
      BY <2>1, <2>2, ConstantsAssumption DEF TypeOK, T2Commit, Draft, Docs
    <2> QED
      BY <2>1, <2>2, <2>3, RecordSuccessType DEF TypeOK, T2Commit
  <1>6. CASE \E n \in Names : T2Insert(p, n)
    <2>1. PICK n \in Names : T2Insert(p, n)
      BY <1>6
    <2>2. act[p] \in Actions
      BY <2>1 DEF T2Insert, RequestOK
    <2>3. docs' \subseteq Docs
      BY <2>1, <2>2, ConstantsAssumption DEF TypeOK, T2Insert, Draft, Docs
    <2>4. TypeOK'
      BY <2>1, <2>3 DEF TypeOK, T2Insert, Places, TargetNames
    <2>5. RequestOK'
      BY <2>1, <2>2 DEF TypeOK, T2Insert, RequestOK
    <2> QED
      BY <2>4, <2>5
  <1>7. CASE T2Record(p)
    <2>1. written[p] \in Names /\ pc[p] # "idle"
      BY <1>7 DEF T2Record, RequestOK
    <2> QED
      BY <1>7, <2>1, RecordSuccessType DEF TypeOK, T2Record
  <1>8. CASE \E outcome \in {"CERTAIN", "UNCERTAIN"} : T2Fail(p, outcome)
    <2>1. PICK outcome \in {"CERTAIN", "UNCERTAIN"} : T2Fail(p, outcome)
      BY <1>8
    <2>2. "failed" \in Places /\ NoName \in TargetNames /\ pc[p] # "idle"
      BY <2>1 DEF T2Fail, Places, TargetNames
    <2> QED
      BY <2>1, <2>2, ContinueType DEF TypeOK, T2Fail
  <1>9. CASE Respond(p)
    <2>1. act[p] \in Actions /\ written[p] \in TargetNames
      BY <1>9 DEF TypeOK, RequestOK, Respond
    <2> QED
      BY <1>9, <2>1, FinishType DEF TypeOK, Respond
  <1>10. CASE T3Begin(p)
    BY <1>10, OpenTransactionType DEF T3Begin, RequestOK, Places
  <1>11. CASE T3Commit(p)
    <2>1. action' \in [Actions -> ActionStates]
      BY <1>11 DEF TypeOK, T3Commit, ActionStates
    <2>2. reservation' \in [Actions -> Reservations]
      BY <1>11 DEF TypeOK, T3Commit, Reservations, Unsettled, FinalStates, TargetNames
    <2>3. receipt' \in [Actions -> Receipts]
      BY <1>11 DEF TypeOK, T3Commit, ReceiptInput, Receipts, FinalStates, TargetNames
    <2>4. run' \in [Runs -> RunRows]
      BY <1>11, CloseRunType DEF T3Commit, RunStates
    <2> QED
      BY <1>11, <2>1, <2>2, <2>3, <2>4, FinishType DEF TypeOK, T3Commit
  <1>12. CASE T2Recheck(p)
    <2>1. TypeOK'
      BY <1>12 DEF TypeOK, T2Recheck, Places
    <2>2. /\ snap[p].action = "APPROVED" /\ snap[p].run.live
          /\ snap[p].run.state \in {"PROPOSED", "AWAITING_APPROVAL", "EXECUTING"}
      BY <1>12 DEF T2Recheck, PreExecuteRecheck, ProofCurrent, GatesPass, RunIdentity
    <2>3. RequestOK'
      BY <1>12, <2>2 DEF TypeOK, T2Recheck, RequestOK
    <2> QED
      BY <2>1, <2>3
  <1> QED
    BY <1>1, <1>2, <1>3, <1>4, <1>5, <1>6, <1>7, <1>8, <1>9, <1>10, <1>11, <1>12 DEF Execute

\* Every step keeps the types.
LEMMA TypeStep ==
    ASSUME TypeInv, [Next]_vars
    PROVE  TypeInv'
  <1> USE DEF TypeInv, erpVars, ledgerVars, clockVars, requestVars
  <1>1. ASSUME NEW p \in Requests, Request(p)
        PROVE  TypeInv'
    <2>1. CASE \E a \in Actions, handler \in Handlers : Begin(p, a, handler)
      <3>1. PICK a \in Actions, handler \in Handlers : Begin(p, a, handler)
        BY <2>1
      <3>2. handler \in Places /\ handler \notin {"t2b", "cleared"}
        BY DEF Handlers, Places
      <3> QED
        BY <3>1, <3>2, OpenTransactionType DEF Begin
    <2>2. CASE \E decision \in {"APPROVED", "DECLINED"} : Decide(p, decision)
      <3>1. PICK decision \in {"APPROVED", "DECLINED"} : Decide(p, decision)
        BY <2>2
      <3>2. action' \in [Actions -> ActionStates]
        BY <3>1 DEF TypeOK, Decide, ActionStates
      <3> QED
        BY <3>1, <3>2, FinishType DEF TypeOK, Decide
    <2>3. CASE Execute(p)
      BY <2>3, ExecuteType
    <2>4. CASE Reconcile(p)
      <3> DEFINE found == Classification(p) = "RECONCILED_SUCCESS"
                 target == IF found THEN (CHOOSE d \in Matches(p) : TRUE).name ELSE NoName
      <3>1. target \in TargetNames
        BY ReconcileTarget DEF TargetNames
      <3>2. action' \in [Actions -> ActionStates]
        BY <2>4 DEF TypeOK, Reconcile, ActionStates
      <3>3. Classification(p) \in FinalStates
        BY ClassificationType DEF FinalStates, SuccessStates
      <3>4. receipt' \in [Actions -> Receipts]
        <4>1. receipt' = [receipt EXCEPT ![act[p]] = [state |-> Classification(p), target |-> target]]
          BY <2>4 DEF Reconcile, ReconciliationReceipt
        <4> HIDE DEF target
        <4> QED
          BY <4>1, <3>1, <3>3 DEF TypeOK, Receipts
      <3>5. reservation' \in [Actions -> Reservations]
        <4>1. reservation' = [reservation EXCEPT ![act[p]] =
                                [status |-> Classification(p), target |-> target, failure |-> TRUE]]
          BY <2>4 DEF Reconcile, ReconciliationReceipt
        <4> HIDE DEF target
        <4> QED
          BY <4>1, <3>1, <3>3 DEF TypeOK, Reservations
      <3>6. run' \in [Runs -> RunRows]
        <4>1. PICK end \in {"SUCCEEDED", "FAILED", "RECONCILIATION_REQUIRED"} :
                 CloseReconciledRun(p, end)
          BY <2>4 DEF Reconcile
        <4>2. end \in RunStates
          BY DEF RunStates
        <4> QED
          BY <4>1, <4>2, CloseRunType DEF CloseReconciledRun, TypeOK
      <3>7. Finish(p) /\ UNCHANGED <<erpVars, clockVars>>
        BY <2>4 DEF Reconcile
      <3>8. answers' \subseteq Actions \X TargetNames
        <4>1. answers' = answers \cup {<<act[p], target>>} \/ answers' = answers
          BY <2>4 DEF Reconcile, ReconciliationReceipt
        <4>2. act[p] \in Actions
          BY <2>4 DEF Reconcile, RequestOK
        <4> HIDE DEF target
        <4> QED
          BY <4>1, <4>2, <3>1 DEF TypeOK
      <3> QED
        BY <3>2, <3>4, <3>5, <3>6, <3>7, <3>8, FinishType DEF TypeOK
    <2>5. CASE AnswerSettled(p)
      <3>1. act[p] \in Actions /\ snap[p].receipt.target \in TargetNames
        BY <2>5 DEF TypeOK, RequestOK, AnswerSettled, Snapshots, Receipts
      <3> QED
        BY <2>5, <3>1, FinishType DEF TypeOK, AnswerSettled, ReconciliationResponse
    <2>6. CASE CancelRun(p)
      <3>1. run' \in [Runs -> RunRows]
        BY <2>6, CloseRunType DEF CancelRun, RunStates
      <3> QED
        BY <2>6, <3>1, FinishType DEF TypeOK, CancelRun
    <2>7. CASE Abandon(p)
      BY <2>7, FinishType DEF TypeOK, Abandon
    <2> QED
      BY <1>1, <2>1, <2>2, <2>3, <2>4, <2>5, <2>6, <2>7 DEF Request
  <1>2. CASE World
    <2>1. ASSUME NEW a \in Actions, LeaseExpires(a) \/ ActionDeadlinePasses(a)
          PROVE  TypeInv'
      BY <2>1 DEF TypeOK, RequestOK, LeaseExpires, ActionDeadlinePasses
    <2>2. ASSUME NEW r \in Runs, RevokeRun(r) \/ RunDeadlinePasses(r)
          PROVE  TypeInv'
      <3>1. run' \in [Runs -> RunRows]
        <4>1. run[r].state \in RunStates
          BY DEF TypeOK, RunRows
        <4>2. [state |-> run[r].state, live |-> FALSE] \in RunRows
          BY <4>1 DEF RunRows
        <4> QED
          BY <2>2, <4>2 DEF TypeOK, RevokeRun, RunDeadlinePasses
      <3> QED
        BY <2>2, <3>1 DEF TypeOK, RequestOK, RevokeRun, RunDeadlinePasses
    <2>3. ASSUME NEW n \in Names, NEW shape \in ManualShapes, UserDraft(n, shape)
          PROVE  TypeInv'
      <3>1. docs' \subseteq Docs
        BY <2>3, ConstantsAssumption DEF TypeOK, UserDraft, Docs
      <3> QED
        BY <2>3, <3>1 DEF TypeOK, RequestOK, UserDraft
    <2>4. ASSUME NEW d \in docs, UserSubmit(d)
          PROVE  TypeInv'
      <3>1. docs' \subseteq Docs
        BY <2>4 DEF TypeOK, UserSubmit, Docs
      <3> QED
        BY <2>4, <3>1 DEF TypeOK, RequestOK, UserSubmit
    <2> QED
      BY <1>2, <2>1, <2>2, <2>3, <2>4 DEF World
  <1>3. CASE UNCHANGED vars
    BY <1>3 DEF TypeOK, RequestOK, vars
  <1> QED
    BY <1>1, <1>2, <1>3 DEF Next

\* The inductive form: a request under way is moreover about an Action.
LEMMA TypeInvariance == Spec => []TypeInv
  <1>1. Init => TypeInv
    <2>1. ASSUME Init PROVE TypeOK
      BY <2>1, InitialValues DEF Init, TypeOK, ActionStates, RunRows, RunStates, Places, TargetNames
    <2>2. ASSUME Init PROVE RequestOK
      BY <2>2 DEF Init, RequestOK
    <2> QED
      BY <2>1, <2>2 DEF TypeInv
  <1>2. TypeInv /\ [Next]_vars => TypeInv'
    BY TypeStep
  <1> QED
    BY <1>1, <1>2, PTL DEF Spec

\* The tables, clocks, requests and snapshots always hold values of their types.
THEOREM TypeCorrect == Spec => []TypeOK
  <1>1. TypeInv => TypeOK
    BY DEF TypeInv
  <1> QED
    BY <1>1, TypeInvariance, PTL

-----------------------------------------------------------------------------
(* The three ledgers. *)

\* A verified write moves all three ledgers of its Action together.
LEMMA RecordSuccessAgrees ==
    ASSUME TypeInv, LedgersAgree, NEW p \in Requests, NEW n \in Names, pc[p] # "idle",
           RecordSuccess(p, n)
    PROVE  LedgersAgree'
  <1>1. act[p] \in Actions
    BY DEF TypeInv, RequestOK
  <1>2. n # NoName
    BY ConstantsAssumption
  <1>3. /\ action' = [action EXCEPT ![act[p]] = "EXECUTED"]
        /\ receipt' = [receipt EXCEPT ![act[p]] = [state |-> "SUCCEEDED", target |-> n]]
        /\ reservation' = [reservation EXCEPT
                              ![act[p]] = [status |-> "SUCCEEDED", target |-> n, failure |-> FALSE]]
    BY DEF RecordSuccess, ReceiptInput
  <1> QED
    BY <1>1, <1>2, <1>3 DEF TypeInv, TypeOK, LedgersAgree, SuccessStates

\* So does a reconciliation, whatever it concludes.
LEMMA ReconcileAgrees ==
    ASSUME TypeInv, LedgersAgree, NEW p \in Requests, Reconcile(p)
    PROVE  LedgersAgree'
  <1> DEFINE a == act[p]
             c == Classification(p)
             target == IF c = "RECONCILED_SUCCESS" THEN (CHOOSE d \in Matches(p) : TRUE).name
                       ELSE NoName
  <1>1. a \in Actions
    BY DEF TypeInv, RequestOK, Reconcile
  <1>2. reservation[a].status \in Unsettled
    BY DEF Reconcile, Reconcilable
  <1>3. action[a] # "EXECUTED"
    BY <1>1, <1>2 DEF LedgersAgree, Unsettled, SuccessStates
  <1>4. c \in {"RECONCILED_SUCCESS", "RECONCILED_FAILURE", "MANUAL_INTERVENTION"}
    BY ClassificationType
  <1>5. target # NoName <=> c = "RECONCILED_SUCCESS"
    BY ReconcileTarget, ConstantsAssumption DEF TypeInv
  <1>6. /\ receipt' = [receipt EXCEPT ![a] = [state |-> c, target |-> target]]
        /\ reservation' = [reservation EXCEPT
                              ![a] = [status |-> c, target |-> target, failure |-> TRUE]]
    BY DEF Reconcile, ReconciliationReceipt
  <1>7. \E s \in ActionStates : /\ action' = [action EXCEPT ![a] = s]
                                /\ s = "EXECUTED" <=> c = "RECONCILED_SUCCESS"
    BY <1>1, <1>3 DEF Reconcile, TypeInv, TypeOK, ActionStates
  <1> HIDE DEF a, c, target
  <1> QED
    BY <1>1, <1>4, <1>5, <1>6, <1>7 DEF TypeInv, TypeOK, LedgersAgree, SuccessStates

LEMMA LedgersStep ==
    ASSUME TypeInv, LedgersAgree, [Next]_vars
    PROVE  LedgersAgree'
  <1> USE DEF TypeInv, erpVars, ledgerVars, clockVars, requestVars
  <1>1. ASSUME UNCHANGED <<action, reservation, receipt>>
        PROVE  LedgersAgree'
    BY <1>1 DEF LedgersAgree
  <1>2. ASSUME NEW p \in Requests, Execute(p)
        PROVE  LedgersAgree'
    <2>1. CASE T1Expire(p)
      BY <2>1 DEF TypeOK, LedgersAgree, T1Expire, ProofCurrent, RequestOK
    <2>2. CASE T1Reserve(p)
      <3>1. act[p] \in Actions /\ action[act[p]] = "APPROVED"
        BY <2>2 DEF RequestOK, T1Reserve, PreExecuteRecheck, ProofCurrent
      <3>2. reservation[act[p]].status = "NONE"
        BY <2>2 DEF T1Reserve, NotReserved
      <3>3. /\ reservation' = [reservation EXCEPT ![act[p]] = StartedReservation]
            /\ UNCHANGED <<action, receipt>>
        BY <2>2 DEF T1Reserve
      <3> QED
        BY <3>1, <3>2, <3>3 DEF TypeOK, LedgersAgree, StartedReservation, SuccessStates
    <2>3. CASE \E n \in Names : T2Commit(p, n)
      BY <2>3, RecordSuccessAgrees DEF T2Commit
    <2>4. CASE T2Record(p)
      <3>1. written[p] \in Names /\ pc[p] # "idle"
        BY <2>4 DEF T2Record, RequestOK
      <3> QED
        BY <2>4, <3>1, RecordSuccessAgrees DEF T2Record
    <2>5. CASE T3Commit(p)
      <3> DEFINE outcome == IF fault[p] = "CERTAIN" THEN "FAILED" ELSE "RECONCILIATION_REQUIRED"
      <3>1. act[p] \in Actions /\ reservation[act[p]].status = "STARTED"
        BY <2>5 DEF RequestOK, T3Commit, StillStarted
      <3>2. action[act[p]] # "EXECUTED"
        BY <3>1 DEF LedgersAgree, SuccessStates
      <3>3. action' = action \/ action' = [action EXCEPT ![act[p]] = "EXPIRED"]
        BY <2>5 DEF T3Commit
      <3>4. /\ receipt' = [receipt EXCEPT ![act[p]] = [state |-> outcome, target |-> NoName]]
            /\ reservation' = [reservation EXCEPT
                                  ![act[p]] = [status |-> outcome, target |-> NoName, failure |-> TRUE]]
        BY <2>5 DEF T3Commit, ReceiptInput
      <3>5. outcome \in {"FAILED", "RECONCILIATION_REQUIRED"}
        OBVIOUS
      <3> HIDE DEF outcome
      <3> QED
        BY <3>1, <3>2, <3>3, <3>4, <3>5 DEF TypeOK, LedgersAgree, SuccessStates
    <2>6. CASE \/ Replay(p) \/ T2Begin(p) \/ T2Recheck(p) \/ \E n \in Names : T2Insert(p, n)
               \/ \E outcome \in {"CERTAIN", "UNCERTAIN"} : T2Fail(p, outcome)
               \/ Respond(p) \/ T3Begin(p)
      BY <1>1, <2>6 DEF Replay, T2Begin, T2Recheck, T3Begin, OpenTransaction, T2Insert, T2Fail, Respond
    <2> QED
      BY <1>2, <2>1, <2>2, <2>3, <2>4, <2>5, <2>6 DEF Execute
  <1>3. ASSUME NEW p \in Requests, \E decision \in {"APPROVED", "DECLINED"} : Decide(p, decision)
        PROVE  LedgersAgree'
    BY <1>3 DEF TypeOK, LedgersAgree, Decide, RequestOK
  <1>4. ASSUME NEW p \in Requests,
               \/ \E a \in Actions, handler \in Handlers : Begin(p, a, handler)
               \/ AnswerSettled(p) \/ CancelRun(p) \/ Abandon(p)
        PROVE  LedgersAgree'
    BY <1>1, <1>4 DEF Begin, OpenTransaction, AnswerSettled, CancelRun, Abandon
  <1>5. CASE World
    BY <1>1, <1>5 DEF World, LeaseExpires, ActionDeadlinePasses, RevokeRun, RunDeadlinePasses,
                      UserDraft, UserSubmit
  <1>6. CASE UNCHANGED vars
    BY <1>1, <1>6 DEF vars
  <1> QED
    BY <1>2, <1>3, <1>4, <1>5, <1>6, ReconcileAgrees DEF Next, Request

\* Action, Reservation and Receipt never contradict each other, for any number
\* of Actions, Runs and requests and with or without committing controllers.
THEOREM LedgersAlwaysAgree == Spec => []LedgersAgree
  <1>1. Init => LedgersAgree
    BY DEF Init, LedgersAgree, NoReservation, SuccessStates
  <1>2. TypeInv /\ LedgersAgree /\ [Next]_vars => LedgersAgree'
    BY LedgersStep
  <1> QED
    BY <1>1, <1>2, TypeInvariance, PTL DEF Spec

-----------------------------------------------------------------------------
(* One approval, one document. *)

\* A step after which nobody new may write, no reservation is forgotten and no
\* Action without a draft has one, keeps the claim of every writer.
LEMMA QuietStep ==
    ASSUME TypeInv, TypeInv', SingleWriter,
           \A a \in Actions : reservation'[a].status = "NONE" => reservation[a].status = "NONE",
           \A a \in Actions : OwnDrafts(a) = {} => OwnDrafts(a)' = {},
           \A p \in Requests : pc'[p] \in Reserved => pc[p] \in Reserved /\ act'[p] = act[p],
           \A p \in Requests : pc'[p] \in Writing => pc[p] \in Writing
    PROVE  SingleWriter'
  <1>1. \A p \in Requests : pc[p] \in Reserved => act[p] \in Actions
    BY DEF TypeInv, RequestOK, Reserved
  <1>2. Writing \subseteq Reserved
    BY DEF Writing, Reserved
  <1>3. \A p \in Requests : pc'[p] \in Reserved => reservation'[act'[p]].status # "NONE"
    BY <1>1 DEF SingleWriter
  <1>4. \A p \in Requests : pc'[p] \in Writing => OwnDrafts(act[p])' = {}
    <2>1. SUFFICES ASSUME NEW p \in Requests, pc'[p] \in Writing
                   PROVE  OwnDrafts(act[p])' = {}
      OBVIOUS
    <2>2. pc[p] \in Writing /\ pc[p] \in Reserved /\ act'[p] = act[p] /\ act[p] \in Actions
      BY <1>1, <1>2, <2>1
    <2>3. PICK a \in Actions : a = act[p] /\ a = act'[p]
      BY <2>2
    <2>4. OwnDrafts(a) = {}
      BY <2>2, <2>3 DEF SingleWriter
    <2>5. OwnDrafts(a)' = {}
      BY <2>4
    <2> QED
      BY <2>3, <2>5 DEF OwnDrafts
  <1>5. \A p, q \in Requests :
           pc'[p] \in Writing /\ pc'[q] \in Writing /\ act'[p] = act'[q] => p = q
    BY <1>2 DEF SingleWriter
  <1>6. \A a \in Actions : reservation'[a].status = "NONE" => OwnDrafts(a)' = {}
    BY DEF SingleWriter
  <1> QED
    BY <1>3, <1>4, <1>5, <1>6 DEF SingleWriter

\* Inserting a draft gives its Action the one document it may have.
LEMMA InsertOnce ==
    ASSUME TypeInv, TypeInv', SingleWriter, AtMostOneWrite,
           NEW p \in Requests, NEW n \in Names, pc[p] = "cleared",
           docs' = docs \cup {Draft(act[p], n)},
           act' = act,
           NEW place \in Places, pc' = [pc EXCEPT ![p] = place],
           place \notin Writing,
           \A a \in Actions : reservation'[a].status = "NONE" => reservation[a].status = "NONE"
    PROVE  SingleWriter' /\ AtMostOneWrite'
  <1>1. act[p] \in Actions /\ OwnDrafts(act[p]) = {} /\ reservation[act[p]].status # "NONE"
    BY DEF TypeInv, RequestOK, SingleWriter, Writing, Reserved
  <1>2. \A a \in Actions : a = act[p] => OwnDrafts(a)' = {Draft(a, n)}
    BY <1>1 DEF OwnDrafts, Draft
  <1>3. \A a \in Actions : a # act[p] => OwnDrafts(a)' = OwnDrafts(a)
    BY DEF OwnDrafts, Draft
  <1>4. AtMostOneWrite'
    <2>1. SUFFICES ASSUME NEW a \in Actions, NEW d \in OwnDrafts(a)', NEW e \in OwnDrafts(a)'
                   PROVE  d = e
      BY DEF AtMostOneWrite
    <2>2. CASE a = act[p]
      BY <1>2, <2>1, <2>2
    <2>3. CASE a # act[p]
      BY <1>3, <2>1, <2>3 DEF AtMostOneWrite
    <2> QED
      BY <2>2, <2>3
  <1>5. pc \in [Requests -> Places]
    BY DEF TypeInv, TypeOK
  <1>6. \A q \in Requests : pc'[q] \in Writing => q # p /\ pc[q] \in Writing
    BY <1>5
  <1>7. \A q \in Requests : pc'[q] \in Reserved => pc[q] \in Reserved
    BY <1>5 DEF Reserved
  <1>8. \A q \in Requests : pc[q] \in Reserved => act[q] \in Actions
    BY DEF TypeInv, RequestOK, Reserved
  <1>9. \A q \in Requests : pc'[q] \in Reserved => reservation'[act'[q]].status # "NONE"
    BY <1>7, <1>8 DEF SingleWriter
  <1>10. \A q \in Requests : pc'[q] \in Writing => OwnDrafts(act[q])' = {}
    <2>1. SUFFICES ASSUME NEW q \in Requests, pc'[q] \in Writing
                   PROVE  OwnDrafts(act[q])' = {}
      OBVIOUS
    <2>2. act[q] # act[p] /\ OwnDrafts(act[q]) = {} /\ act[q] \in Actions
      BY <1>6, <1>8, <2>1 DEF SingleWriter, Writing, Reserved
    <2>3. PICK a \in Actions : a = act[q]
      BY <2>2
    <2>4. OwnDrafts(a)' = {}
      BY <1>3, <2>2, <2>3
    <2> QED
      BY <2>3, <2>4 DEF OwnDrafts
  <1>11. \A q, q2 \in Requests :
            pc'[q] \in Writing /\ pc'[q2] \in Writing /\ act'[q] = act'[q2] => q = q2
    BY <1>6 DEF SingleWriter
  <1>12. \A a \in Actions : reservation'[a].status = "NONE" => OwnDrafts(a)' = {}
    BY <1>1, <1>3 DEF SingleWriter
  <1> QED
    BY <1>4, <1>9, <1>10, <1>11, <1>12 DEF SingleWriter

\* Steps of a request that insert no draft and make no new reservation.
LEMMA QuietRequest ==
    ASSUME TypeInv, TypeInv', SingleWriter, AtMostOneWrite, NEW p \in Requests,
           docs' = docs,
           \A a \in Actions : reservation'[a].status = "NONE" => reservation[a].status = "NONE",
           \/ Finish(p)
           \/ \E place \in {"ok", "failed"} : pc[p] \in Reserved /\ Continue(p, place)
           \/ /\ \E place \in {"decide", "execute", "reconcile", "cancel"} :
                    pc' = [pc EXCEPT ![p] = place]
              /\ \E a \in Actions : act' = [act EXCEPT ![p] = a]
           \/ /\ act' = [act EXCEPT ![p] = act[p]]
              /\ \/ pc[p] = "reserved" /\ pc' = [pc EXCEPT ![p] = "t2"]
                 \/ pc[p] = "t2" /\ pc' = [pc EXCEPT ![p] = "cleared"]
                 \/ pc[p] = "failed" /\ pc' = [pc EXCEPT ![p] = "t3"]
    PROVE  SingleWriter' /\ AtMostOneWrite'
  <1>1. pc \in [Requests -> Places] /\ act \in [Requests -> Actions \cup {NoAction}]
    BY DEF TypeInv, TypeOK
  <1>2. \A a \in Actions : OwnDrafts(a)' = OwnDrafts(a)
    BY DEF OwnDrafts
  <1>3. \A q \in Requests : pc'[q] \in Reserved => pc[q] \in Reserved /\ act'[q] = act[q]
    BY <1>1 DEF Finish, Continue, Reserved
  <1>4. \A q \in Requests : pc'[q] \in Writing => pc[q] \in Writing
    BY <1>1 DEF Finish, Continue, Writing
  <1>5. AtMostOneWrite'
    BY <1>2 DEF AtMostOneWrite
  <1> QED
    BY <1>2, <1>3, <1>4, <1>5, QuietStep

LEMMA ReserveStep ==
    ASSUME TypeInv, TypeInv', SingleWriter, AtMostOneWrite, NEW p \in Requests, T1Reserve(p)
    PROVE  SingleWriter' /\ AtMostOneWrite'
  <1>1. PICK a \in Actions : a = act[p]
    BY DEF TypeInv, RequestOK, T1Reserve
  <1>2. reservation[a].status = "NONE" /\ OwnDrafts(a) = {}
    BY <1>1 DEF T1Reserve, NotReserved, SingleWriter
  <1>3. /\ reservation' = [reservation EXCEPT ![a] = StartedReservation]
        /\ pc' = [pc EXCEPT ![p] = "reserved"]
        /\ act' = act
        /\ docs' = docs
    BY <1>1 DEF T1Reserve, Continue, erpVars
  <1>4. pc \in [Requests -> Places] /\ reservation \in [Actions -> Reservations]
    BY DEF TypeInv, TypeOK
  <1>5. \A q \in Requests : pc[q] \in Reserved => act[q] # a
    BY <1>2 DEF SingleWriter
  <1>6. Writing \subseteq Reserved
    BY DEF Writing, Reserved
  <1>7. \A q \in Requests : pc'[q] \in Reserved => q = p \/ pc[q] \in Reserved
    BY <1>3, <1>4
  <1>8. \A q \in Requests : pc'[q] \in Reserved => reservation'[act'[q]].status # "NONE"
    BY <1>1, <1>3, <1>4, <1>5, <1>7 DEF SingleWriter, StartedReservation, Reserved, TypeInv, RequestOK
  <1>9. \A q \in Requests : pc'[q] \in Writing => q = p \/ pc[q] \in Writing
    BY <1>3, <1>4
  <1>10. \A q \in Requests : pc'[q] \in Writing => OwnDrafts(act[q])' = {}
    BY <1>1, <1>2, <1>3, <1>9 DEF SingleWriter, OwnDrafts
  <1>11. \A q, q2 \in Requests :
            pc'[q] \in Writing /\ pc'[q2] \in Writing /\ act'[q] = act'[q2] => q = q2
    BY <1>1, <1>3, <1>5, <1>6, <1>9 DEF SingleWriter
  <1>12. \A b \in Actions : reservation'[b].status = "NONE" => OwnDrafts(b)' = {}
    BY <1>3, <1>4 DEF SingleWriter, OwnDrafts, StartedReservation
  <1>13. AtMostOneWrite'
    BY <1>3 DEF AtMostOneWrite, OwnDrafts
  <1> QED
    BY <1>8, <1>10, <1>11, <1>12, <1>13 DEF SingleWriter

\* What people do in ERPNext does not count as a write of an Action.
LEMMA DeskStep ==
    ASSUME TypeInv, TypeInv', SingleWriter, AtMostOneWrite,
           UNCHANGED <<ledgerVars, requestVars>>,
           \/ \E n \in Names, shape \in ManualShapes : UserDraft(n, shape)
           \/ \E d \in docs : UserSubmit(d)
    PROVE  SingleWriter' /\ AtMostOneWrite'
  <1>1. CASE \E n \in Names, shape \in ManualShapes : UserDraft(n, shape)
    <2>1. \A a \in Actions : OwnDrafts(a)' = OwnDrafts(a)
      BY <1>1, ConstantsAssumption DEF UserDraft, OwnDrafts
    <2>2. AtMostOneWrite'
      BY <2>1 DEF AtMostOneWrite
    <2> QED
      BY <2>1, <2>2, QuietStep DEF ledgerVars, requestVars
  <1>2. CASE \E d \in docs : UserSubmit(d)
    <2>1. PICK d \in docs : UserSubmit(d)
      BY <1>2
    <2> DEFINE e == [d EXCEPT !.docstatus = 1]
    <2>2. e.by = d.by /\ docs' = (docs \ {d}) \cup {e}
      BY <2>1 DEF UserSubmit, TypeInv, TypeOK, Docs
    <2> HIDE DEF e
    <2>3. \A a \in Actions : OwnDrafts(a) = {} => OwnDrafts(a)' = {}
      BY <2>2 DEF OwnDrafts
    <2>4. AtMostOneWrite'
      <3>1. SUFFICES ASSUME NEW a \in Actions, NEW x \in OwnDrafts(a)', NEW y \in OwnDrafts(a)'
                     PROVE  x = y
        BY DEF AtMostOneWrite
      <3>2. CASE d.by = a
        <4>1. \A z \in docs : z.by = a => z = d
          BY <3>2 DEF AtMostOneWrite, OwnDrafts
        <4> QED
          BY <2>2, <3>1, <4>1 DEF OwnDrafts
      <3>3. CASE d.by # a
        BY <2>2, <3>1, <3>3 DEF OwnDrafts, AtMostOneWrite
      <3> QED
        BY <3>2, <3>3
    <2> QED
      BY <2>3, <2>4, QuietStep DEF ledgerVars, requestVars
  <1> QED
    BY <1>1, <1>2

LEMMA WriteOnceStep ==
    ASSUME TypeInv, TypeInv', SingleWriter, AtMostOneWrite, [Next]_vars
    PROVE  SingleWriter' /\ AtMostOneWrite'
  <1> USE DEF erpVars, ledgerVars, clockVars, requestVars
  <1>1. ASSUME NEW p \in Requests, Execute(p)
        PROVE  SingleWriter' /\ AtMostOneWrite'
    <2>1. CASE T1Expire(p) \/ Replay(p) \/ Respond(p)
      BY <2>1, QuietRequest DEF T1Expire, Replay, Respond
    <2>2. CASE T1Reserve(p)
      BY <2>2, ReserveStep
    <2>3. CASE T2Begin(p) \/ T3Begin(p)
      BY <2>3, QuietRequest DEF T2Begin, T3Begin, OpenTransaction
    <2>4. CASE \E n \in Names : T2Commit(p, n)
      <3>1. PICK n \in Names : T2Commit(p, n)
        BY <2>4
      <3>2. reservation' = [reservation EXCEPT
                  ![act[p]] = [status |-> "SUCCEEDED", target |-> n, failure |-> FALSE]]
        BY <3>1 DEF T2Commit, RecordSuccess
      <3>3. \A a \in Actions : reservation'[a].status = "NONE" => reservation[a].status = "NONE"
        BY <3>2 DEF TypeInv, TypeOK
      <3>4. pc[p] = "cleared" /\ docs' = docs \cup {Draft(act[p], n)}
            /\ act' = act /\ pc' = [pc EXCEPT ![p] = "ok"]
        BY <3>1 DEF T2Commit, RecordSuccess, Continue
      <3>5. "ok" \in Places /\ "ok" \notin Writing
        BY DEF Places, Writing
      <3> QED
        BY <3>3, <3>4, <3>5, InsertOnce
    <2>5. CASE \E n \in Names : T2Insert(p, n)
      <3>1. PICK n \in Names : T2Insert(p, n)
        BY <2>5
      <3>2. "t2b" \in Places /\ "t2b" \notin Writing
        BY DEF Places, Writing
      <3> QED
        BY <3>1, <3>2, InsertOnce DEF T2Insert
    <2>6. CASE T2Record(p)
      <3>1. \A a \in Actions : reservation'[a].status = "NONE" => reservation[a].status = "NONE"
        BY <2>6 DEF T2Record, RecordSuccess, TypeInv, TypeOK
      <3> QED
        BY <2>6, <3>1, QuietRequest DEF T2Record, RecordSuccess, Reserved
    <2>7. CASE \E outcome \in {"CERTAIN", "UNCERTAIN"} : T2Fail(p, outcome)
      BY <2>7, QuietRequest DEF T2Fail, Reserved
    <2>8. CASE T3Commit(p)
      <3>1. \A a \in Actions : reservation'[a].status = "NONE" => reservation[a].status = "NONE"
        BY <2>8 DEF T3Commit, TypeInv, TypeOK
      <3> QED
        BY <2>8, <3>1, QuietRequest DEF T3Commit
    <2>9. CASE T2Recheck(p)
      <3>1. act' = [act EXCEPT ![p] = act[p]]
        BY <2>9 DEF T2Recheck, TypeInv, TypeOK
      <3> QED
        BY <2>9, <3>1, QuietRequest DEF T2Recheck
    <2> QED
      BY <1>1, <2>1, <2>2, <2>3, <2>4, <2>5, <2>6, <2>7, <2>8, <2>9 DEF Execute
  <1>2. ASSUME NEW p \in Requests, NEW a \in Actions, NEW handler \in Handlers,
               Begin(p, a, handler)
        PROVE  SingleWriter' /\ AtMostOneWrite'
    BY <1>2, QuietRequest DEF Begin, OpenTransaction, Handlers
  <1>3. ASSUME NEW p \in Requests,
               \/ \E decision \in {"APPROVED", "DECLINED"} : Decide(p, decision)
               \/ AnswerSettled(p) \/ CancelRun(p) \/ Abandon(p)
        PROVE  SingleWriter' /\ AtMostOneWrite'
    BY <1>3, QuietRequest DEF Decide, AnswerSettled, CancelRun, Abandon
  <1>4. ASSUME NEW p \in Requests, Reconcile(p)
        PROVE  SingleWriter' /\ AtMostOneWrite'
    <2>1. reservation' = [reservation EXCEPT ![act[p]] = reservation'[act[p]]]
          /\ (act[p] \in Actions => reservation'[act[p]].status = Classification(p))
      BY <1>4 DEF Reconcile, TypeInv, TypeOK
    <2>2. \A a \in Actions : reservation'[a].status = "NONE" => reservation[a].status = "NONE"
      BY <2>1, ClassificationType DEF TypeInv, TypeOK
    <2>3. Finish(p) /\ docs' = docs
      BY <1>4 DEF Reconcile
    <2> QED
      BY <2>2, <2>3, QuietRequest
  <1>5. CASE World
    <2>1. CASE \/ \E n \in Names, shape \in ManualShapes : UserDraft(n, shape)
               \/ \E d \in docs : UserSubmit(d)
      BY <2>1, DeskStep DEF UserDraft, UserSubmit
    <2>2. CASE \/ \E a \in Actions : LeaseExpires(a) \/ ActionDeadlinePasses(a)
               \/ \E r \in Runs : RevokeRun(r) \/ RunDeadlinePasses(r)
      <3>1. UNCHANGED <<docs, reservation, pc, act>>
        BY <2>2 DEF LeaseExpires, ActionDeadlinePasses, RevokeRun, RunDeadlinePasses
      <3> QED
        BY <3>1 DEF SingleWriter, AtMostOneWrite, OwnDrafts
    <2> QED
      BY <1>5, <2>1, <2>2 DEF World
  <1>6. CASE UNCHANGED vars
    BY <1>6 DEF vars, SingleWriter, AtMostOneWrite, OwnDrafts
  <1> QED
    BY <1>1, <1>2, <1>3, <1>4, <1>5, <1>6 DEF Next, Request

LEMMA WriterInvariance == Spec => [](SingleWriter /\ AtMostOneWrite)
  <1>1. Init => SingleWriter /\ AtMostOneWrite
    BY DEF Init, SingleWriter, AtMostOneWrite, OwnDrafts, Reserved, Writing
  <1>2. TypeInv /\ TypeInv' /\ SingleWriter /\ AtMostOneWrite /\ [Next]_vars
           => SingleWriter' /\ AtMostOneWrite'
    BY WriteOnceStep
  <1> QED
    BY <1>1, <1>2, TypeInvariance, PTL DEF Spec

\* However requests interleave, crash, time out, are retried and are
\* reconciled, and even when ERP controllers commit behind the executor's back,
\* no approved Action ever creates a second document.
THEOREM WrittenAtMostOnce == Spec => []AtMostOneWrite
  BY WriterInvariance, PTL

-----------------------------------------------------------------------------
(* What a step may never undo. *)

\* A reservation is only made for an Action that has been decided.
ReservedWasDecided ==
    \A a \in Actions : reservation[a].status # "NONE" => action[a] # "AWAITING_APPROVAL"

\* A step of Action b's rows: nobody else's rows move.
OnlyRowsOf(b) ==
    \A a \in Actions \ {b} : UNCHANGED <<reservation[a], receipt[a], action[a]>>

\* A step that moves the rows of one unsettled Action keeps the settled ones.
LEMMA FrozenByOne ==
    ASSUME TypeInv, NEW b \in Actions, OnlyRowsOf(b), reservation[b].status \notin FinalStates
    PROVE  \A a \in Actions : reservation[a].status \in FinalStates =>
               UNCHANGED <<reservation[a], receipt[a], action[a]>>
  BY DEF OnlyRowsOf

\* What one step of the executor, of a decision or of a reconciliation does to
\* the rows: none moves, or those of one Action that is not settled, and the
\* Action is not put back to AWAITING_APPROVAL.
LEMMA RowStep ==
    ASSUME TypeInv, ReservedWasDecided, Next
    PROVE  \/ UNCHANGED <<reservation, receipt, action>>
           \/ \E b \in Actions : /\ OnlyRowsOf(b)
                                 /\ reservation[b].status \notin FinalStates
                                 /\ reservation'[b].status # "NONE" => action'[b] # "AWAITING_APPROVAL"
  <1> DEFINE Goal ==
         \/ UNCHANGED <<reservation, receipt, action>>
         \/ \E b \in Actions : /\ OnlyRowsOf(b)
                               /\ reservation[b].status \notin FinalStates
                               /\ reservation'[b].status # "NONE" => action'[b] # "AWAITING_APPROVAL"
  <1> USE DEF erpVars, ledgerVars, clockVars, requestVars
  <1>1. ASSUME NEW p \in Requests, pc[p] # "idle" PROVE act[p] \in Actions
    BY <1>1 DEF TypeInv, RequestOK
  <1>2. ASSUME NEW p \in Requests, NEW n \in Names, pc[p] # "idle", RecordSuccess(p, n)
        PROVE  Goal
    <2>1. reservation[act[p]].status \notin FinalStates
      BY <1>2 DEF RecordSuccess, OwnReservation, StartedReservation, FinalStates, SuccessStates
    <2>2. OnlyRowsOf(act[p]) /\ action'[act[p]] = "EXECUTED"
      BY <1>1, <1>2 DEF RecordSuccess, OnlyRowsOf, TypeInv, TypeOK
    <2> QED
      BY <1>1, <1>2, <2>1, <2>2
  <1>3. ASSUME NEW p \in Requests, Execute(p) PROVE Goal
    <2>1. CASE T1Expire(p)
      <3>1. act[p] \in Actions /\ reservation[act[p]].status \notin FinalStates
        BY <1>1, <2>1 DEF T1Expire, NotReserved, FinalStates, SuccessStates
      <3>2. OnlyRowsOf(act[p]) /\ action'[act[p]] = "EXPIRED"
        BY <3>1, <2>1 DEF T1Expire, OnlyRowsOf, TypeInv, TypeOK
      <3> QED
        BY <3>1, <3>2
    <2>2. CASE T1Reserve(p)
      <3>1. act[p] \in Actions /\ reservation[act[p]].status \notin FinalStates
        BY <1>1, <2>2 DEF T1Reserve, NotReserved, FinalStates, SuccessStates
      <3>2. OnlyRowsOf(act[p]) /\ action'[act[p]] = "APPROVED"
        BY <3>1, <2>2 DEF T1Reserve, PreExecuteRecheck, ProofCurrent, OnlyRowsOf, TypeInv, TypeOK
      <3> QED
        BY <3>1, <3>2
    <2>3. CASE \E n \in Names : T2Commit(p, n)
      BY <1>2, <2>3 DEF T2Commit
    <2>4. CASE T2Record(p)
      <3>1. written[p] \in Names /\ pc[p] # "idle"
        BY <2>4 DEF T2Record, TypeInv, RequestOK
      <3> QED
        BY <1>2, <2>4, <3>1 DEF T2Record
    <2>5. CASE T3Commit(p)
      <3>1. act[p] \in Actions /\ reservation[act[p]].status = "STARTED"
        BY <1>1, <2>5 DEF T3Commit, StillStarted
      <3>2. action' = action \/ action' = [action EXCEPT ![act[p]] = "EXPIRED"]
        BY <2>5 DEF T3Commit
      <3>3. /\ \E x : receipt' = [receipt EXCEPT ![act[p]] = x]
            /\ \E x : reservation' = [reservation EXCEPT ![act[p]] = x]
        BY <2>5 DEF T3Commit
      <3>4. OnlyRowsOf(act[p])
        BY <3>1, <3>2, <3>3 DEF OnlyRowsOf, TypeInv, TypeOK
      <3>5. action'[act[p]] # "AWAITING_APPROVAL"
        BY <3>1, <3>2 DEF ReservedWasDecided, TypeInv, TypeOK
      <3> QED
        BY <3>1, <3>4, <3>5 DEF FinalStates, SuccessStates
    <2>6. CASE \/ Replay(p) \/ T2Begin(p) \/ T2Recheck(p) \/ \E n \in Names : T2Insert(p, n)
               \/ \E outcome \in {"CERTAIN", "UNCERTAIN"} : T2Fail(p, outcome)
               \/ Respond(p) \/ T3Begin(p)
      BY <2>6 DEF Replay, T2Begin, T2Recheck, T3Begin, OpenTransaction, T2Insert, T2Fail, Respond
    <2> QED
      BY <1>3, <2>1, <2>2, <2>3, <2>4, <2>5, <2>6 DEF Execute
  <1>4. ASSUME NEW p \in Requests, NEW decision \in {"APPROVED", "DECLINED"}, Decide(p, decision)
        PROVE  Goal
    <2>1. act[p] \in Actions /\ reservation[act[p]].status = "NONE"
      BY <1>1, <1>4 DEF Decide, ReservedWasDecided
    <2>2. OnlyRowsOf(act[p]) /\ action'[act[p]] = decision
      BY <2>1, <1>4 DEF Decide, OnlyRowsOf, TypeInv, TypeOK
    <2> QED
      BY <2>1, <2>2 DEF FinalStates, SuccessStates
  <1>5. ASSUME NEW p \in Requests, Reconcile(p) PROVE Goal
    <2>1. act[p] \in Actions /\ reservation[act[p]].status \in Unsettled
      BY <1>1, <1>5 DEF Reconcile, Reconcilable
    <2>2. /\ \E x : receipt' = [receipt EXCEPT ![act[p]] = x]
          /\ \E x : reservation' = [reservation EXCEPT ![act[p]] = x]
      BY <1>5 DEF Reconcile
    <2>3. \E s \in ActionStates : /\ action' = [action EXCEPT ![act[p]] = s]
                                  /\ s # "AWAITING_APPROVAL"
      <3>1. action[act[p]] \in ActionStates /\ action[act[p]] # "AWAITING_APPROVAL"
        BY <2>1 DEF ReservedWasDecided, Unsettled, TypeInv, TypeOK
      <3> QED
        BY <3>1, <1>5 DEF Reconcile, ActionStates
    <2>4. OnlyRowsOf(act[p]) /\ action'[act[p]] # "AWAITING_APPROVAL"
      BY <2>1, <2>2, <2>3 DEF OnlyRowsOf, TypeInv, TypeOK
    <2> QED
      BY <2>1, <2>4 DEF Unsettled, FinalStates, SuccessStates
  <1>6. ASSUME NEW p \in Requests,
               \/ \E a \in Actions, handler \in Handlers : Begin(p, a, handler)
               \/ AnswerSettled(p) \/ CancelRun(p) \/ Abandon(p)
        PROVE  Goal
    BY <1>6 DEF Begin, OpenTransaction, AnswerSettled, CancelRun, Abandon
  <1>7. CASE World
    BY <1>7 DEF World, LeaseExpires, ActionDeadlinePasses, RevokeRun, RunDeadlinePasses,
                UserDraft, UserSubmit
  <1> QED
    BY <1>3, <1>4, <1>5, <1>6, <1>7 DEF Next, Request

LEMMA DecidedInvariance == Spec => []ReservedWasDecided
  <1>1. Init => ReservedWasDecided
    BY DEF Init, ReservedWasDecided, NoReservation
  <1>2. TypeInv /\ ReservedWasDecided /\ [Next]_vars => ReservedWasDecided'
    <2>1. SUFFICES ASSUME TypeInv, ReservedWasDecided, [Next]_vars PROVE ReservedWasDecided'
      OBVIOUS
    <2>2. CASE UNCHANGED <<reservation, receipt, action>>
      BY <2>1, <2>2 DEF ReservedWasDecided
    <2>3. CASE \E b \in Actions : /\ OnlyRowsOf(b)
                                  /\ reservation'[b].status # "NONE" => action'[b] # "AWAITING_APPROVAL"
      BY <2>1, <2>3 DEF ReservedWasDecided, OnlyRowsOf
    <2>4. CASE UNCHANGED vars
      BY <2>2, <2>4 DEF vars, ledgerVars
    <2> QED
      BY <2>1, <2>2, <2>3, <2>4, RowStep
  <1> QED
    BY <1>1, <1>2, TypeInvariance, PTL DEF Spec

\* A settled reservation, its Receipt and its Action never change again: no
\* late T2, no late _finalize_failure and no second reconciliation, of any
\* number of requests, reopens or rewrites them.
THEOREM SettledStaysFrozen == Spec => SettledIsFrozen
  <1>1. TypeInv /\ ReservedWasDecided /\ [Next]_vars =>
          [\A a \in Actions : reservation[a].status \in FinalStates =>
              UNCHANGED <<reservation[a], receipt[a], action[a]>>]_vars
    <2>1. SUFFICES ASSUME TypeInv, ReservedWasDecided, Next
                   PROVE  \A a \in Actions : reservation[a].status \in FinalStates =>
                              UNCHANGED <<reservation[a], receipt[a], action[a]>>
      OBVIOUS
    <2>2. CASE UNCHANGED <<reservation, receipt, action>>
      BY <2>2
    <2>3. CASE \E b \in Actions : OnlyRowsOf(b) /\ reservation[b].status \notin FinalStates
      BY <2>1, <2>3, FrozenByOne
    <2> QED
      BY <2>1, <2>2, <2>3, RowStep
  <1> QED
    BY <1>1, TypeInvariance, DecidedInvariance, PTL DEF Spec, SettledIsFrozen


\* A Run is moved one way: it never comes back to life, and never leaves a
\* state from which the table allows no transition.
OneWay(r) ==
    /\ ~run[r].live => ~run'[r].live
    /\ RunTransitions[run[r].state] = {} => run'[r].state = run[r].state

\* _close_run moves a Run one way when it saves the row that was loaded.
LEMMA CloseIsOneWay ==
    ASSUME TypeInv, NEW p \in Requests, pc[p] # "idle", NEW target \in RunStates,
           CloseRunPossible(p, target), CloseRun(p, target)
    PROVE  \A r \in Runs : OneWay(r)
  <1>1. act[p] \in Actions /\ RunOf[act[p]] \in Runs
    BY ConstantsAssumption DEF TypeInv, RequestOK
  <1>2. run' = [run EXCEPT ![RunOf[act[p]]] = [state |-> target, live |-> FALSE]]
    BY DEF CloseRun
  <1>3. /\ run \in [Runs -> RunRows]
        /\ target = run[RunOf[act[p]]].state \/ target \in RunTransitions[run[RunOf[act[p]]].state]
    BY DEF CloseRunPossible, RunFresh, ValidateRunTransition, TypeInv, TypeOK
  <1> QED
    BY <1>1, <1>2, <1>3 DEF OneWay

\* Every step moves every Run one way: whoever saves a Run saves the row as it
\* is, and no other step touches it.
LEMMA RunStep ==
    ASSUME TypeInv, [Next]_vars
    PROVE  \A r \in Runs : OneWay(r)
  <1> USE DEF erpVars, ledgerVars, clockVars, requestVars
  <1>1. ASSUME UNCHANGED run PROVE \A r \in Runs : OneWay(r)
    BY <1>1 DEF OneWay
  <1>2. ASSUME NEW p \in Requests, Execute(p) PROVE \A r \in Runs : OneWay(r)
    <2>1. CASE T1Reserve(p)
      <3>1. act[p] \in Actions /\ RunOf[act[p]] \in Runs
        BY <2>1, ConstantsAssumption DEF T1Reserve, TypeInv, RequestOK
      <3>2. CASE UNCHANGED run
        BY <1>1, <3>2
      <3>3. CASE /\ run[RunOf[act[p]]].state \in {"PROPOSED", "AWAITING_APPROVAL"}
                 /\ run' = [run EXCEPT ![RunOf[act[p]]] =
                               [state |-> "EXECUTING", live |-> run[RunOf[act[p]]].live]]
        <4>1. "SUCCEEDED" \in RunTransitions["PROPOSED"] /\ "EXECUTING" \in RunTransitions["AWAITING_APPROVAL"]
          BY DEF RunTransitions, RunStates
        <4> QED
          BY <3>1, <3>3, <4>1 DEF OneWay, TypeInv, TypeOK, RunRows
      <3> QED
        BY <2>1, <3>2, <3>3 DEF T1Reserve, MoveRunToExecuting, RunFresh
    <2>2. CASE (\E n \in Names : T2Commit(p, n)) \/ T2Record(p)
      <3>1. pc[p] # "idle" /\ CloseRunPossible(p, "SUCCEEDED") /\ CloseRun(p, "SUCCEEDED")
        BY <2>2 DEF T2Commit, T2Record, RecordSuccess
      <3> QED
        BY <3>1, CloseIsOneWay DEF RunStates
    <2>3. CASE T3Commit(p)
      <3>1. \E t \in RunStates : CloseRunPossible(p, t) /\ CloseRun(p, t)
        BY <2>3 DEF T3Commit, RunStates
      <3>2. pc[p] # "idle"
        BY <2>3 DEF T3Commit
      <3> QED
        BY <3>1, <3>2, CloseIsOneWay
    <2>4. CASE \/ T1Expire(p) \/ Replay(p) \/ T2Begin(p) \/ T2Recheck(p) \/ \E n \in Names : T2Insert(p, n)
               \/ \E outcome \in {"CERTAIN", "UNCERTAIN"} : T2Fail(p, outcome)
               \/ Respond(p) \/ T3Begin(p)
      BY <1>1, <2>4 DEF T1Expire, Replay, T2Begin, T2Recheck, T3Begin, OpenTransaction, T2Insert, T2Fail, Respond
    <2> QED
      BY <1>2, <2>1, <2>2, <2>3, <2>4 DEF Execute
  <1>3. ASSUME NEW p \in Requests, Reconcile(p) PROVE \A r \in Runs : OneWay(r)
    <2>1. pc[p] # "idle"
      BY <1>3 DEF Reconcile
    <2>2. \E t \in RunStates : CloseReconciledRun(p, t)
      BY <1>3 DEF Reconcile, RunStates
    <2> QED
      BY <1>1, <2>1, <2>2, CloseIsOneWay DEF CloseReconciledRun
  <1>4. ASSUME NEW p \in Requests, CancelRun(p) PROVE \A r \in Runs : OneWay(r)
    <2>1. pc[p] # "idle"
      BY <1>4 DEF CancelRun
    <2>2. \E t \in RunStates : CloseRunPossible(p, t) /\ CloseRun(p, t)
      BY <1>4 DEF CancelRun, RunStates
    <2> QED
      BY <2>1, <2>2, CloseIsOneWay
  <1>5. ASSUME NEW r \in Runs, RevokeRun(r) PROVE \A q \in Runs : OneWay(q)
    BY <1>5 DEF RevokeRun, OneWay, TypeInv, TypeOK, RunRows
  <1>6. ASSUME NEW p \in Requests,
               \/ \E a \in Actions, handler \in Handlers : Begin(p, a, handler)
               \/ \E decision \in {"APPROVED", "DECLINED"} : Decide(p, decision)
               \/ AnswerSettled(p) \/ Abandon(p)
        PROVE  \A r \in Runs : OneWay(r)
    BY <1>1, <1>6 DEF Begin, OpenTransaction, Decide, AnswerSettled, Abandon
  <1>7. CASE World
    BY <1>1, <1>5, <1>7 DEF World, LeaseExpires, ActionDeadlinePasses, RunDeadlinePasses,
                            UserDraft, UserSubmit
  <1>8. CASE UNCHANGED vars
    BY <1>1, <1>8 DEF vars
  <1> QED
    BY <1>2, <1>3, <1>4, <1>6, <1>7, <1>8 DEF Next, Request

\* A Run that was revoked or closed is never active again and a terminal Run
\* state is final, although executions, reconciliations and cancellations all
\* work from snapshots of the Run older than their lock on it.
THEOREM ClosedRunsStayClosed == Spec => ClosedRunStaysClosed
  <1>1. TypeInv /\ [Next]_vars =>
          [\A r \in Runs :
              /\ ~run[r].live => ~run'[r].live
              /\ RunTransitions[run[r].state] = {} => run'[r].state = run[r].state]_vars
    BY RunStep DEF OneWay
  <1> QED
    BY <1>1, TypeInvariance, PTL DEF Spec, ClosedRunStaysClosed


-----------------------------------------------------------------------------
(* Controllers that leave the commit to the executor. *)

\* Then only T2Commit gives an Action its first document.
LEMMA FirstDraft ==
    ASSUME TypeInv, [Next]_vars, ~ControllerMayCommit, NEW a \in Actions,
           OwnDrafts(a) = {}, OwnDrafts(a)' # {}
    PROVE  \E p \in Requests, n \in Names : act[p] = a /\ T2Commit(p, n)
  <1> USE DEF erpVars, ledgerVars, clockVars, requestVars
  <1>1. docs' # docs
    BY DEF OwnDrafts
  <1>2. ASSUME NEW n \in Names, NEW shape \in ManualShapes, UserDraft(n, shape) PROVE FALSE
    BY <1>2, ConstantsAssumption DEF UserDraft, OwnDrafts
  <1>3. ASSUME NEW d \in docs, UserSubmit(d) PROVE FALSE
    <2> DEFINE e == [d EXCEPT !.docstatus = 1]
    <2>1. e.by = d.by /\ docs' = (docs \ {d}) \cup {e}
      BY <1>3 DEF UserSubmit, TypeInv, TypeOK, Docs
    <2> HIDE DEF e
    <2> QED
      BY <2>1 DEF OwnDrafts
  <1>4. ASSUME World PROVE FALSE
    BY <1>1, <1>2, <1>3, <1>4 DEF World, LeaseExpires, ActionDeadlinePasses, RevokeRun, RunDeadlinePasses
  <1>5. PICK p \in Requests : Request(p)
    BY <1>1, <1>4 DEF Next, vars
  <1>6. Execute(p)
    BY <1>1, <1>5 DEF Request, Begin, OpenTransaction, Decide, Reconcile, AnswerSettled, CancelRun, Abandon
  <1>7. PICK n \in Names : T2Commit(p, n)
    BY <1>1, <1>6 DEF Execute, T1Expire, T1Reserve, Replay, T2Begin, T2Recheck, T2Insert, T2Record, T2Fail,
                      Respond, T3Begin, T3Commit, OpenTransaction
  <1>8. act[p] = a
    BY <1>7 DEF T2Commit, OwnDrafts, Draft
  <1> QED
    BY <1>7, <1>8

\* No failed, uncertain, cancelled or abandoned execution leaves a document
\* behind: in T2 the draft and the ledgers are committed together or not at all.
THEOREM NoDraftIsOrphaned ==
    ASSUME ~ControllerMayCommit
    PROVE  Spec => []NoOrphanDraft
  <1>1. Init => NoOrphanDraft
    BY DEF Init, NoOrphanDraft, OwnDrafts
  <1>2. TypeInv /\ ReservedWasDecided /\ NoOrphanDraft /\ [Next]_vars => NoOrphanDraft'
    <2>1. SUFFICES ASSUME TypeInv, ReservedWasDecided, NoOrphanDraft, [Next]_vars,
                          NEW a \in Actions, OwnDrafts(a)' # {}
                   PROVE  reservation'[a].status = "SUCCEEDED"
      BY DEF NoOrphanDraft
    <2>2. CASE OwnDrafts(a) # {}
      <3>1. reservation[a].status = "SUCCEEDED" /\ reservation[a].status \in FinalStates
        BY <2>1, <2>2 DEF NoOrphanDraft, FinalStates, SuccessStates
      <3>2. reservation'[a] = reservation[a]
        <4>1. CASE Next
          BY <2>1, <3>1, <4>1, RowStep DEF OnlyRowsOf
        <4>2. CASE UNCHANGED vars
          BY <4>2 DEF vars, ledgerVars
        <4> QED
          BY <2>1, <4>1, <4>2
      <3> QED
        BY <3>1, <3>2
    <2>3. CASE OwnDrafts(a) = {}
      <3>1. PICK p \in Requests, n \in Names : act[p] = a /\ T2Commit(p, n)
        BY <2>1, <2>3, FirstDraft
      <3> QED
        BY <2>1, <3>1 DEF T2Commit, RecordSuccess, TypeInv, TypeOK
    <2> QED
      BY <2>2, <2>3
  <1> QED
    BY <1>1, <1>2, TypeInvariance, DecidedInvariance, PTL DEF Spec

\* The states of a Run that has not started to execute.
BeforeExecution == {"PROPOSED", "AWAITING_APPROVAL"}

\* A Run with a reservation, and a Run some request saw executing, has left the
\* states before execution for good.
ExecutionBegun ==
    /\ \A a \in Actions : reservation[a].status # "NONE" => run[RunOf[a]].state \notin BeforeExecution
    /\ \A p \in Requests : act[p] \in Actions /\ snap[p].run.state \notin BeforeExecution
                              => run[RunOf[act[p]]].state \notin BeforeExecution

\* No step takes a Run back before its execution.
LEMMA RunNeverGoesBack ==
    ASSUME TypeInv, [Next]_vars, NEW r \in Runs, run[r].state \notin BeforeExecution
    PROVE  run'[r].state \notin BeforeExecution
  <1> USE DEF erpVars, ledgerVars, clockVars, requestVars
  <1>1. ASSUME NEW p \in Requests, NEW target, target \notin BeforeExecution, CloseRun(p, target)
        PROVE  run'[r].state \notin BeforeExecution
    BY <1>1 DEF CloseRun, TypeInv, TypeOK
  <1>2. ASSUME NEW p \in Requests, MoveRunToExecuting(p)
        PROVE  run'[r].state \notin BeforeExecution
    BY <1>2 DEF MoveRunToExecuting, BeforeExecution, TypeInv, TypeOK
  <1>3. ASSUME NEW p \in Requests, Request(p)
        PROVE  run'[r].state \notin BeforeExecution
    <2>1. CASE T1Reserve(p)
      BY <1>2, <2>1 DEF T1Reserve
    <2>2. CASE (\E n \in Names : T2Commit(p, n)) \/ T2Record(p)
      BY <1>1, <2>2 DEF T2Commit, T2Record, RecordSuccess, BeforeExecution
    <2>3. CASE T3Commit(p)
      <3>1. \E t : t \notin BeforeExecution /\ CloseRun(p, t)
        BY <2>3 DEF T3Commit, BeforeExecution
      <3> QED
        BY <1>1, <3>1
    <2>4. CASE Reconcile(p)
      <3>1. \E t : t \notin BeforeExecution /\ CloseReconciledRun(p, t)
        BY <2>4 DEF Reconcile, BeforeExecution
      <3> QED
        BY <1>1, <3>1 DEF CloseReconciledRun
    <2>5. CASE CancelRun(p)
      <3>1. \E t : t \notin BeforeExecution /\ CloseRun(p, t)
        BY <2>5 DEF CancelRun, BeforeExecution
      <3> QED
        BY <1>1, <3>1
    <2>6. CASE UNCHANGED run
      BY <2>6
    <2>7. T1Reserve(p) \/ (\E n \in Names : T2Commit(p, n)) \/ T2Record(p) \/ T3Commit(p)
            \/ Reconcile(p) \/ CancelRun(p) \/ UNCHANGED run
      BY <1>3 DEF Request, Execute, Begin, OpenTransaction, Decide, AnswerSettled, Abandon, T1Expire,
                  Replay, T2Begin, T2Recheck, T2Insert, T2Fail, Respond, T3Begin
    <2> QED
      BY <2>1, <2>2, <2>3, <2>4, <2>5, <2>6, <2>7
  <1>4. CASE World
    <2>1. ASSUME NEW s \in Runs, RevokeRun(s) PROVE run'[r].state \notin BeforeExecution
      BY <2>1 DEF RevokeRun, TypeInv, TypeOK
    <2> QED
      BY <1>4, <2>1 DEF World, LeaseExpires, ActionDeadlinePasses, RunDeadlinePasses, UserDraft, UserSubmit
  <1>5. CASE UNCHANGED vars
    BY <1>5 DEF vars
  <1> QED
    BY <1>3, <1>4, <1>5 DEF Next


\* A reservation is made only by T1.
LEMMA ReservedByT1 ==
    ASSUME TypeInv, [Next]_vars, NEW a \in Actions,
           reservation[a].status = "NONE", reservation'[a].status # "NONE"
    PROVE  \E p \in Requests : act[p] = a /\ T1Reserve(p)
  <1> USE DEF erpVars, ledgerVars, clockVars, requestVars
  <1>1. reservation' # reservation
    OBVIOUS
  <1>2. PICK p \in Requests : Request(p)
    BY <1>1 DEF Next, vars, World, LeaseExpires, ActionDeadlinePasses, RevokeRun, RunDeadlinePasses,
                UserDraft, UserSubmit
  <1>3. ASSUME reservation[act[p]].status # "NONE",
               \E x : reservation' = [reservation EXCEPT ![act[p]] = x]
        PROVE  FALSE
    BY <1>3 DEF TypeInv, TypeOK
  <1>4. ASSUME Reconcile(p) PROVE FALSE
    <2>1. reservation[act[p]].status # "NONE" /\ \E x : reservation' = [reservation EXCEPT ![act[p]] = x]
      BY <1>4 DEF Reconcile, Reconcilable, Unsettled
    <2> QED
      BY <1>3, <2>1
  <1>5. ASSUME T3Commit(p) PROVE FALSE
    <2>1. reservation[act[p]].status # "NONE" /\ \E x : reservation' = [reservation EXCEPT ![act[p]] = x]
      BY <1>5 DEF T3Commit, StillStarted
    <2> QED
      BY <1>3, <2>1
  <1>6. ASSUME (\E n \in Names : T2Commit(p, n)) \/ T2Record(p) PROVE FALSE
    <2>1. PICK n : RecordSuccess(p, n)
      BY <1>6 DEF T2Commit, T2Record
    <2>2. reservation[act[p]].status # "NONE"
      BY <2>1 DEF RecordSuccess, OwnReservation, StartedReservation
    <2>3. reservation' = [reservation EXCEPT
                             ![act[p]] = [status |-> "SUCCEEDED", target |-> n, failure |-> FALSE]]
      BY <2>1 DEF RecordSuccess
    <2> QED
      BY <1>3, <2>2, <2>3
  <1>7. T1Reserve(p)
    BY <1>1, <1>2, <1>4, <1>5, <1>6
       DEF Request, Execute, Begin, OpenTransaction, Decide, AnswerSettled, Abandon, CancelRun,
           T1Expire, Replay, T2Begin, T2Recheck, T2Insert, T2Fail, Respond, T3Begin
  <1>8. act[p] = a
    BY <1>7 DEF T1Reserve, TypeInv, TypeOK
  <1> QED
    BY <1>7, <1>8

\* A request keeps its snapshot, has none, or has just taken one.
LEMMA SnapshotStep ==
    ASSUME TypeInv, [Next]_vars, NEW p \in Requests
    PROVE  \/ act'[p] = act[p] /\ snap'[p] = snap[p]
           \/ snap'[p] = NoSnapshot
           \/ \E a \in Actions : /\ act'[p] = a /\ snap'[p] = Snapshot(a)
                               /\ UNCHANGED <<ledgerVars, erpVars>>
  <1> DEFINE Goal ==
         \/ act'[p] = act[p] /\ snap'[p] = snap[p]
         \/ snap'[p] = NoSnapshot
         \/ \E a \in Actions : /\ act'[p] = a /\ snap'[p] = Snapshot(a)
                             /\ UNCHANGED <<ledgerVars, erpVars>>
  <1> USE DEF erpVars, ledgerVars, clockVars, requestVars
  <1>1. ASSUME NEW q \in Requests, Finish(q) \/ \E place : Continue(q, place) PROVE Goal
    BY <1>1 DEF Finish, Continue, TypeInv, TypeOK
  <1>2. ASSUME NEW q \in Requests, NEW a \in Actions, NEW place, OpenTransaction(q, a, place)
        PROVE  Goal
    BY <1>2 DEF OpenTransaction, TypeInv, TypeOK
  <1>3. ASSUME UNCHANGED <<act, snap>> PROVE Goal
    BY <1>3
  <1>4. ASSUME NEW q \in Requests, Request(q) PROVE Goal
    <2>1. CASE Execute(q)
      <3>1. CASE T2Begin(q) \/ T3Begin(q)
        <4>1. act[q] \in Actions
          BY <3>1 DEF T2Begin, T3Begin, TypeInv, RequestOK
        <4> QED
          BY <1>2, <3>1, <4>1 DEF T2Begin, T3Begin
      <3>2. CASE T1Expire(q) \/ Replay(q) \/ Respond(q) \/ T3Commit(q)
        BY <1>1, <3>2 DEF T1Expire, Replay, Respond, T3Commit
      <3>3. CASE T1Reserve(q) \/ (\E n \in Names : T2Commit(q, n)) \/ T2Record(q)
                   \/ \E outcome \in {"CERTAIN", "UNCERTAIN"} : T2Fail(q, outcome)
        BY <1>1, <3>3 DEF T1Reserve, T2Commit, T2Record, RecordSuccess, T2Fail
      <3>4. CASE T2Recheck(q) \/ \E n \in Names : T2Insert(q, n)
        BY <1>3, <3>4 DEF T2Recheck, T2Insert
      <3> QED
        BY <2>1, <3>1, <3>2, <3>3, <3>4 DEF Execute
    <2>2. CASE \E a \in Actions, handler \in Handlers : Begin(q, a, handler)
      BY <1>2, <2>2 DEF Begin
    <2>3. CASE \/ \E decision \in {"APPROVED", "DECLINED"} : Decide(q, decision)
               \/ Reconcile(q) \/ AnswerSettled(q) \/ CancelRun(q) \/ Abandon(q)
      BY <1>1, <2>3 DEF Decide, Reconcile, AnswerSettled, CancelRun, Abandon
    <2> QED
      BY <1>4, <2>1, <2>2, <2>3 DEF Request
  <1>5. CASE World \/ UNCHANGED vars
    BY <1>3, <1>5 DEF World, LeaseExpires, ActionDeadlinePasses, RevokeRun, RunDeadlinePasses,
                      UserDraft, UserSubmit, vars
  <1> QED
    BY <1>4, <1>5 DEF Next

LEMMA BegunInvariance == Spec => []ExecutionBegun
  <1>1. Init => ExecutionBegun
    BY DEF Init, ExecutionBegun, NoReservation, NoSnapshot, BeforeExecution
  <1>2. TypeInv /\ TypeInv' /\ ExecutionBegun /\ [Next]_vars => ExecutionBegun'
    <2>1. SUFFICES ASSUME TypeInv, ExecutionBegun, [Next]_vars PROVE ExecutionBegun'
      OBVIOUS
    <2>2. ASSUME NEW a \in Actions, reservation'[a].status # "NONE"
          PROVE  run'[RunOf[a]].state \notin BeforeExecution
      <3>1. RunOf[a] \in Runs
        BY ConstantsAssumption
      <3>2. CASE run[RunOf[a]].state \notin BeforeExecution
        BY <2>1, <3>1, <3>2, RunNeverGoesBack
      <3>3. CASE reservation[a].status = "NONE"
        <4>1. PICK p \in Requests : act[p] = a /\ T1Reserve(p)
          BY <2>1, <2>2, <3>3, ReservedByT1
        <4>2. CASE snap[p].run.state = "EXECUTING"
          BY <2>1, <3>2, <4>1, <4>2 DEF ExecutionBegun, BeforeExecution
        <4>3. CASE run' = [run EXCEPT ![RunOf[a]] = [state |-> "EXECUTING", live |-> snap[p].run.live]]
          BY <2>1, <3>1, <4>3 DEF TypeInv, TypeOK, BeforeExecution
        <4> QED
          BY <4>1, <4>2, <4>3 DEF T1Reserve, MoveRunToExecuting
      <3> QED
        BY <2>1, <3>2, <3>3 DEF ExecutionBegun
    <2>3. ASSUME NEW p \in Requests, act'[p] \in Actions, snap'[p].run.state \notin BeforeExecution
          PROVE  run'[RunOf[act'[p]]].state \notin BeforeExecution
      <3>1. RunOf[act'[p]] \in Runs
        BY <2>3, ConstantsAssumption
      <3>2. CASE act'[p] = act[p] /\ snap'[p] = snap[p]
        BY <2>1, <2>3, <3>1, <3>2, RunNeverGoesBack DEF ExecutionBegun
      <3>3. CASE snap'[p] = NoSnapshot
        BY <2>3, <3>3 DEF NoSnapshot, BeforeExecution
      <3>4. CASE \E a \in Actions : /\ act'[p] = a /\ snap'[p] = Snapshot(a)
                                    /\ UNCHANGED <<ledgerVars, erpVars>>
        BY <2>3, <3>4 DEF Snapshot, ledgerVars
      <3> QED
        BY <2>1, <3>2, <3>3, <3>4, SnapshotStep
    <2> QED
      BY <2>2, <2>3 DEF ExecutionBegun
  <1> QED
    BY <1>1, <1>2, TypeInvariance, PTL DEF Spec

-----------------------------------------------------------------------------
(***************************************************************************)
(* The executor implements GovernedWrite when controllers leave the commit *)
(* to it.  Each step that moves the rows of one Action is one step of that *)
(* Action's promise; every other step is a stutter.                        *)
(***************************************************************************)
\* No request is between a controller's commit and the executor's.
NoEarlyCommit == \A p \in Requests : pc[p] # "t2b"

\* The values of the refinement mapping.
PromiseMap == [a \in Actions |-> PromiseOf(a)]

WroteSet == {a \in Actions : OwnDrafts(a) # {}}

\* What an Action's rows promise, row by row.
LEMMA PromiseValues ==
    ASSUME NEW a \in Actions
    PROVE  /\ action[a] = "AWAITING_APPROVAL" => PromiseOf(a) = "PROPOSED"
           /\ action[a] = "APPROVED" => PromiseOf(a) = "APPROVED"
           /\ action[a] \in {"DECLINED", "EXPIRED"} => PromiseOf(a) = "VOID"
           /\ action[a] = "EXECUTED" /\ reservation[a].status = "SUCCEEDED" => PromiseOf(a) = "WRITTEN"
           /\ action[a] = "EXECUTED" /\ reservation[a].status # "SUCCEEDED" => PromiseOf(a) = "ATTRIBUTED"
  BY DEF PromiseOf

LEMMA PromiseValuesNext ==
    ASSUME NEW a \in Actions
    PROVE  /\ action'[a] = "AWAITING_APPROVAL" => PromiseOf(a)' = "PROPOSED"
           /\ action'[a] = "APPROVED" => PromiseOf(a)' = "APPROVED"
           /\ action'[a] \in {"DECLINED", "EXPIRED"} => PromiseOf(a)' = "VOID"
           /\ action'[a] = "EXECUTED" /\ reservation'[a].status = "SUCCEEDED" => PromiseOf(a)' = "WRITTEN"
           /\ action'[a] = "EXECUTED" /\ reservation'[a].status # "SUCCEEDED" => PromiseOf(a)' = "ATTRIBUTED"
  BY DEF PromiseOf

\* A step of one Action's rows changes one promise.
LEMMA OnePromise ==
    ASSUME NEW b \in Actions, OnlyRowsOf(b)
    PROVE  PromiseMap' = [PromiseMap EXCEPT ![b] = PromiseOf(b)']
  <1>1. \A a \in Actions : a # b => PromiseOf(a)' = PromiseOf(a)
    BY DEF OnlyRowsOf, PromiseOf
  <1> QED
    BY <1>1 DEF PromiseMap

\* Documents are never deleted, so a written Action stays written.
LEMMA WroteGrows ==
    ASSUME TypeInv, [Next]_vars, NEW a \in Actions, OwnDrafts(a) # {}
    PROVE  OwnDrafts(a)' # {}
  <1> USE DEF erpVars, ledgerVars, clockVars, requestVars
  <1>1. CASE docs \subseteq docs'
    BY <1>1 DEF OwnDrafts
  <1>2. ASSUME NEW d \in docs, UserSubmit(d) PROVE OwnDrafts(a)' # {}
    <2> DEFINE e == [d EXCEPT !.docstatus = 1]
    <2>1. e.by = d.by /\ docs' = (docs \ {d}) \cup {e}
      BY <1>2 DEF UserSubmit, TypeInv, TypeOK, Docs
    <2> HIDE DEF e
    <2> QED
      BY <2>1 DEF OwnDrafts
  <1>3. ASSUME NEW p \in Requests, Request(p) PROVE docs \subseteq docs'
    <2>1. CASE Execute(p)
      BY <2>1 DEF Execute, T1Expire, T1Reserve, Replay, T2Begin, T2Recheck, T2Commit, T2Insert, T2Record, T2Fail,
                  Respond, T3Begin, T3Commit, OpenTransaction
    <2> QED
      BY <1>3, <2>1 DEF Request, Begin, OpenTransaction, Decide, Reconcile, AnswerSettled, CancelRun,
                        Abandon
  <1> QED
    BY <1>1, <1>2, <1>3 DEF Next, vars, World, LeaseExpires, ActionDeadlinePasses, RevokeRun,
                            RunDeadlinePasses, UserDraft

\* The set of written Actions changes only in T2Commit, by that Action.
LEMMA WroteStep ==
    ASSUME TypeInv, [Next]_vars, ~ControllerMayCommit
    PROVE  \/ WroteSet' = WroteSet
           \/ \E p \in Requests, n \in Names : T2Commit(p, n)
  <1>1. CASE \E a \in Actions : OwnDrafts(a) = {} /\ OwnDrafts(a)' # {}
    BY <1>1, FirstDraft
  <1>2. CASE \A a \in Actions : OwnDrafts(a) = {} => OwnDrafts(a)' = {}
    <2>1. \A a \in Actions : OwnDrafts(a)' # {} <=> OwnDrafts(a) # {}
      BY <1>2, WroteGrows
    <2> QED
      BY <2>1 DEF WroteSet
  <1> QED
    BY <1>1, <1>2

LEMMA EarlyCommitStep ==
    ASSUME TypeInv, NoEarlyCommit, [Next]_vars, ~ControllerMayCommit
    PROVE  NoEarlyCommit'
  <1> USE DEF erpVars, ledgerVars, clockVars, requestVars
  <1>1. ASSUME NEW q \in Requests, NEW place, place # "t2b", pc' = [pc EXCEPT ![q] = place]
        PROVE  NoEarlyCommit'
    BY <1>1 DEF NoEarlyCommit, TypeInv, TypeOK
  <1>2. ASSUME NEW q \in Requests, Request(q)
        PROVE  \E place : place # "t2b" /\ pc' = [pc EXCEPT ![q] = place]
    <2>1. CASE Execute(q)
      BY <2>1 DEF Execute, T1Expire, T1Reserve, Replay, T2Begin, T2Recheck, T2Commit, T2Insert, T2Record, T2Fail,
                  Respond, T3Begin, T3Commit, OpenTransaction, RecordSuccess, Continue, Finish
    <2> QED
      BY <1>2, <2>1 DEF Request, Begin, Handlers, OpenTransaction, Decide, Reconcile, AnswerSettled,
                        CancelRun, Abandon, Finish
  <1>3. ASSUME UNCHANGED pc PROVE NoEarlyCommit'
    BY <1>3 DEF NoEarlyCommit
  <1> QED
    BY <1>1, <1>2, <1>3 DEF Next, vars, World, LeaseExpires, ActionDeadlinePasses, RevokeRun,
                            RunDeadlinePasses, UserDraft, UserSubmit

-----------------------------------------------------------------------------
(* The simulation. *)

\* A step of the promises, in terms of the mapping.
Spend(b) ==
    \/ /\ PromiseMap[b] = "PROPOSED"
       /\ \E v \in {"APPROVED", "VOID"} : PromiseMap' = [PromiseMap EXCEPT ![b] = v]
       /\ WroteSet' = WroteSet
    \/ /\ PromiseMap[b] = "APPROVED"
       /\ \E v \in {"ATTRIBUTED", "VOID"} : PromiseMap' = [PromiseMap EXCEPT ![b] = v]
       /\ WroteSet' = WroteSet
    \/ /\ PromiseMap[b] = "APPROVED"
       /\ PromiseMap' = [PromiseMap EXCEPT ![b] = "WRITTEN"]
       /\ WroteSet' = WroteSet \cup {b}

Stutter == PromiseMap' = PromiseMap /\ WroteSet' = WroteSet

\* A verified write is the abstract write: document and ledgers in one step.
LEMMA CommitIsWrite ==
    ASSUME TypeInv, [Next]_vars, NEW p \in Requests, NEW n \in Names, T2Commit(p, n)
    PROVE  \E b \in Actions : Spend(b)
  <1>1. PICK b \in Actions : b = act[p] /\ action[b] = "APPROVED"
    BY DEF TypeInv, RequestOK, T2Commit, RecordSuccess, ActionFresh
  <1>2. /\ action' = [action EXCEPT ![b] = "EXECUTED"]
        /\ receipt' = [receipt EXCEPT ![b] = [state |-> "SUCCEEDED", target |-> n]]
        /\ reservation' = [reservation EXCEPT
                              ![b] = [status |-> "SUCCEEDED", target |-> n, failure |-> FALSE]]
        /\ docs' = docs \cup {Draft(b, n)}
    BY <1>1 DEF T2Commit, RecordSuccess, ReceiptInput
  <1>3. OnlyRowsOf(b) /\ action'[b] = "EXECUTED" /\ reservation'[b].status = "SUCCEEDED"
    BY <1>1, <1>2 DEF OnlyRowsOf, TypeInv, TypeOK
  <1>4. PromiseMap[b] = "APPROVED" /\ PromiseOf(b)' = "WRITTEN"
    BY <1>1, <1>3, PromiseValues, PromiseValuesNext DEF PromiseMap
  <1>5. PromiseMap' = [PromiseMap EXCEPT ![b] = "WRITTEN"]
    BY <1>1, <1>3, <1>4, OnePromise
  <1>6. OwnDrafts(b)' # {}
    <2>1. Draft(b, n) \in docs'
      BY <1>2
    <2>2. Draft(b, n).by = b
      BY DEF Draft
    <2>3. \E d \in docs' : d.by = b
      BY <2>1, <2>2
    <2> QED
      BY <2>3 DEF OwnDrafts
  <1>7. \A a \in Actions : a # b => OwnDrafts(a)' = OwnDrafts(a)
    BY <1>2 DEF OwnDrafts, Draft
  <1>8. WroteSet' = WroteSet \cup {b}
    BY <1>1, <1>6, <1>7 DEF WroteSet
  <1> QED
    BY <1>1, <1>4, <1>5, <1>8 DEF Spend

\* An approval that is not spent by a write is attributed or given up.
LEMMA ApprovalSpent ==
    ASSUME NEW b \in Actions, OnlyRowsOf(b), WroteSet' = WroteSet,
           action[b] = "APPROVED",
           \/ action'[b] \in {"DECLINED", "EXPIRED"}
           \/ action'[b] = "EXECUTED" /\ reservation'[b].status # "SUCCEEDED"
    PROVE  Spend(b)
  <1>1. PromiseMap[b] = "APPROVED" /\ PromiseOf(b)' \in {"ATTRIBUTED", "VOID"}
    BY PromiseValues, PromiseValuesNext DEF PromiseMap
  <1> QED
    BY <1>1, OnePromise DEF Spend

\* Rows of an Action that is not EXECUTED promise what its state says.
LEMMA SameState ==
    ASSUME TypeInv, NEW b \in Actions, OnlyRowsOf(b), WroteSet' = WroteSet,
           action[b] # "EXECUTED", action'[b] = action[b]
    PROVE  Stutter
  <1>1. action[b] \in ActionStates
    BY DEF TypeInv, TypeOK
  <1>2. PromiseOf(b)' = PromiseOf(b)
    BY <1>1, PromiseValues, PromiseValuesNext DEF ActionStates
  <1>3. PromiseMap' = [PromiseMap EXCEPT ![b] = PromiseOf(b)]
    BY <1>2, OnePromise
  <1> QED
    BY <1>3 DEF Stutter, PromiseMap

LEMMA SimulationStep ==
    ASSUME TypeInv, LedgersAgree, ReservedWasDecided, NoEarlyCommit, [Next]_vars, ~ControllerMayCommit
    PROVE  Stutter \/ \E b \in Actions : Spend(b)
  <1> DEFINE Goal == Stutter \/ \E b \in Actions : Spend(b)
  <1> USE DEF erpVars, ledgerVars, clockVars, requestVars
  <1>1. CASE \E p \in Requests, n \in Names : T2Commit(p, n)
    BY <1>1, CommitIsWrite
  <1>2. CASE WroteSet' = WroteSet
    <2>1. ASSUME UNCHANGED <<reservation, receipt, action>> PROVE Goal
      <3>1. PromiseMap' = PromiseMap
        BY <2>1 DEF PromiseMap, PromiseOf
      <3> QED
        BY <1>2, <3>1 DEF Stutter
    <2>2. ASSUME NEW p \in Requests, pc[p] # "idle" PROVE act[p] \in Actions
      BY <2>2 DEF TypeInv, RequestOK
    <2>3. ASSUME NEW p \in Requests, Execute(p) PROVE Goal
      <3>1. CASE T1Expire(p)
        <4>1. act[p] \in Actions /\ action[act[p]] = "APPROVED"
          BY <2>2, <3>1 DEF T1Expire, ProofCurrent
        <4>2. OnlyRowsOf(act[p]) /\ action'[act[p]] = "EXPIRED"
          BY <3>1, <4>1 DEF T1Expire, OnlyRowsOf, TypeInv, TypeOK
        <4> QED
          BY <1>2, <4>1, <4>2, ApprovalSpent
      <3>2. CASE T1Reserve(p)
        <4>1. act[p] \in Actions /\ action[act[p]] = "APPROVED"
          BY <2>2, <3>2 DEF T1Reserve, PreExecuteRecheck, ProofCurrent
        <4>2. OnlyRowsOf(act[p]) /\ action'[act[p]] = action[act[p]]
          BY <3>2, <4>1 DEF T1Reserve, OnlyRowsOf, TypeInv, TypeOK
        <4> QED
          BY <1>2, <4>1, <4>2, SameState
      <3>3. CASE T3Commit(p)
        <4>1. act[p] \in Actions /\ reservation[act[p]].status = "STARTED"
          BY <2>2, <3>3 DEF T3Commit, StillStarted
        <4>2. \/ action' = action
              \/ action[act[p]] = "APPROVED" /\ action' = [action EXCEPT ![act[p]] = "EXPIRED"]
          BY <3>3 DEF T3Commit, ActionFresh
        <4>3. /\ \E x : receipt' = [receipt EXCEPT ![act[p]] = x]
              /\ \E x : reservation' = [reservation EXCEPT ![act[p]] = x]
          BY <3>3 DEF T3Commit
        <4>4. OnlyRowsOf(act[p])
          BY <4>1, <4>2, <4>3 DEF OnlyRowsOf, TypeInv, TypeOK
        <4>5. action[act[p]] # "EXECUTED"
          BY <4>1 DEF LedgersAgree, SuccessStates
        <4>6. CASE action' = action
          BY <1>2, <4>1, <4>4, <4>5, <4>6, SameState
        <4>7. CASE action[act[p]] = "APPROVED" /\ action' = [action EXCEPT ![act[p]] = "EXPIRED"]
          BY <1>2, <4>1, <4>4, <4>7, ApprovalSpent DEF TypeInv, TypeOK
        <4> QED
          BY <4>2, <4>6, <4>7
      <3>4. CASE T2Record(p)
        BY <3>4 DEF T2Record, NoEarlyCommit
      <3>5. CASE \/ Replay(p) \/ T2Begin(p) \/ T2Recheck(p) \/ \E n \in Names : T2Insert(p, n)
                 \/ \E outcome \in {"CERTAIN", "UNCERTAIN"} : T2Fail(p, outcome)
                 \/ Respond(p) \/ T3Begin(p)
        BY <2>1, <3>5 DEF Replay, T2Begin, T2Recheck, T3Begin, OpenTransaction, T2Insert, T2Fail, Respond
      <3> QED
        BY <1>1, <2>3, <3>1, <3>2, <3>3, <3>4, <3>5 DEF Execute
    <2>4. ASSUME NEW p \in Requests, NEW decision \in {"APPROVED", "DECLINED"}, Decide(p, decision)
          PROVE  Goal
      <3>1. act[p] \in Actions /\ action[act[p]] = "AWAITING_APPROVAL"
        BY <2>2, <2>4 DEF Decide
      <3>2. OnlyRowsOf(act[p]) /\ action'[act[p]] = decision
        BY <2>4, <3>1 DEF Decide, OnlyRowsOf, TypeInv, TypeOK
      <3>3. PromiseMap[act[p]] = "PROPOSED"
        BY <3>1, PromiseValues DEF PromiseMap
      <3>4. PICK b \in Actions : b = act[p]
        BY <3>1
      <3>5. /\ PromiseOf(b)' \in {"APPROVED", "VOID"}
            /\ PromiseMap' = [PromiseMap EXCEPT ![b] = PromiseOf(b)']
        BY <3>2, <3>4, PromiseValuesNext, OnePromise
      <3> QED
        BY <1>2, <3>3, <3>4, <3>5 DEF Spend
    <2>5. ASSUME NEW p \in Requests, Reconcile(p) PROVE Goal
      <3> DEFINE c == Classification(p)
      <3>1. act[p] \in Actions /\ reservation[act[p]].status \in Unsettled
        BY <2>2, <2>5 DEF Reconcile, Reconcilable
      <3>2. action[act[p]] # "EXECUTED"
        BY <3>1 DEF LedgersAgree, Unsettled, SuccessStates
      <3>3. c = "RECONCILED_SUCCESS" => snap[p].action = "APPROVED"
        BY DEF Classification
      <3>4. /\ \E x : receipt' = [receipt EXCEPT ![act[p]] = x]
            /\ \E t : reservation' = [reservation EXCEPT
                                         ![act[p]] = [status |-> c, target |-> t, failure |-> TRUE]]
        BY <2>5 DEF Reconcile
      <3>5. snap[p].action = "APPROVED" => action[act[p]] = "APPROVED"
        BY <2>5 DEF Reconcile, ActionFresh
      <3>6. \/ c = "RECONCILED_SUCCESS" /\ action' = [action EXCEPT ![act[p]] = "EXECUTED"]
            \/ snap[p].action = "APPROVED" /\ action' = [action EXCEPT ![act[p]] = "EXPIRED"]
            \/ action' = [action EXCEPT ![act[p]] = action[act[p]]]
        BY <2>5 DEF Reconcile
      <3>7. OnlyRowsOf(act[p])
        BY <3>1, <3>4, <3>6 DEF OnlyRowsOf, TypeInv, TypeOK
      <3>8. reservation'[act[p]].status = c
        BY <3>1, <3>4 DEF TypeInv, TypeOK
      <3> HIDE DEF c
      <3>9. \/ action[act[p]] = "APPROVED" /\ action'[act[p]] = "EXECUTED"
               /\ reservation'[act[p]].status = "RECONCILED_SUCCESS"
            \/ action[act[p]] = "APPROVED" /\ action'[act[p]] = "EXPIRED"
            \/ action'[act[p]] = action[act[p]]
        BY <3>1, <3>3, <3>5, <3>6, <3>8 DEF TypeInv, TypeOK
      <3> QED
        BY <1>2, <3>1, <3>2, <3>7, <3>9, ApprovalSpent, SameState
    <2>6. ASSUME NEW p \in Requests,
                 \/ \E a \in Actions, handler \in Handlers : Begin(p, a, handler)
                 \/ AnswerSettled(p) \/ CancelRun(p) \/ Abandon(p)
          PROVE  Goal
      BY <2>1, <2>6 DEF Begin, OpenTransaction, AnswerSettled, CancelRun, Abandon
    <2>7. CASE World
      BY <2>1, <2>7 DEF World, LeaseExpires, ActionDeadlinePasses, RevokeRun, RunDeadlinePasses,
                        UserDraft, UserSubmit
    <2>8. CASE UNCHANGED vars
      BY <2>1, <2>8 DEF vars
    <2> QED
      BY <2>3, <2>4, <2>5, <2>6, <2>7, <2>8 DEF Next, Request
  <1> QED
    BY <1>1, <1>2, WroteStep

\* The executor implements GovernedWrite, for any number of Actions, Runs and
\* concurrent requests: the document and the spent approval appear in one
\* step, and an Action that was given up has no document and never gets one.
THEOREM ExecutorImplementsGovernedWrite ==
    ASSUME ~ControllerMayCommit
    PROVE  Spec => ImplementsGovernedWrite
  <1>1. Init => Promised!PInit
    <2>1. ASSUME Init PROVE \A a \in Actions : PromiseOf(a) = "PROPOSED"
      BY <2>1, PromiseValues DEF Init
    <2>2. ASSUME Init PROVE \A a \in Actions : OwnDrafts(a) = {}
      BY <2>2 DEF Init, OwnDrafts
    <2> QED
      BY <2>1, <2>2 DEF Promised!PInit
  <1>2. TypeInv /\ LedgersAgree /\ ReservedWasDecided /\ NoEarlyCommit /\ [Next]_vars
          => [Promised!PNext]_(Promised!promiseVars)
    <2>1. SUFFICES ASSUME TypeInv, LedgersAgree, ReservedWasDecided, NoEarlyCommit, [Next]_vars
                   PROVE  [Promised!PNext]_(Promised!promiseVars)
      OBVIOUS
    <2>2. CASE Stutter
      BY <2>2 DEF Stutter, PromiseMap, WroteSet, Promised!promiseVars
    <2>3. ASSUME NEW b \in Actions, Spend(b) PROVE Promised!PNext
      BY <2>3 DEF Spend, PromiseMap, WroteSet, Promised!PNext, Promised!Allow, Promised!Refuse,
                  Promised!Write, Promised!Attribute, Promised!GiveUp
    <2> QED
      BY <2>1, <2>2, <2>3, SimulationStep
  <1>3. Init => NoEarlyCommit
    BY DEF Init, NoEarlyCommit
  <1>4. TypeInv /\ NoEarlyCommit /\ [Next]_vars => NoEarlyCommit'
    BY EarlyCommitStep
  <1> QED
    BY <1>1, <1>2, <1>3, <1>4, TypeInvariance, LedgersAlwaysAgree, DecidedInvariance, PTL
       DEF Spec, ImplementsGovernedWrite, Promised!PSpec

-----------------------------------------------------------------------------
(***************************************************************************)
(* What GovernedExecution's records and answers are evidence of: the       *)
(* document a success names, the absence a failure claims, and the quiet   *)
(* of a Run that was cancelled, with or without committing controllers.    *)
(***************************************************************************)
(* Steps. *)

\* A step is the step of one request, or leaves the request as it is.
LEMMA OneRequest ==
    ASSUME TypeInv, [Next]_vars, NEW p \in Requests
    PROVE  \/ Request(p)
           \/ /\ pc'[p] = pc[p] /\ act'[p] = act[p] /\ snap'[p] = snap[p]
              /\ written'[p] = written[p]
  <1> DEFINE Same == /\ pc'[p] = pc[p] /\ act'[p] = act[p] /\ snap'[p] = snap[p]
                     /\ written'[p] = written[p]
  <1> USE DEF erpVars, ledgerVars, clockVars, requestVars
  <1>1. ASSUME NEW q \in Requests, q # p, Finish(q) PROVE Same
    BY <1>1 DEF Finish, TypeInv, TypeOK
  <1>2. ASSUME NEW q \in Requests, q # p, NEW place, Continue(q, place),
               written' = written \/ \E n : written' = [written EXCEPT ![q] = n]
        PROVE  Same
    BY <1>2 DEF Continue, TypeInv, TypeOK
  <1>3. ASSUME NEW q \in Requests, q # p, NEW a, NEW place, OpenTransaction(q, a, place)
        PROVE  Same
    BY <1>3 DEF OpenTransaction, TypeInv, TypeOK
  <1>4. ASSUME NEW q \in Requests, q # p, Request(q) PROVE Same
    <2>1. CASE Execute(q)
      <3>1. CASE T1Expire(q) \/ Replay(q) \/ Respond(q) \/ T3Commit(q)
        BY <1>1, <1>4, <3>1 DEF T1Expire, Replay, Respond, T3Commit
      <3>2. CASE T1Reserve(q) \/ \E outcome \in {"CERTAIN", "UNCERTAIN"} : T2Fail(q, outcome)
        BY <1>2, <1>4, <3>2 DEF T1Reserve, T2Fail
      <3>3. CASE (\E n \in Names : T2Commit(q, n)) \/ T2Record(q)
        BY <1>2, <1>4, <3>3 DEF T2Commit, T2Record, RecordSuccess
      <3>4. CASE T2Begin(q) \/ T3Begin(q)
        BY <1>3, <1>4, <3>4 DEF T2Begin, T3Begin
      <3>5. CASE T2Recheck(q) \/ \E n \in Names : T2Insert(q, n)
        BY <1>4, <3>5 DEF T2Recheck, T2Insert, TypeInv, TypeOK
      <3> QED
        BY <2>1, <3>1, <3>2, <3>3, <3>4, <3>5 DEF Execute
    <2>2. CASE \E a \in Actions, handler \in Handlers : Begin(q, a, handler)
      BY <1>3, <1>4, <2>2 DEF Begin
    <2>3. CASE \/ \E decision \in {"APPROVED", "DECLINED"} : Decide(q, decision)
               \/ Reconcile(q) \/ AnswerSettled(q) \/ CancelRun(q) \/ Abandon(q)
      BY <1>1, <1>4, <2>3 DEF Decide, Reconcile, AnswerSettled, CancelRun, Abandon
    <2> QED
      BY <1>4, <2>1, <2>2, <2>3 DEF Request
  <1>5. CASE World \/ UNCHANGED vars
    BY <1>5 DEF World, LeaseExpires, ActionDeadlinePasses, RevokeRun, RunDeadlinePasses, UserDraft,
                UserSubmit, vars
  <1> QED
    BY <1>4, <1>5 DEF Next

\* Where a request can have come from when it is between the commits, done
\* with its record, or under way with a reservation.
LEMMA Arrival ==
    ASSUME TypeInv, NEW p \in Requests, Request(p)
    PROVE  /\ pc'[p] = "cleared" => T2Recheck(p)
           /\ pc'[p] = "t2b" => \E n \in Names : T2Insert(p, n)
           /\ pc'[p] = "ok" => \E n \in Names : pc[p] # "idle" /\ RecordSuccess(p, n)
           /\ pc'[p] \in Reserved => act'[p] = act[p] /\ (pc[p] \in Reserved \/ T1Reserve(p))
           /\ pc'[p] \in Writing => pc[p] \in Writing \/ T1Reserve(p)
  <1> DEFINE Goal ==
         /\ pc'[p] = "cleared" => T2Recheck(p)
         /\ pc'[p] = "t2b" => \E n \in Names : T2Insert(p, n)
         /\ pc'[p] = "ok" => \E n \in Names : pc[p] # "idle" /\ RecordSuccess(p, n)
         /\ pc'[p] \in Reserved => act'[p] = act[p] /\ (pc[p] \in Reserved \/ T1Reserve(p))
         /\ pc'[p] \in Writing => pc[p] \in Writing \/ T1Reserve(p)
  <1> USE DEF Reserved, Writing
  <1>1. pc \in [Requests -> Places] /\ act \in [Requests -> Actions \cup {NoAction}]
    BY DEF TypeInv, TypeOK
  <1>2. ASSUME Finish(p) PROVE Goal
    BY <1>1, <1>2 DEF Finish
  <1>3. CASE Execute(p)
    <2>1. CASE T1Expire(p) \/ Replay(p) \/ Respond(p) \/ T3Commit(p)
      BY <1>2, <2>1 DEF T1Expire, Replay, Respond, T3Commit
    <2>2. CASE T1Reserve(p)
      BY <1>1, <2>2 DEF T1Reserve, Continue
    <2>3. CASE \E outcome \in {"CERTAIN", "UNCERTAIN"} : T2Fail(p, outcome)
      BY <1>1, <2>3 DEF T2Fail, Continue
    <2>4. CASE \E n \in Names : T2Commit(p, n)
      <3>1. PICK n \in Names : T2Commit(p, n)
        BY <2>4
      <3>2. pc[p] = "cleared" /\ pc'[p] = "ok" /\ act'[p] = act[p] /\ RecordSuccess(p, n)
        BY <1>1, <3>1 DEF T2Commit, RecordSuccess, Continue
      <3> QED
        BY <3>2
    <2>5. CASE T2Record(p)
      <3>1. pc[p] = "t2b" /\ pc'[p] = "ok" /\ act'[p] = act[p] /\ RecordSuccess(p, written[p])
        BY <1>1, <2>5 DEF T2Record, RecordSuccess, Continue
      <3>2. written[p] \in Names
        BY <3>1 DEF TypeInv, RequestOK
      <3> QED
        BY <3>1, <3>2
    <2>6. CASE T2Begin(p) \/ T3Begin(p)
      BY <1>1, <2>6 DEF T2Begin, T3Begin, OpenTransaction
    <2>7. CASE T2Recheck(p) \/ \E n \in Names : T2Insert(p, n)
      BY <1>1, <2>7 DEF T2Recheck, T2Insert
    <2> QED
      BY <1>3, <2>1, <2>2, <2>3, <2>4, <2>5, <2>6, <2>7 DEF Execute
  <1>4. CASE \E a \in Actions, handler \in Handlers : Begin(p, a, handler)
    BY <1>1, <1>4 DEF Begin, OpenTransaction, Handlers
  <1>5. CASE \/ \E decision \in {"APPROVED", "DECLINED"} : Decide(p, decision)
             \/ Reconcile(p) \/ AnswerSettled(p) \/ CancelRun(p) \/ Abandon(p)
    BY <1>2, <1>5 DEF Decide, Reconcile, AnswerSettled, CancelRun, Abandon
  <1> QED
    BY <1>3, <1>4, <1>5 DEF Request

\* A deadline that has passed before T2 has its locks stays passed, and no T2
\* gets through the gates any more.
LEMMA TooLateStays ==
    ASSUME TypeInv, [Next]_vars, NEW a \in Actions, TooLate(a)
    PROVE  TooLate(a)'
  <1> USE DEF erpVars, ledgerVars, clockVars, requestVars
  <1>1. expired'[a]
    <2>1. expired' = expired \/ \E b \in Actions : expired' = [expired EXCEPT ![b] = TRUE]
      <3>1. ASSUME NEW p \in Requests, Request(p) PROVE expired' = expired
        <4>1. CASE Execute(p)
          BY <4>1 DEF Execute, T1Expire, T1Reserve, Replay, T2Begin, T2Recheck, T2Commit, T2Insert, T2Record,
                      T2Fail, Respond, T3Begin, T3Commit, OpenTransaction
        <4> QED
          BY <3>1, <4>1 DEF Request, Begin, OpenTransaction, Decide, Reconcile, AnswerSettled, CancelRun,
                            Abandon
      <3> QED
        BY <3>1 DEF Next, vars, World, LeaseExpires, ActionDeadlinePasses, RevokeRun, RunDeadlinePasses,
                    UserDraft, UserSubmit
    <2> QED
      BY <2>1 DEF TooLate, TypeInv, TypeOK
  <1>2. ASSUME NEW p \in Requests, pc'[p] = "cleared" PROVE act'[p] # a
    <2>1. CASE Request(p)
      <3>1. T2Recheck(p)
        BY <1>2, <2>1, Arrival
      <3>2. ~expired[act[p]] /\ act'[p] = act[p]
        BY <3>1 DEF T2Recheck, PreExecuteRecheck, ProofCurrent
      <3> QED
        BY <3>2 DEF TooLate
    <2>2. CASE pc'[p] = pc[p] /\ act'[p] = act[p]
      BY <1>2, <2>2 DEF TooLate
    <2> QED
      BY <2>1, <2>2, OneRequest
  <1> QED
    BY <1>1, <1>2 DEF TooLate

\* Every write happens under an authority that is current at its commit: the
\* approval, the Run and the reservation, although T2 evaluates its gates on a
\* snapshot and does not look at the lease.  A deadline that has passed before
\* T2 has its locks stops the write, whatever the other requests do.
THEOREM WritesAreAuthorised ==
    ASSUME ~ControllerMayCommit
    PROVE  Spec => WriteOnlyWhenAuthorised
  <1>1. ASSUME TypeInv, ExecutionBegun, [Next]_vars,
               NEW a \in Actions, OwnDrafts(a)' # {}, OwnDrafts(a) = {}
        PROVE  /\ action[a] = "APPROVED" /\ ~TooLate(a)
               /\ run[RunOf[a]] = [state |-> "EXECUTING", live |-> TRUE]
               /\ reservation[a].status = "STARTED"
    <2>1. PICK p \in Requests, n \in Names : act[p] = a /\ T2Commit(p, n)
      BY <1>1, FirstDraft
    <2>2. /\ pc[p] = "cleared"
          /\ reservation[a].status = "STARTED"
          /\ action[a] = snap[p].action /\ run[RunOf[a]] = snap[p].run
      BY <2>1 DEF T2Commit, RecordSuccess, OwnReservation, StartedReservation, ActionFresh,
                  CloseRunPossible, RunFresh
    <2>3. /\ action[a] = "APPROVED" /\ run[RunOf[a]].live
          /\ run[RunOf[a]].state \in {"PROPOSED", "AWAITING_APPROVAL", "EXECUTING"}
      BY <1>1, <2>2 DEF TypeInv, RequestOK
    <2>4. ~TooLate(a)
      BY <2>1, <2>2 DEF TooLate
    <2>5. run[RunOf[a]].state = "EXECUTING"
      BY <1>1, <2>2, <2>3 DEF ExecutionBegun, BeforeExecution
    <2>6. run[RunOf[a]] \in RunRows
      BY <1>1, ConstantsAssumption DEF TypeInv, TypeOK
    <2> QED
      BY <2>2, <2>3, <2>4, <2>5, <2>6 DEF RunRows
  <1>2. TypeInv /\ ExecutionBegun /\ [Next]_vars =>
          [\A a \in Actions :
              /\ OwnDrafts(a)' # {} /\ OwnDrafts(a) = {} =>
                    /\ action[a] = "APPROVED" /\ ~TooLate(a)
                    /\ run[RunOf[a]] = [state |-> "EXECUTING", live |-> TRUE]
                    /\ reservation[a].status = "STARTED"
              /\ TooLate(a) => TooLate(a)']_vars
    BY <1>1, TooLateStays
  <1> QED
    BY <1>2, TypeInvariance, BegunInvariance, PTL DEF Spec, WriteOnlyWhenAuthorised

-----------------------------------------------------------------------------
\* A request that writes the reservation of Action a, and what it writes.
WritesRow(p, a) ==
    /\ act[p] = a
    /\ \/ T1Reserve(p) /\ reservation'[a] = StartedReservation
       \/ /\ (\E n \in Names : T2Commit(p, n)) \/ T2Record(p)
          /\ reservation'[a].status = "SUCCEEDED"
       \/ T3Commit(p) /\ reservation'[a].status \in {"FAILED", "RECONCILIATION_REQUIRED"}
       \/ /\ Reconcile(p)
          /\ reservation'[a].status = Classification(p)
          /\ reservation'[a].target = ReconciliationReceipt(p, Classification(p)).target
          /\ Classification(p) \in {"RECONCILED_SUCCESS", "RECONCILED_FAILURE", "MANUAL_INTERVENTION"}

\* A reservation moves only in the five steps that write it.
LEMMA ReservationMoves ==
    ASSUME TypeInv, [Next]_vars, NEW a \in Actions, reservation'[a] # reservation[a]
    PROVE  \E p \in Requests : WritesRow(p, a)
  <1> USE DEF erpVars, ledgerVars, clockVars, requestVars
  <1>1. reservation' # reservation
    OBVIOUS
  <1>2. PICK p \in Requests : Request(p)
    BY <1>1 DEF Next, vars, World, LeaseExpires, ActionDeadlinePasses, RevokeRun, RunDeadlinePasses,
                UserDraft, UserSubmit
  <1>3. T1Reserve(p) \/ (\E n \in Names : T2Commit(p, n)) \/ T2Record(p) \/ T3Commit(p) \/ Reconcile(p)
    BY <1>1, <1>2 DEF Request, Execute, Begin, OpenTransaction, Decide, AnswerSettled, Abandon, CancelRun,
                      T1Expire, Replay, T2Begin, T2Recheck, T2Insert, T2Fail, Respond, T3Begin
  <1>4. ASSUME NEW x, reservation' = [reservation EXCEPT ![act[p]] = x]
        PROVE  act[p] = a /\ reservation'[a] = x
    BY <1>4 DEF TypeInv, TypeOK
  <1>5. CASE T1Reserve(p)
    BY <1>4, <1>5 DEF T1Reserve, WritesRow
  <1>6. CASE (\E n \in Names : T2Commit(p, n)) \/ T2Record(p)
    <2>1. PICK n : RecordSuccess(p, n)
      BY <1>6 DEF T2Commit, T2Record
    <2>2. act[p] = a /\ reservation'[a] = [status |-> "SUCCEEDED", target |-> n, failure |-> FALSE]
      BY <1>4, <2>1 DEF RecordSuccess
    <2> QED
      BY <1>6, <2>2 DEF WritesRow
  <1>7. CASE T3Commit(p)
    <2>1. \E t \in {"FAILED", "RECONCILIATION_REQUIRED"} : reservation' =
             [reservation EXCEPT ![act[p]] = [status |-> t, target |-> NoName, failure |-> TRUE]]
      BY <1>7 DEF T3Commit
    <2> QED
      BY <1>4, <1>7, <2>1 DEF WritesRow
  <1>8. CASE Reconcile(p)
    <2> DEFINE c == Classification(p)
               target == ReconciliationReceipt(p, c).target
    <2>1. reservation' = [reservation EXCEPT
                             ![act[p]] = [status |-> c, target |-> target, failure |-> TRUE]]
      BY <1>8 DEF Reconcile
    <2>2. act[p] = a /\ reservation'[a].status = c /\ reservation'[a].target = target
      <3> HIDE DEF c, target
      <3> QED
        BY <1>4, <2>1
    <2> QED
      BY <1>8, <2>2, ClassificationType DEF WritesRow
  <1> QED
    BY <1>3, <1>5, <1>6, <1>7, <1>8

\* Documents are never deleted or renamed, and keep their payload.
LEMMA DocumentsStay ==
    ASSUME TypeInv, [Next]_vars, NEW d \in docs
    PROVE  \E e \in docs' : e.name = d.name /\ e.shape = d.shape /\ e.by = d.by
  <1> USE DEF erpVars, ledgerVars, clockVars, requestVars
  <1>1. CASE docs \subseteq docs'
    BY <1>1
  <1>2. ASSUME NEW f \in docs, UserSubmit(f)
        PROVE  \E e \in docs' : e.name = d.name /\ e.shape = d.shape /\ e.by = d.by
    <2> DEFINE g == [f EXCEPT !.docstatus = 1]
    <2>1. /\ g.by = f.by /\ g.name = f.name /\ g.shape = f.shape
          /\ docs' = (docs \ {f}) \cup {g}
      BY <1>2 DEF UserSubmit, TypeInv, TypeOK, Docs
    <2> HIDE DEF g
    <2> QED
      BY <2>1
  <1>3. ASSUME NEW p \in Requests, Request(p) PROVE docs \subseteq docs'
    <2>1. CASE Execute(p)
      BY <2>1 DEF Execute, T1Expire, T1Reserve, Replay, T2Begin, T2Recheck, T2Commit, T2Insert, T2Record, T2Fail,
                  Respond, T3Begin, T3Commit, OpenTransaction
    <2> QED
      BY <1>3, <2>1 DEF Request, Begin, OpenTransaction, Decide, Reconcile, AnswerSettled, CancelRun,
                        Abandon
  <1> QED
    BY <1>1, <1>2, <1>3 DEF Next, vars, World, LeaseExpires, ActionDeadlinePasses, RevokeRun,
                            RunDeadlinePasses, UserDraft

\* A settled reservation and its Receipt stay as they are.
LEMMA SettledStay ==
    ASSUME TypeInv, ReservedWasDecided, [Next]_vars, NEW a \in Actions,
           reservation[a].status \in FinalStates
    PROVE  reservation'[a] = reservation[a] /\ receipt'[a] = receipt[a]
  <1>1. CASE Next
    BY <1>1, RowStep DEF OnlyRowsOf
  <1>2. CASE UNCHANGED vars
    BY <1>2 DEF vars, ledgerVars
  <1> QED
    BY <1>1, <1>2

-----------------------------------------------------------------------------
(* What a success is evidence of. *)

\* Between the controller's commit and the ledger's, the executor's draft is
\* in ERPNext under the name it holds.
WrittenIsOwn ==
    \A p \in Requests : pc[p] = "t2b" =>
        \E d \in docs : d.by = act[p] /\ d.name = written[p] /\ d.shape = ShapeOf[act[p]]

LEMMA WrittenStep ==
    ASSUME TypeInv, WrittenIsOwn, [Next]_vars
    PROVE  WrittenIsOwn'
  <1>1. SUFFICES ASSUME NEW p \in Requests, pc'[p] = "t2b"
                 PROVE  \E d \in docs' : /\ d.by = act'[p] /\ d.name = written'[p]
                                         /\ d.shape = ShapeOf[act'[p]]
    BY DEF WrittenIsOwn
  <1>2. CASE Request(p)
    <2>1. PICK n \in Names : T2Insert(p, n)
      BY <1>1, <1>2, Arrival
    <2>2. Draft(act[p], n) \in docs' /\ act'[p] = act[p] /\ written'[p] = n
      BY <2>1 DEF T2Insert, TypeInv, TypeOK
    <2> QED
      BY <2>2 DEF Draft
  <1>3. CASE pc'[p] = pc[p] /\ act'[p] = act[p] /\ written'[p] = written[p]
    <2>1. PICK d \in docs : d.by = act[p] /\ d.name = written[p] /\ d.shape = ShapeOf[act[p]]
      BY <1>1, <1>3 DEF WrittenIsOwn
    <2> QED
      BY <1>3, <2>1, DocumentsStay
  <1> QED
    BY <1>2, <1>3, OneRequest

LEMMA WrittenInvariance == Spec => []WrittenIsOwn
  <1>1. Init => WrittenIsOwn
    BY DEF Init, WrittenIsOwn
  <1>2. TypeInv /\ WrittenIsOwn /\ [Next]_vars => WrittenIsOwn'
    BY WrittenStep
  <1> QED
    BY <1>1, <1>2, TypeInvariance, PTL DEF Spec

\* A verified write leaves a draft of its own behind the name it records.
LEMMA RecordedDraft ==
    ASSUME TypeInv, WrittenIsOwn, NEW p \in Requests,
           (\E n \in Names : T2Commit(p, n)) \/ T2Record(p)
    PROVE  \E n \in Names :
              /\ reservation'[act[p]] = [status |-> "SUCCEEDED", target |-> n, failure |-> FALSE]
              /\ \E d \in docs' : d.by = act[p] /\ d.name = n /\ d.shape = ShapeOf[act[p]]
  <1>1. act[p] \in Actions
    BY DEF T2Commit, T2Record, TypeInv, RequestOK
  <1>2. ASSUME NEW n \in Names, T2Commit(p, n)
        PROVE  /\ reservation'[act[p]] = [status |-> "SUCCEEDED", target |-> n, failure |-> FALSE]
               /\ \E d \in docs' : d.by = act[p] /\ d.name = n /\ d.shape = ShapeOf[act[p]]
    <2>1. Draft(act[p], n) \in docs'
      BY <1>2 DEF T2Commit
    <2> QED
      BY <1>1, <1>2, <2>1 DEF T2Commit, RecordSuccess, Draft, TypeInv, TypeOK
  <1>3. ASSUME T2Record(p)
        PROVE  /\ written[p] \in Names
               /\ reservation'[act[p]] = [status |-> "SUCCEEDED", target |-> written[p], failure |-> FALSE]
               /\ \E d \in docs' : d.by = act[p] /\ d.name = written[p] /\ d.shape = ShapeOf[act[p]]
    <2>1. written[p] \in Names /\ docs' = docs
      BY <1>3 DEF T2Record, TypeInv, RequestOK, erpVars
    <2>2. reservation'[act[p]] = [status |-> "SUCCEEDED", target |-> written[p], failure |-> FALSE]
      BY <1>1, <1>3 DEF T2Record, RecordSuccess, TypeInv, TypeOK
    <2> QED
      BY <1>3, <2>1, <2>2 DEF T2Record, WrittenIsOwn
  <1> QED
    BY <1>2, <1>3

\* A Receipt that says SUCCEEDED names a document this Action created with its
\* own payload, even when the controller committed it, released the locks and
\* other drafts with the same fields appeared before the read-back.
THEOREM SuccessesNameOwnDrafts == Spec => []SuccessNamesOwnDraft
  <1>1. Init => SuccessNamesOwnDraft
    BY DEF Init, SuccessNamesOwnDraft, NoReceipt
  <1>2. /\ TypeInv /\ ReservedWasDecided /\ LedgersAgree /\ LedgersAgree'
        /\ WrittenIsOwn /\ SuccessNamesOwnDraft /\ [Next]_vars
        => SuccessNamesOwnDraft'
    <2>1. SUFFICES ASSUME TypeInv, ReservedWasDecided, LedgersAgree, LedgersAgree',
                          WrittenIsOwn, SuccessNamesOwnDraft, [Next]_vars,
                          NEW a \in Actions, receipt'[a].state = "SUCCEEDED"
                   PROVE  \E d \in docs' : d.by = a /\ d.name = receipt'[a].target /\ d.shape = ShapeOf[a]
      BY DEF SuccessNamesOwnDraft, OwnDrafts
    <2>2. /\ reservation'[a].status = "SUCCEEDED"
          /\ receipt'[a].target = reservation'[a].target
      <3>1. receipt'[a] = IF reservation'[a].status \in {"NONE", "STARTED"} THEN NoReceipt
                          ELSE [state |-> reservation'[a].status, target |-> reservation'[a].target]
        BY <2>1 DEF LedgersAgree
      <3>2. reservation'[a].status \notin {"NONE", "STARTED"}
        BY <2>1, <3>1 DEF NoReceipt
      <3> QED
        BY <2>1, <3>1, <3>2
    <2>3. CASE reservation'[a] = reservation[a]
      <3>1. receipt'[a] = receipt[a]
        BY <2>1, <2>2, <2>3 DEF LedgersAgree
      <3>2. PICK d \in docs : d.by = a /\ d.name = receipt[a].target /\ d.shape = ShapeOf[a]
        BY <2>1, <3>1 DEF SuccessNamesOwnDraft, OwnDrafts
      <3> QED
        BY <2>1, <3>1, <3>2, DocumentsStay
    <2>4. CASE reservation'[a] # reservation[a]
      <3>1. PICK p \in Requests : WritesRow(p, a)
        BY <2>1, <2>4, ReservationMoves
      <3>2. CASE (\E n \in Names : T2Commit(p, n)) \/ T2Record(p)
        <4>1. PICK n \in Names :
                 /\ reservation'[a] = [status |-> "SUCCEEDED", target |-> n, failure |-> FALSE]
                 /\ \E d \in docs' : d.by = a /\ d.name = n /\ d.shape = ShapeOf[a]
          BY <2>1, <3>1, <3>2, RecordedDraft DEF WritesRow
        <4> QED
          BY <2>2, <4>1
      <3> QED
        BY <2>2, <3>1, <3>2 DEF WritesRow, StartedReservation
    <2> QED
      BY <2>3, <2>4
  <1> QED
    BY <1>1, <1>2, TypeInvariance, DecidedInvariance, LedgersAlwaysAgree, WrittenInvariance, PTL DEF Spec

-----------------------------------------------------------------------------
(* What an answer is evidence of. *)

\* A settled reservation in a snapshot is the row of the table, and what a
\* snapshot has of ERPNext is still there under the same name.
SnapshotsLast ==
    /\ \A p \in Requests : act[p] \in Actions /\ snap[p].reservation.status \in FinalStates
          => reservation[act[p]] = snap[p].reservation
    /\ \A p \in Requests : \A d \in snap[p].docs :
          \E e \in docs : e.name = d.name /\ e.shape = d.shape

\* A request about to answer holds the target its reservation recorded.
OkIsRecorded ==
    \A p \in Requests : pc[p] = "ok" =>
        reservation[act[p]].status \in SuccessStates /\ reservation[act[p]].target = written[p]

\* A recorded success names a document with the Action's payload.
SuccessIsBacked ==
    \A a \in Actions : reservation[a].status \in SuccessStates =>
        \E d \in docs : d.name = reservation[a].target /\ d.shape = ShapeOf[a]

\* An answer repeats a recorded success.
AnswersAreRecorded ==
    \A x \in answers :
        reservation[x[1]].status \in SuccessStates /\ reservation[x[1]].target = x[2]

LEMMA SnapshotsLastStep ==
    ASSUME TypeInv, ReservedWasDecided, SnapshotsLast, [Next]_vars
    PROVE  SnapshotsLast'
  <1>1. ASSUME NEW p \in Requests
        PROVE  /\ act'[p] \in Actions /\ snap'[p].reservation.status \in FinalStates
                     => reservation'[act'[p]] = snap'[p].reservation
               /\ \A d \in snap'[p].docs : \E e \in docs' : e.name = d.name /\ e.shape = d.shape
    <2>1. CASE act'[p] = act[p] /\ snap'[p] = snap[p]
      <3>1. ASSUME act[p] \in Actions, snap[p].reservation.status \in FinalStates
            PROVE  reservation'[act[p]] = snap[p].reservation
        BY <3>1, SettledStay DEF SnapshotsLast
      <3>2. ASSUME NEW d \in snap[p].docs
            PROVE  \E e \in docs' : e.name = d.name /\ e.shape = d.shape
        <4>1. PICK f \in docs : f.name = d.name /\ f.shape = d.shape
          BY <3>2 DEF SnapshotsLast
        <4> QED
          BY <4>1, DocumentsStay
      <3> QED
        BY <2>1, <3>1, <3>2
    <2>2. CASE snap'[p] = NoSnapshot
      BY <2>2 DEF NoSnapshot, NoReservation, FinalStates, SuccessStates
    <2>3. CASE \E a \in Actions : act'[p] = a /\ snap'[p] = Snapshot(a) /\ UNCHANGED <<ledgerVars, erpVars>>
      BY <2>3 DEF Snapshot, ledgerVars, erpVars
    <2> QED
      BY <2>1, <2>2, <2>3, SnapshotStep
  <1> QED
    BY <1>1 DEF SnapshotsLast

LEMMA OkStep ==
    ASSUME TypeInv, ReservedWasDecided, OkIsRecorded, [Next]_vars
    PROVE  OkIsRecorded'
  <1>1. SUFFICES ASSUME NEW p \in Requests, pc'[p] = "ok"
                 PROVE  /\ reservation'[act'[p]].status \in SuccessStates
                        /\ reservation'[act'[p]].target = written'[p]
    BY DEF OkIsRecorded
  <1>2. CASE Request(p)
    <2>1. PICK n \in Names : pc[p] # "idle" /\ RecordSuccess(p, n)
      BY <1>1, <1>2, Arrival
    <2>2. act[p] \in Actions /\ act' = act
      BY <2>1 DEF TypeInv, RequestOK, RecordSuccess, Continue
    <2>3. /\ reservation'[act[p]] = [status |-> "SUCCEEDED", target |-> n, failure |-> FALSE]
          /\ written'[p] = n
      BY <2>1, <2>2 DEF RecordSuccess, TypeInv, TypeOK
    <2> QED
      BY <2>2, <2>3 DEF SuccessStates
  <1>3. CASE pc'[p] = pc[p] /\ act'[p] = act[p] /\ written'[p] = written[p]
    <2>1. act[p] \in Actions /\ reservation[act[p]].status \in FinalStates
      BY <1>1, <1>3 DEF TypeInv, RequestOK, OkIsRecorded, FinalStates
    <2> QED
      BY <1>1, <1>3, <2>1, SettledStay DEF OkIsRecorded
  <1> QED
    BY <1>2, <1>3, OneRequest

\* A reconciled success names the one document that matched in its snapshot.
LEMMA ReconciledTarget ==
    ASSUME TypeInv, NEW p \in Requests, Classification(p) = "RECONCILED_SUCCESS"
    PROVE  \E d \in snap[p].docs :
              /\ d.name = ReconciliationReceipt(p, Classification(p)).target
              /\ d.shape = ShapeOf[act[p]]
  <1>1. Matches(p) # {}
    <2>1. Cardinality(Matches(p)) = 1
      BY DEF Classification, ClassifyReconciliation
    <2> QED
      BY <2>1, FS_EmptySet
  <1>2. (CHOOSE d \in Matches(p) : TRUE) \in Matches(p)
    BY <1>1
  <1> QED
    BY <1>2 DEF ReconciliationReceipt, Matches, Candidates, FirstByName, MatchesPayload

LEMMA BackedStep ==
    ASSUME TypeInv, ReservedWasDecided, WrittenIsOwn, SnapshotsLast, SuccessIsBacked, [Next]_vars
    PROVE  SuccessIsBacked'
  <1>1. SUFFICES ASSUME NEW a \in Actions, reservation'[a].status \in SuccessStates
                 PROVE  \E d \in docs' : d.name = reservation'[a].target /\ d.shape = ShapeOf[a]
    BY DEF SuccessIsBacked
  <1>2. CASE reservation'[a] = reservation[a]
    <2>1. PICK d \in docs : d.name = reservation[a].target /\ d.shape = ShapeOf[a]
      BY <1>1, <1>2 DEF SuccessIsBacked
    <2> QED
      BY <1>2, <2>1, DocumentsStay
  <1>3. CASE reservation'[a] # reservation[a]
    <2>1. PICK p \in Requests : WritesRow(p, a)
      BY <1>3, ReservationMoves
    <2>2. CASE (\E n \in Names : T2Commit(p, n)) \/ T2Record(p)
      <3>1. PICK n \in Names :
               /\ reservation'[a] = [status |-> "SUCCEEDED", target |-> n, failure |-> FALSE]
               /\ \E d \in docs' : d.by = a /\ d.name = n /\ d.shape = ShapeOf[a]
        BY <2>1, <2>2, RecordedDraft DEF WritesRow
      <3> QED
        BY <3>1
    <2>3. CASE /\ Reconcile(p) /\ Classification(p) = "RECONCILED_SUCCESS"
               /\ reservation'[a].target = ReconciliationReceipt(p, Classification(p)).target
      <3>1. docs' = docs
        BY <2>3 DEF Reconcile, erpVars
      <3>2. PICK d \in snap[p].docs : d.name = reservation'[a].target /\ d.shape = ShapeOf[a]
        BY <2>1, <2>3, ReconciledTarget DEF WritesRow
      <3> QED
        BY <3>1, <3>2 DEF SnapshotsLast
    <2> QED
      BY <1>1, <2>1, <2>2, <2>3 DEF WritesRow, StartedReservation, SuccessStates
  <1> QED
    BY <1>2, <1>3

\* A new answer comes from a replay, a repeated reconciliation, an execution
\* that ends, or a reconciliation that found the document.
LEMMA NewAnswer ==
    ASSUME [Next]_vars, NEW x \in answers', x \notin answers
    PROVE  \E p \in Requests :
              /\ x[1] = act[p]
              /\ \/ Replay(p) /\ x[2] = snap[p].receipt.target
                 \/ AnswerSettled(p) /\ x[2] = snap[p].receipt.target /\ x[2] # NoName
                 \/ Respond(p) /\ x[2] = written[p]
                 \/ /\ Reconcile(p) /\ Classification(p) = "RECONCILED_SUCCESS"
                    /\ x[2] = ReconciliationReceipt(p, Classification(p)).target
  <1> USE DEF erpVars, ledgerVars, clockVars, requestVars
  <1>1. PICK p \in Requests : Request(p)
    BY DEF Next, vars, World, LeaseExpires, ActionDeadlinePasses, RevokeRun, RunDeadlinePasses,
           UserDraft, UserSubmit
  <1>2. Replay(p) \/ Respond(p) \/ Reconcile(p) \/ AnswerSettled(p)
    <2>1. CASE Execute(p)
      BY <2>1 DEF Execute, T1Expire, T1Reserve, T2Begin, T2Recheck, T2Commit, T2Insert, T2Record, T2Fail, T3Begin,
                  T3Commit, OpenTransaction
    <2> QED
      BY <1>1, <2>1 DEF Request, Begin, OpenTransaction, Decide, CancelRun, Abandon
  <1>3. CASE Replay(p)
    BY <1>3 DEF Replay
  <1>4. CASE Respond(p)
    BY <1>4 DEF Respond
  <1>5. CASE AnswerSettled(p)
    <2>1. /\ snap[p].receipt.target # NoName
          /\ answers' = answers \cup {<<act[p], snap[p].receipt.target>>}
      BY <1>5 DEF AnswerSettled, ReconciliationResponse
    <2> QED
      BY <1>5, <2>1
  <1>6. CASE Reconcile(p)
    <2>1. /\ Classification(p) = "RECONCILED_SUCCESS"
          /\ answers' = answers \cup {<<act[p], ReconciliationReceipt(p, Classification(p)).target>>}
      BY <1>6 DEF Reconcile
    <2> QED
      BY <1>6, <2>1
  <1> QED
    BY <1>2, <1>3, <1>4, <1>5, <1>6

LEMMA AnswersStep ==
    ASSUME TypeInv, ReservedWasDecided, LedgersAgree, SnapshotsLast, OkIsRecorded, AnswersAreRecorded,
           [Next]_vars
    PROVE  AnswersAreRecorded'
  <1>1. SUFFICES ASSUME NEW x \in answers'
                 PROVE  reservation'[x[1]].status \in SuccessStates /\ reservation'[x[1]].target = x[2]
    BY DEF AnswersAreRecorded
  <1>2. CASE x \in answers
    <2>1. /\ x[1] \in Actions /\ reservation[x[1]].status \in FinalStates
          /\ reservation[x[1]].status \in SuccessStates /\ reservation[x[1]].target = x[2]
      BY <1>2 DEF TypeInv, TypeOK, AnswersAreRecorded, FinalStates
    <2> QED
      BY <2>1, SettledStay
  <1>3. CASE x \notin answers
    <2>1. PICK p \in Requests :
             /\ x[1] = act[p]
             /\ \/ Replay(p) /\ x[2] = snap[p].receipt.target
                \/ AnswerSettled(p) /\ x[2] = snap[p].receipt.target /\ x[2] # NoName
                \/ Respond(p) /\ x[2] = written[p]
                \/ /\ Reconcile(p) /\ Classification(p) = "RECONCILED_SUCCESS"
                   /\ x[2] = ReconciliationReceipt(p, Classification(p)).target
      BY <1>3, NewAnswer
    <2>2. act[p] \in Actions
      BY <2>1 DEF Replay, AnswerSettled, Respond, Reconcile, TypeInv, RequestOK
    <2>3. CASE Replay(p) /\ x[2] = snap[p].receipt.target
      <3>1. /\ snap[p].reservation.status \in SuccessStates
            /\ snap[p].receipt.target = snap[p].reservation.target
            /\ reservation' = reservation
        BY <2>3 DEF Replay, Replayable, ReceiptServed, ledgerVars
      <3> QED
        BY <2>1, <2>2, <2>3, <3>1 DEF SnapshotsLast, FinalStates
    <2>4. CASE AnswerSettled(p) /\ x[2] = snap[p].receipt.target /\ x[2] # NoName
      <3>1. /\ snap[p].reservation.status \in FinalStates
            /\ snap[p].receipt.target = snap[p].reservation.target
            /\ reservation' = reservation
        BY <2>4 DEF AnswerSettled, ReceiptServed, ledgerVars
      <3>2. reservation[act[p]] = snap[p].reservation
        BY <2>2, <3>1 DEF SnapshotsLast
      <3> QED
        BY <2>1, <2>2, <2>4, <3>1, <3>2 DEF LedgersAgree
    <2>5. CASE Respond(p) /\ x[2] = written[p]
      BY <2>1, <2>5 DEF Respond, OkIsRecorded, ledgerVars
    <2>6. CASE /\ Reconcile(p) /\ Classification(p) = "RECONCILED_SUCCESS"
               /\ x[2] = ReconciliationReceipt(p, Classification(p)).target
      <3>1. /\ reservation'[act[p]].status = Classification(p)
            /\ reservation'[act[p]].target = ReconciliationReceipt(p, Classification(p)).target
        BY <2>2, <2>6 DEF Reconcile, TypeInv, TypeOK
      <3> QED
        BY <2>1, <2>6, <3>1 DEF SuccessStates
    <2> QED
      BY <2>1, <2>3, <2>4, <2>5, <2>6
  <1> QED
    BY <1>2, <1>3

\* First responses, replays and reconciliations of an Action all name the same
\* document, and it exists with the Action's payload: no retry after a lost
\* response can make the caller believe in a second document.
THEOREM AnswersAlwaysAgree == Spec => []AnswersAgree
  <1> DEFINE Inv == SnapshotsLast /\ OkIsRecorded /\ SuccessIsBacked /\ AnswersAreRecorded
  <1>1. Init => Inv
    BY DEF Init, SnapshotsLast, OkIsRecorded, SuccessIsBacked, AnswersAreRecorded, NoSnapshot,
           NoReservation, SuccessStates, FinalStates
  <1>2. /\ TypeInv /\ ReservedWasDecided /\ LedgersAgree /\ WrittenIsOwn /\ Inv /\ [Next]_vars
        => Inv'
    BY SnapshotsLastStep, OkStep, BackedStep, AnswersStep
  <1>3. TypeInv /\ Inv => AnswersAgree
    <2>1. SUFFICES ASSUME TypeInv, Inv, NEW x \in answers
                   PROVE  /\ \A y \in answers : x[1] = y[1] => x = y
                          /\ \E d \in docs : d.name = x[2] /\ d.shape = ShapeOf[x[1]]
      BY DEF AnswersAgree
    <2>2. answers \subseteq Actions \X TargetNames
      BY <2>1 DEF TypeInv, TypeOK
    <2>3. \A y \in answers : x[1] = y[1] => x = y
      BY <2>1, <2>2 DEF AnswersAreRecorded
    <2>4. \E d \in docs : d.name = x[2] /\ d.shape = ShapeOf[x[1]]
      BY <2>1, <2>2 DEF AnswersAreRecorded, SuccessIsBacked
    <2> QED
      BY <2>3, <2>4
  <1> QED
    BY <1>1, <1>2, <1>3, TypeInvariance, DecidedInvariance, LedgersAlwaysAgree, WrittenInvariance, PTL
       DEF Spec

-----------------------------------------------------------------------------
(* What a failure is evidence of. *)

\* One request executes an Action from its reservation to its end.
SingleExecutor ==
    \A p, q \in Requests : pc[p] \in Reserved /\ pc[q] \in Reserved /\ act[p] = act[q] => p = q

\* Nobody may still write Action a.
NoWriter(a) == \A p \in Requests : pc[p] \in Writing => act[p] # a

\* The states a reservation has only once the executor reported its failure.
FailureStates == {"RECONCILIATION_REQUIRED", "RECONCILED_FAILURE"}

\* A reported failure ends the writing, and only it is recorded as evidence; a
\* snapshot with that evidence has every open draft of its Action.
FailureIsFinal ==
    /\ \A a \in Actions : reservation[a].status \in FailureStates => NoWriter(a)
    /\ \A a \in Actions : reservation[a].status = "STARTED" => ~reservation[a].failure
    /\ \A p \in Requests : \A a \in Actions :
          act[p] = a /\ snap[p].reservation.status \in FailureStates =>
              /\ reservation[a].status # "NONE"
              /\ NoWriter(a)
              /\ \A d \in docs : d.by = a /\ d.docstatus = 0 => d \in snap[p].docs

\* Every draft of an Action has its payload, and ERPNext is finite.
OwnShape == \A d \in docs : d.by \in Actions => d.shape = ShapeOf[d.by]

FiniteDocs == IsFiniteSet(docs) /\ \A p \in Requests : IsFiniteSet(snap[p].docs)

\* A name is given once.
UniqueNames == \A d, e \in docs : d.name = e.name => d = e

\* A snapshot never has more documents of its item than ERPNext has now.
DocsOfItem(a) == {d \in docs : SameItem(d, a)}

SnapshotCounted ==
    \A p \in Requests :
        act[p] \in Actions => Cardinality(snap[p].docs) <= Cardinality(DocsOfItem(act[p]))

LEMMA ExecutorStep ==
    ASSUME TypeInv, SingleWriter, SingleExecutor, [Next]_vars
    PROVE  SingleExecutor'
  <1>1. ASSUME NEW p \in Requests, pc'[p] \in Reserved
        PROVE  act'[p] = act[p] /\ (pc[p] \in Reserved \/ T1Reserve(p))
    BY <1>1, OneRequest, Arrival
  <1>2. ASSUME NEW p \in Requests, NEW q \in Requests, T1Reserve(p), pc'[q] \in Reserved,
               act[p] = act[q]
        PROVE  p = q
    <2>1. SUFFICES ASSUME p # q PROVE FALSE
      OBVIOUS
    <2>2. pc'[q] = pc[q]
      BY <1>2, <2>1 DEF T1Reserve, Continue, TypeInv, TypeOK
    <2> QED
      BY <1>2, <2>2 DEF T1Reserve, NotReserved, SingleWriter
  <1> QED
    BY <1>1, <1>2 DEF SingleExecutor

\* A reserved Action gets no new writer.
LEMMA NoNewWriter ==
    ASSUME TypeInv, [Next]_vars, NEW a \in Actions, reservation[a].status # "NONE", NoWriter(a)
    PROVE  NoWriter(a)'
  <1>1. SUFFICES ASSUME NEW p \in Requests, pc'[p] \in Writing PROVE act'[p] # a
    BY DEF NoWriter
  <1>2. CASE Request(p)
    <2>1. act'[p] = act[p] /\ (pc[p] \in Writing \/ T1Reserve(p))
      BY <1>1, <1>2, Arrival DEF Writing, Reserved
    <2> QED
      BY <2>1 DEF NoWriter, T1Reserve, NotReserved
  <1>3. CASE pc'[p] = pc[p] /\ act'[p] = act[p]
    BY <1>1, <1>3 DEF NoWriter
  <1> QED
    BY <1>2, <1>3, OneRequest

\* A reservation is never withdrawn.
LEMMA StaysReserved ==
    ASSUME TypeInv, [Next]_vars, NEW a \in Actions, reservation[a].status # "NONE"
    PROVE  reservation'[a].status # "NONE"
  <1>1. SUFFICES ASSUME reservation'[a] # reservation[a] PROVE reservation'[a].status # "NONE"
    OBVIOUS
  <1>2. \E p \in Requests : WritesRow(p, a)
    BY <1>1, ReservationMoves
  <1> QED
    BY <1>2 DEF WritesRow, StartedReservation

\* A step adds at most one document: the executor's, a user's, or a draft
\* that a user has submitted.
DocumentAdded ==
    \/ \E p \in Requests, n \in Names :
          /\ pc[p] = "cleared" /\ act[p] \in Actions /\ FreeName(n)
          /\ docs' = docs \cup {Draft(act[p], n)}
    \/ \E x : x.by = Desk /\ FreeName(x.name) /\ docs' = docs \cup {x}
    \/ \E f \in docs : \E g : /\ g.docstatus = 1 /\ g.by = f.by /\ g.shape = f.shape
                             /\ g.name = f.name
                             /\ docs' = (docs \ {f}) \cup {g}

LEMMA NewDocument ==
    ASSUME TypeInv, [Next]_vars
    PROVE  docs' = docs \/ DocumentAdded
  <1> USE DEF erpVars, ledgerVars, clockVars, requestVars
  <1>1. ASSUME NEW p \in Requests, NEW n \in Names, T2Commit(p, n) \/ T2Insert(p, n)
        PROVE  DocumentAdded
    BY <1>1 DEF T2Commit, T2Insert, TypeInv, RequestOK, DocumentAdded
  <1>2. ASSUME NEW p \in Requests, Request(p) PROVE docs' = docs \/ DocumentAdded
    <2>1. CASE Execute(p)
      BY <1>1, <2>1 DEF Execute, T1Expire, T1Reserve, Replay, T2Begin, T2Recheck, T2Record, T2Fail,
                        Respond, T3Begin, T3Commit, OpenTransaction
    <2> QED
      BY <1>2, <2>1 DEF Request, Begin, OpenTransaction, Decide, Reconcile, AnswerSettled, CancelRun,
                        Abandon
  <1>3. ASSUME NEW n \in Names, NEW shape \in ManualShapes, UserDraft(n, shape)
        PROVE  DocumentAdded
    <2> DEFINE x == [name |-> n, shape |-> shape, by |-> Desk, docstatus |-> 0]
    <2>1. x.by = Desk /\ FreeName(x.name) /\ docs' = docs \cup {x}
      BY <1>3 DEF UserDraft
    <2> HIDE DEF x
    <2> QED
      BY <2>1 DEF DocumentAdded
  <1>4. ASSUME NEW f \in docs, UserSubmit(f) PROVE DocumentAdded
    <2> DEFINE g == [f EXCEPT !.docstatus = 1]
    <2>1. /\ g.docstatus = 1 /\ g.by = f.by /\ g.shape = f.shape /\ g.name = f.name
          /\ docs' = (docs \ {f}) \cup {g}
      BY <1>4 DEF UserSubmit, TypeInv, TypeOK, Docs
    <2> HIDE DEF g
    <2> QED
      BY <2>1 DEF DocumentAdded
  <1> QED
    BY <1>2, <1>3, <1>4 DEF Next, vars, World, LeaseExpires, ActionDeadlinePasses, RevokeRun,
                            RunDeadlinePasses

\* Without a writer no open draft of an Action appears.
LEMMA NoNewDraft ==
    ASSUME TypeInv, [Next]_vars, NEW a \in Actions, NoWriter(a),
           NEW d \in docs', d.by = a, d.docstatus = 0
    PROVE  d \in docs
  <1>1. ASSUME NEW p \in Requests, NEW n \in Names, pc[p] = "cleared",
               docs' = docs \cup {Draft(act[p], n)}
        PROVE  d \in docs
    <2>1. act[p] # a
      BY <1>1 DEF NoWriter, Writing
    <2>2. Draft(act[p], n).by = act[p]
      BY DEF Draft
    <2> QED
      BY <1>1, <2>1, <2>2
  <1>2. ASSUME NEW x, x.by = Desk, docs' = docs \cup {x} PROVE d \in docs
    BY <1>2, ConstantsAssumption
  <1>3. ASSUME NEW f \in docs, NEW g, g.docstatus = 1, docs' = (docs \ {f}) \cup {g} PROVE d \in docs
    BY <1>3
  <1> QED
    BY <1>1, <1>2, <1>3, NewDocument DEF DocumentAdded

LEMMA ShapeStep ==
    ASSUME TypeInv, OwnShape, [Next]_vars
    PROVE  OwnShape'
  <1>1. SUFFICES ASSUME NEW d \in docs', d.by \in Actions PROVE d.shape = ShapeOf[d.by]
    BY DEF OwnShape
  <1>2. ASSUME NEW p \in Requests, NEW n \in Names, docs' = docs \cup {Draft(act[p], n)}
        PROVE  d.shape = ShapeOf[d.by]
    <2>1. Draft(act[p], n).by = act[p] /\ Draft(act[p], n).shape = ShapeOf[act[p]]
      BY DEF Draft
    <2> QED
      BY <1>1, <1>2, <2>1 DEF OwnShape
  <1>3. ASSUME NEW x, x.by = Desk, docs' = docs \cup {x} PROVE d.shape = ShapeOf[d.by]
    BY <1>1, <1>3, ConstantsAssumption DEF OwnShape
  <1>4. ASSUME NEW f \in docs, NEW g, g.by = f.by, g.shape = f.shape, docs' = (docs \ {f}) \cup {g}
        PROVE  d.shape = ShapeOf[d.by]
    BY <1>1, <1>4 DEF OwnShape
  <1> QED
    BY <1>1, <1>2, <1>3, <1>4, NewDocument DEF DocumentAdded, OwnShape

LEMMA FiniteStep ==
    ASSUME TypeInv, FiniteDocs, [Next]_vars
    PROVE  FiniteDocs'
  <1>1. IsFiniteSet(docs')
    <2>1. \E x : docs' \subseteq docs \cup {x}
      BY NewDocument DEF DocumentAdded
    <2>2. \A x : IsFiniteSet(docs \cup {x})
      BY FS_AddElement DEF FiniteDocs
    <2> QED
      BY <2>1, <2>2, FS_Subset
  <1>2. ASSUME NEW p \in Requests PROVE IsFiniteSet(snap'[p].docs)
    <2>1. CASE snap'[p] = snap[p]
      BY <2>1 DEF FiniteDocs
    <2>2. CASE snap'[p] = NoSnapshot
      BY <2>2, FS_EmptySet DEF NoSnapshot
    <2>3. CASE \E a \in Actions : snap'[p] = Snapshot(a)
      <3>1. PICK a \in Actions : snap'[p] = Snapshot(a)
        BY <2>3
      <3>2. snap'[p].docs \subseteq docs
        BY <3>1 DEF Snapshot
      <3> QED
        BY <3>2, FS_Subset DEF FiniteDocs
    <2> QED
      BY <2>1, <2>2, <2>3, SnapshotStep
  <1> QED
    BY <1>1, <1>2 DEF FiniteDocs

LEMMA NamesStep ==
    ASSUME TypeInv, UniqueNames, [Next]_vars
    PROVE  UniqueNames'
  <1>1. ASSUME NEW x, FreeName(x.name), docs' = docs \cup {x} PROVE UniqueNames'
    BY <1>1 DEF UniqueNames, FreeName
  <1>2. ASSUME NEW p \in Requests, NEW n \in Names, FreeName(n), docs' = docs \cup {Draft(act[p], n)}
        PROVE  UniqueNames'
    <2>1. Draft(act[p], n).name = n
      BY DEF Draft
    <2> QED
      BY <1>1, <1>2, <2>1
  <1>3. ASSUME NEW f \in docs, NEW g, g.name = f.name, docs' = (docs \ {f}) \cup {g}
        PROVE  UniqueNames'
    BY <1>3 DEF UniqueNames
  <1>4. ASSUME docs' = docs PROVE UniqueNames'
    BY <1>4 DEF UniqueNames
  <1> QED
    BY <1>1, <1>2, <1>3, <1>4, NewDocument DEF DocumentAdded

\* Documents of an item become more, never fewer.
LEMMA ItemGrows ==
    ASSUME TypeInv, FiniteDocs, FiniteDocs', UniqueNames, [Next]_vars, NEW a \in Actions
    PROVE  Cardinality(DocsOfItem(a)) <= Cardinality(DocsOfItem(a)')
  <1>1. /\ IsFiniteSet(DocsOfItem(a)) /\ Cardinality(DocsOfItem(a)) \in Nat
        /\ IsFiniteSet(DocsOfItem(a)') /\ Cardinality(DocsOfItem(a)') \in Nat
    BY FS_Subset, FS_CardinalityType DEF FiniteDocs, DocsOfItem
  <1>2. ASSUME docs \subseteq docs' PROVE Cardinality(DocsOfItem(a)) <= Cardinality(DocsOfItem(a)')
    <2>1. DocsOfItem(a) \subseteq DocsOfItem(a)'
      BY <1>2 DEF DocsOfItem, SameItem
    <2> QED
      BY <1>1, <2>1, FS_Subset
  <1>3. ASSUME NEW f \in docs, NEW g, g.name = f.name, g.shape = f.shape,
               docs' = (docs \ {f}) \cup {g}
        PROVE  Cardinality(DocsOfItem(a)) <= Cardinality(DocsOfItem(a)')
    <2>1. CASE SameItem(f, a)
      <3>1. DocsOfItem(a)' = (DocsOfItem(a) \ {f}) \cup {g}
        BY <1>3, <2>1 DEF DocsOfItem, SameItem
      <3>2. f \in DocsOfItem(a) /\ g \notin DocsOfItem(a) \ {f}
        BY <1>3, <2>1 DEF DocsOfItem, UniqueNames
      <3>3. /\ IsFiniteSet(DocsOfItem(a) \ {f})
            /\ Cardinality(DocsOfItem(a) \ {f}) = Cardinality(DocsOfItem(a)) - 1
        BY <1>1, <3>2, FS_RemoveElement
      <3>4. Cardinality(DocsOfItem(a)') = Cardinality(DocsOfItem(a) \ {f}) + 1
        BY <3>1, <3>2, <3>3, FS_AddElement
      <3> QED
        BY <1>1, <3>3, <3>4
    <2>2. CASE ~SameItem(f, a)
      <3>1. DocsOfItem(a)' = DocsOfItem(a)
        BY <1>3, <2>2 DEF DocsOfItem, SameItem
      <3> QED
        BY <1>1, <3>1
    <2> QED
      BY <2>1, <2>2
  <1> QED
    BY <1>2, <1>3, NewDocument DEF DocumentAdded

LEMMA CountedStep ==
    ASSUME TypeInv, FiniteDocs, FiniteDocs', UniqueNames, SnapshotCounted, [Next]_vars
    PROVE  SnapshotCounted'
  <1>1. SUFFICES ASSUME NEW p \in Requests, NEW a \in Actions, act'[p] = a
                 PROVE  Cardinality(snap'[p].docs) <= Cardinality(DocsOfItem(a)')
    BY DEF SnapshotCounted, DocsOfItem, SameItem
  <1>2. /\ Cardinality(DocsOfItem(a)) \in Nat /\ Cardinality(DocsOfItem(a)') \in Nat
        /\ Cardinality(snap[p].docs) \in Nat
    BY FS_Subset, FS_CardinalityType DEF FiniteDocs, DocsOfItem
  <1>3. CASE act'[p] = act[p] /\ snap'[p] = snap[p]
    <2>1. Cardinality(snap[p].docs) <= Cardinality(DocsOfItem(a))
      BY <1>1, <1>3 DEF SnapshotCounted
    <2>2. Cardinality(DocsOfItem(a)) <= Cardinality(DocsOfItem(a)')
      BY ItemGrows
    <2> QED
      BY <1>2, <1>3, <2>1, <2>2
  <1>4. CASE snap'[p] = NoSnapshot
    BY <1>2, <1>4, FS_EmptySet DEF NoSnapshot
  <1>5. CASE \E b \in Actions : act'[p] = b /\ snap'[p] = Snapshot(b) /\ UNCHANGED <<ledgerVars, erpVars>>
    <2>1. snap'[p].docs = DocsOfItem(a) /\ DocsOfItem(a)' = DocsOfItem(a)
      BY <1>1, <1>5 DEF Snapshot, DocsOfItem, SameItem, erpVars
    <2> QED
      BY <1>2, <2>1
  <1> QED
    BY <1>3, <1>4, <1>5, SnapshotStep

\* A search that may return all of a set does, and one that may return
\* anything returns something of a set that is not empty.
LEMMA SearchReturnsAll ==
    ASSUME NEW S, S \subseteq Docs, IsFiniteSet(S), NEW limit \in Nat, Cardinality(S) <= limit
    PROVE  FirstByName(S, limit) = S
  <1>1. ASSUME NEW d \in S PROVE Cardinality({e \in S : e.name < d.name}) < limit
    <2> DEFINE before == {e \in S : e.name < d.name}
    <2>1. d.name \in Nat
      BY ConstantsAssumption DEF Docs
    <2>2. before \subseteq S \ {d}
      BY <2>1
    <2>3. /\ IsFiniteSet(S \ {d}) /\ Cardinality(S \ {d}) = Cardinality(S) - 1
          /\ Cardinality(S) \in Nat
      BY FS_RemoveElement, FS_CardinalityType
    <2> HIDE DEF before
    <2>4. Cardinality(before) <= Cardinality(S \ {d}) /\ Cardinality(before) \in Nat
      BY <2>2, <2>3, FS_Subset, FS_CardinalityType
    <2>5. Cardinality(before) < limit
      BY <2>3, <2>4
    <2> QED
      BY <2>5 DEF before
  <1> QED
    BY <1>1 DEF FirstByName

LEMMA SearchReturnsSome ==
    ASSUME NEW S, S \subseteq Docs, S # {}, NEW limit \in Nat \ {0}
    PROVE  FirstByName(S, limit) # {}
  <1> DEFINE names == {d.name : d \in S}
  <1>1. names \subseteq Nat /\ names # {}
    <2>1. \A d \in S : d.name \in Nat
      BY ConstantsAssumption DEF Docs
    <2> QED
      BY <2>1
  <1> HIDE DEF names
  <1>2. PICK n \in names : \A m \in names : ~ (<<m, n>> \in OpToRel(<, Nat))
    BY <1>1, WFMin, NatLessThanWellFounded
  <1>3. \A m \in names : ~ (m < n)
    BY <1>1, <1>2 DEF OpToRel
  <1>4. PICK d \in S : d.name = n
    BY DEF names
  <1>5. {e \in S : e.name < d.name} = {}
    BY <1>3, <1>4 DEF names
  <1>6. Cardinality({e \in S : e.name < d.name}) < limit
    BY <1>5, FS_EmptySet
  <1> QED
    BY <1>4, <1>6 DEF FirstByName

\* A search that can see every document of the item finds the open draft a
\* snapshot holds of its Action.
LEMMA OwnDraftIsFound ==
    ASSUME TypeInv, FiniteDocs, SnapshotCounted, NEW p \in Requests, act[p] \in Actions,
           WithinOneSearch(act[p]),
           NEW d \in snap[p].docs, d.docstatus = 0, d.shape = ShapeOf[act[p]]
    PROVE  Cardinality(Candidates(p)) # 0
  <1> DEFINE open == {e \in snap[p].docs : e.docstatus = 0 /\ SameHeader(e, act[p])}
  <1>1. snap[p].docs \subseteq Docs /\ IsFiniteSet(snap[p].docs)
    BY DEF TypeInv, TypeOK, Snapshots, FiniteDocs
  <1>2. Cardinality(snap[p].docs) <= RowLimit
    <2>1. Cardinality(DocsOfItem(act[p])) <= RowLimit
      BY DEF WithinOneSearch, DocsOfItem
    <2>2. Cardinality(DocsOfItem(act[p])) \in Nat /\ Cardinality(snap[p].docs) \in Nat
      BY FS_Subset, FS_CardinalityType DEF FiniteDocs, DocsOfItem
    <2> QED
      BY <2>1, <2>2, ConstantsAssumption DEF SnapshotCounted
  <1>3. FirstByName(snap[p].docs, RowLimit) = snap[p].docs
    BY <1>1, <1>2, SearchReturnsAll, ConstantsAssumption
  <1>4. Candidates(p) = FirstByName(open, DraftLimit)
    BY <1>3 DEF Candidates
  <1>5. d \in open
    BY DEF SameHeader
  <1>6. open \subseteq Docs /\ open # {} /\ IsFiniteSet(open)
    BY <1>1, <1>5, FS_Subset
  <1> HIDE DEF open
  <1>7. Candidates(p) # {}
    BY <1>4, <1>6, SearchReturnsSome, ConstantsAssumption
  <1>8. IsFiniteSet(Candidates(p))
    BY <1>4, <1>6, FS_Subset DEF FirstByName
  <1> QED
    BY <1>7, <1>8, FS_EmptySet

\* A reconciliation concludes failure only for a reported failure.
LEMMA ReconciledAfterFailure ==
    ASSUME FailureIsFinal, NEW p \in Requests, act[p] \in Actions, Reconcile(p),
           Classification(p) = "RECONCILED_FAILURE"
    PROVE  /\ reservation[act[p]].status \in FailureStates
           /\ snap[p].reservation.status \in FailureStates
           /\ Cardinality(Candidates(p)) = 0
  <1>1. Cardinality(Candidates(p)) = 0 /\ snap[p].reservation.failure
    BY DEF Classification, ClassifyReconciliation
  <1>2. snap[p].reservation.status \in Unsettled /\ reservation[act[p]] = snap[p].reservation
    BY DEF Reconcile, Reconcilable
  <1>3. snap[p].reservation.status # "STARTED"
    BY <1>1, <1>2 DEF FailureIsFinal
  <1> QED
    BY <1>1, <1>2, <1>3 DEF Unsettled, FailureStates

LEMMA FailureStep ==
    ASSUME TypeInv, SingleExecutor, FailureIsFinal, OwnShape, [Next]_vars
    PROVE  FailureIsFinal'
  <1>1. ASSUME NEW a \in Actions, reservation'[a].status \in FailureStates PROVE NoWriter(a)'
    <2>1. CASE reservation'[a] = reservation[a]
      BY <1>1, <2>1, NoNewWriter DEF FailureIsFinal, FailureStates
    <2>2. CASE reservation'[a] # reservation[a]
      <3>1. PICK p \in Requests : WritesRow(p, a)
        BY <2>2, ReservationMoves
      <3>2. CASE T3Commit(p)
        <4>1. pc[p] = "t3" /\ act[p] = a /\ reservation[a].status # "NONE"
          BY <3>1, <3>2 DEF T3Commit, StillStarted, WritesRow
        <4>2. NoWriter(a)
          BY <4>1 DEF NoWriter, SingleExecutor, Writing, Reserved
        <4> QED
          BY <4>1, <4>2, NoNewWriter
      <3>3. CASE Reconcile(p) /\ Classification(p) = "RECONCILED_FAILURE"
        <4>1. reservation[a].status \in FailureStates
          BY <3>1, <3>3, ReconciledAfterFailure DEF WritesRow
        <4> QED
          BY <4>1, NoNewWriter DEF FailureIsFinal, FailureStates
      <3> QED
        BY <1>1, <3>1, <3>2, <3>3 DEF WritesRow, StartedReservation, FailureStates
    <2> QED
      BY <2>1, <2>2
  <1>2. ASSUME NEW a \in Actions, reservation'[a].status = "STARTED" PROVE ~reservation'[a].failure
    <2>1. CASE reservation'[a] = reservation[a]
      BY <1>2, <2>1 DEF FailureIsFinal
    <2>2. CASE reservation'[a] # reservation[a]
      <3>1. PICK p \in Requests : WritesRow(p, a)
        BY <2>2, ReservationMoves
      <3> QED
        BY <1>2, <3>1 DEF WritesRow, StartedReservation
    <2> QED
      BY <2>1, <2>2
  <1>3. ASSUME NEW p \in Requests, NEW a \in Actions, act'[p] = a,
               snap'[p].reservation.status \in FailureStates
        PROVE  /\ reservation'[a].status # "NONE"
               /\ NoWriter(a)'
               /\ \A d \in docs' : d.by = a /\ d.docstatus = 0 => d \in snap'[p].docs
    <2>1. CASE act'[p] = act[p] /\ snap'[p] = snap[p]
      <3>1. reservation[a].status # "NONE" /\ NoWriter(a)
        BY <1>3, <2>1 DEF FailureIsFinal
      <3>2. reservation'[a].status # "NONE" /\ NoWriter(a)'
        BY <3>1, NoNewWriter, StaysReserved
      <3>3. ASSUME NEW d \in docs', d.by = a, d.docstatus = 0 PROVE d \in snap'[p].docs
        <4>1. d \in docs
          BY <3>1, <3>3, NoNewDraft
        <4> QED
          BY <1>3, <2>1, <3>3, <4>1 DEF FailureIsFinal
      <3> QED
        BY <3>2, <3>3
    <2>2. CASE snap'[p] = NoSnapshot
      BY <1>3, <2>2 DEF NoSnapshot, NoReservation, FailureStates
    <2>3. CASE \E b \in Actions : act'[p] = b /\ snap'[p] = Snapshot(b) /\ UNCHANGED <<ledgerVars, erpVars>>
      <3>1. snap'[p] = Snapshot(a) /\ UNCHANGED <<reservation, docs>>
        BY <1>3, <2>3 DEF ledgerVars, erpVars
      <3>2. /\ snap'[p].reservation = reservation[a]
            /\ snap'[p].docs = {d \in docs : SameItem(d, a)}
        BY <3>1 DEF Snapshot
      <3>3. NoWriter(a)' /\ reservation'[a].status # "NONE"
        BY <1>1, <1>3, <3>1, <3>2 DEF FailureStates
      <3> QED
        BY <3>1, <3>2, <3>3 DEF OwnShape, SameItem
    <2> QED
      BY <2>1, <2>2, <2>3, SnapshotStep
  <1> QED
    BY <1>1, <1>2, <1>3 DEF FailureIsFinal

\* A reconciliation that concludes "nothing was written" is right about every
\* open draft of the Action, however late the writer it speaks of ends: the
\* evidence it needs is recorded by that writer, after its last insert, and a
\* search that can see every document of the item finds the draft.
THEOREM ReconciledFailuresAreReal == Spec => []ReconciledFailureIsReal
  <1> DEFINE Inv == /\ SingleExecutor /\ FailureIsFinal /\ OwnShape /\ FiniteDocs
                    /\ UniqueNames /\ SnapshotCounted /\ ReconciledFailureIsReal
  <1>1. Init => Inv
    <2>1. ASSUME Init PROVE FiniteDocs
      BY <2>1, FS_EmptySet DEF Init, FiniteDocs, NoSnapshot
    <2>2. ASSUME Init PROVE SingleExecutor /\ OwnShape /\ UniqueNames /\ ReconciledFailureIsReal
      BY <2>2 DEF Init, SingleExecutor, OwnShape, UniqueNames, ReconciledFailureIsReal, NoReservation,
                  Reserved
    <2>3. ASSUME Init PROVE FailureIsFinal
      BY <2>3 DEF Init, FailureIsFinal, NoSnapshot, NoReservation, FailureStates
    <2>4. ASSUME Init PROVE SnapshotCounted
      BY <2>4, ConstantsAssumption DEF Init, SnapshotCounted
    <2> QED
      BY <2>1, <2>2, <2>3, <2>4
  <1>2. ASSUME TypeInv, FailureIsFinal, OwnShape, FiniteDocs, FiniteDocs', UniqueNames,
               SnapshotCounted, ReconciledFailureIsReal, [Next]_vars
        PROVE  ReconciledFailureIsReal'
    <2>1. SUFFICES ASSUME NEW a \in Actions, reservation'[a].status = "RECONCILED_FAILURE",
                          WithinOneSearch(a)', NEW d \in docs', d.by = a, d.docstatus = 0
                   PROVE  FALSE
      BY DEF ReconciledFailureIsReal, OwnDrafts
    <2>2. WithinOneSearch(a)
      <3>1. Cardinality(DocsOfItem(a)) <= Cardinality(DocsOfItem(a)')
        BY <1>2, ItemGrows
      <3>2. Cardinality(DocsOfItem(a)') <= RowLimit
        BY <2>1 DEF WithinOneSearch, DocsOfItem
      <3>3. Cardinality(DocsOfItem(a)) \in Nat /\ Cardinality(DocsOfItem(a)') \in Nat
        BY <1>2, FS_Subset, FS_CardinalityType DEF FiniteDocs, DocsOfItem
      <3>4. Cardinality(DocsOfItem(a)) <= RowLimit
        BY <3>1, <3>2, <3>3, ConstantsAssumption
      <3> QED
        BY <3>4 DEF WithinOneSearch, DocsOfItem
    <2>3. CASE reservation'[a] = reservation[a]
      <3>1. d \in docs
        BY <1>2, <2>1, <2>3, NoNewDraft DEF FailureIsFinal, FailureStates
      <3> QED
        BY <1>2, <2>1, <2>2, <2>3, <3>1 DEF ReconciledFailureIsReal, OwnDrafts
    <2>4. CASE reservation'[a] # reservation[a]
      <3>1. PICK p \in Requests : WritesRow(p, a)
        BY <1>2, <2>4, ReservationMoves
      <3>2. Reconcile(p) /\ act[p] = a /\ Classification(p) = "RECONCILED_FAILURE" /\ docs' = docs
        BY <2>1, <3>1 DEF WritesRow, StartedReservation, Reconcile, erpVars
      <3>3. snap[p].reservation.status \in FailureStates /\ Cardinality(Candidates(p)) = 0
        BY <1>2, <3>2, ReconciledAfterFailure
      <3>4. d \in snap[p].docs /\ d.shape = ShapeOf[act[p]]
        BY <1>2, <2>1, <3>2, <3>3 DEF FailureIsFinal, OwnShape
      <3> QED
        BY <1>2, <2>1, <2>2, <3>2, <3>3, <3>4, OwnDraftIsFound
    <2> QED
      BY <2>3, <2>4
  <1>3. TypeInv /\ SingleWriter /\ Inv /\ [Next]_vars => Inv'
    BY <1>2, ExecutorStep, FailureStep, ShapeStep, FiniteStep, NamesStep, CountedStep
  <1> QED
    BY <1>1, <1>3, TypeInvariance, WriterInvariance, PTL DEF Spec

-----------------------------------------------------------------------------
(* What a cancellation is evidence of. *)

\* The states in which cancel_p2p_run leaves a Run.
CancelledStates == {"CANCELLED", "EXPIRED"}

\* What a Run's row says of its reservations and of the requests about it.
RowsOfRuns ==
    \A r \in Runs :
        /\ run[r].live => run[r].state \in BeforeExecution \cup {"EXECUTING"}
        /\ run[r].live /\ run[r].state = "EXECUTING" => Busy(r)
        /\ run[r].state \in CancelledStates =>
              /\ \A a \in Actions : RunOf[a] = r => reservation[a].status = "NONE"
              /\ \A p \in Requests : act[p] \in Actions /\ RunOf[act[p]] = r
                                        => snap[p].run.state # "EXECUTING"

\* The same of every snapshot; one of a Run that executes is current for as
\* long as the Run is active.
SnapshotsOfRuns ==
    \A p \in Requests : act[p] \in Actions =>
        /\ snap[p].run.live => snap[p].run.state \in BeforeExecution \cup {"EXECUTING"}
        /\ snap[p].run.live /\ snap[p].run.state = "EXECUTING" => snap[p].busy
        /\ snap[p].reservation.status # "NONE" => snap[p].run.state \notin BeforeExecution
        /\ snap[p].run.state \notin BeforeExecution /\ run[RunOf[act[p]]].live
              => run[RunOf[act[p]]] = snap[p].run

\* A request that moves Run r, and where to.
MovesRun(p, r) ==
    /\ act[p] \in Actions /\ RunOf[act[p]] = r
    /\ \/ /\ T1Reserve(p) /\ run[r].state \in BeforeExecution
          /\ run'[r].state = "EXECUTING"
       \/ /\ run'[r].state \in {"SUCCEEDED", "FAILED", "RECONCILIATION_REQUIRED"}
          /\ ~run'[r].live
       \/ CancelRun(p) /\ ~run'[r].live

\* A Run is moved by the start of an execution, its end, a cancellation, or is
\* revoked where it stands.
LEMMA RunMoves ==
    ASSUME TypeInv, [Next]_vars, NEW r \in Runs, run'[r] # run[r]
    PROVE  \/ ~run'[r].live /\ run'[r].state = run[r].state
           \/ \E p \in Requests : MovesRun(p, r)
  <1> USE DEF erpVars, ledgerVars, clockVars, requestVars
  <1>1. run' # run
    OBVIOUS
  <1>2. ASSUME NEW p \in Requests, NEW x, run' = [run EXCEPT ![RunOf[act[p]]] = x], pc[p] # "idle"
        PROVE  act[p] \in Actions /\ RunOf[act[p]] = r /\ run'[r] = x
    BY <1>2 DEF TypeInv, TypeOK, RequestOK
  <1>3. ASSUME NEW p \in Requests, pc[p] # "idle",
               NEW t \in {"SUCCEEDED", "FAILED", "RECONCILIATION_REQUIRED"}, CloseRun(p, t)
        PROVE  MovesRun(p, r)
    <2>1. act[p] \in Actions /\ RunOf[act[p]] = r /\ run'[r] = [state |-> t, live |-> FALSE]
      BY <1>2, <1>3 DEF CloseRun
    <2> QED
      BY <2>1 DEF MovesRun
  <1>4. ASSUME NEW p \in Requests, Request(p) PROVE MovesRun(p, r)
    <2>1. CASE T1Reserve(p)
      <3>1. /\ snap[p].run.state \in BeforeExecution /\ run[RunOf[act[p]]] = snap[p].run
            /\ run' = [run EXCEPT ![RunOf[act[p]]] = [state |-> "EXECUTING", live |-> snap[p].run.live]]
        BY <1>1, <2>1 DEF T1Reserve, MoveRunToExecuting, RunFresh, BeforeExecution
      <3>2. /\ act[p] \in Actions /\ RunOf[act[p]] = r
            /\ run'[r] = [state |-> "EXECUTING", live |-> snap[p].run.live]
        BY <1>2, <2>1, <3>1 DEF T1Reserve
      <3> QED
        BY <2>1, <3>1, <3>2 DEF MovesRun
    <2>2. CASE (\E n \in Names : T2Commit(p, n)) \/ T2Record(p)
      BY <1>3, <2>2 DEF T2Commit, T2Record, RecordSuccess
    <2>3. CASE T3Commit(p)
      <3>1. \E t \in {"FAILED", "RECONCILIATION_REQUIRED"} : CloseRun(p, t)
        BY <2>3 DEF T3Commit
      <3> QED
        BY <1>3, <2>3, <3>1 DEF T3Commit
    <2>4. CASE Reconcile(p)
      <3>1. \E t \in {"SUCCEEDED", "FAILED", "RECONCILIATION_REQUIRED"} : CloseReconciledRun(p, t)
        BY <2>4 DEF Reconcile
      <3>2. \E t \in {"SUCCEEDED", "FAILED", "RECONCILIATION_REQUIRED"} : CloseRun(p, t)
        BY <1>1, <3>1 DEF CloseReconciledRun
      <3> QED
        BY <1>3, <2>4, <3>2 DEF Reconcile
    <2>5. CASE CancelRun(p)
      <3>1. PICK t \in CancelledStates : CloseRun(p, t)
        BY <2>5 DEF CancelRun, CancelledStates
      <3>a. pc[p] = "cancel"
        BY <2>5 DEF CancelRun
      <3>b. run' = [run EXCEPT ![RunOf[act[p]]] = [state |-> t, live |-> FALSE]]
        BY <3>1 DEF CloseRun
      <3>2. act[p] \in Actions /\ RunOf[act[p]] = r /\ run'[r] = [state |-> t, live |-> FALSE]
        BY <1>2, <3>a, <3>b
      <3> QED
        BY <2>5, <3>2 DEF MovesRun
    <2>6. \/ T1Reserve(p) \/ (\E n \in Names : T2Commit(p, n)) \/ T2Record(p)
          \/ T3Commit(p) \/ Reconcile(p) \/ CancelRun(p)
      BY <1>1, <1>4 DEF Request, Execute, Begin, OpenTransaction, Decide, AnswerSettled, Abandon, T1Expire,
                        Replay, T2Begin, T2Recheck, T2Insert, T2Fail, Respond, T3Begin
    <2> QED
      BY <2>1, <2>2, <2>3, <2>4, <2>5, <2>6
  <1>5. ASSUME NEW s \in Runs, RevokeRun(s) PROVE ~run'[r].live /\ run'[r].state = run[r].state
    BY <1>5 DEF RevokeRun, TypeInv, TypeOK
  <1> QED
    BY <1>1, <1>4, <1>5 DEF Next, vars, World, LeaseExpires, ActionDeadlinePasses, RunDeadlinePasses,
                            UserDraft, UserSubmit

\* Who settles the last reservation of an active Run closes the Run.
LEMMA SettlingCloses ==
    ASSUME TypeInv, RowsOfRuns, SnapshotsOfRuns, [Next]_vars, NEW a \in Actions,
           run[RunOf[a]].live, run[RunOf[a]].state = "EXECUTING", run'[RunOf[a]].live,
           reservation[a].status \in Unsettled
    PROVE  reservation'[a].status \in Unsettled
  <1>1. SUFFICES ASSUME reservation'[a] # reservation[a] PROVE reservation'[a].status \in Unsettled
    OBVIOUS
  <1>2. PICK p \in Requests : WritesRow(p, a)
    BY <1>1, ReservationMoves
  <1>3. RunOf[a] \in Runs /\ act[p] = a
    BY <1>2, ConstantsAssumption DEF WritesRow
  <1>4. ASSUME NEW t, CloseRun(p, t) PROVE FALSE
    BY <1>3, <1>4 DEF CloseRun, TypeInv, TypeOK
  <1>5. CASE T1Reserve(p)
    BY <1>1, <1>2, <1>3, <1>5 DEF T1Reserve, NotReserved, Unsettled
  <1>6. CASE (\E n \in Names : T2Commit(p, n)) \/ T2Record(p)
    BY <1>4, <1>6 DEF T2Commit, T2Record, RecordSuccess
  <1>7. CASE T3Commit(p)
    BY <1>4, <1>7 DEF T3Commit
  <1>8. CASE Reconcile(p)
    <2>1. PICK t \in {"SUCCEEDED", "FAILED", "RECONCILIATION_REQUIRED"} : CloseReconciledRun(p, t)
      BY <1>8 DEF Reconcile
    <2>2. snap[p].reservation.status # "NONE"
      BY <1>8 DEF Reconcile, Reconcilable, Unsettled
    <2>3. run[RunOf[a]] = snap[p].run
      BY <1>3, <2>2 DEF SnapshotsOfRuns
    <2>4. t \in RunTransitions["EXECUTING"]
      BY DEF RunTransitions, RunStates
    <2>5. CloseRunPossible(p, t)
      BY <1>3, <2>3, <2>4 DEF CloseRunPossible, RunFresh, ValidateRunTransition
    <2> QED
      BY <1>4, <2>1, <2>5 DEF CloseReconciledRun
  <1> QED
    BY <1>2, <1>5, <1>6, <1>7, <1>8 DEF WritesRow

\* A cancellation finds a Run that never executed.
LEMMA CancelledBeforeExecution ==
    ASSUME SnapshotsOfRuns, NEW p \in Requests, act[p] \in Actions, CancelRun(p)
    PROVE  run[RunOf[act[p]]].state \in BeforeExecution
  BY DEF SnapshotsOfRuns, CancelRun, CloseRunPossible, RunFresh

LEMMA RowsOfRunsStep ==
    ASSUME TypeInv, ExecutionBegun, RowsOfRuns, SnapshotsOfRuns, [Next]_vars
    PROVE  RowsOfRuns'
  <1>1. SUFFICES ASSUME NEW r \in Runs
        PROVE  /\ run'[r].live => run'[r].state \in BeforeExecution \cup {"EXECUTING"}
               /\ run'[r].live /\ run'[r].state = "EXECUTING" => Busy(r)'
               /\ run'[r].state \in CancelledStates =>
                     /\ \A a \in Actions : RunOf[a] = r => reservation'[a].status = "NONE"
                     /\ \A p \in Requests : act'[p] \in Actions /\ RunOf[act'[p]] = r
                                               => snap'[p].run.state # "EXECUTING"
    BY DEF RowsOfRuns
  <1>2. run'[r].live => \/ run'[r] = run[r]
                        \/ \E p \in Requests :
                              /\ act[p] \in Actions /\ RunOf[act[p]] = r
                              /\ T1Reserve(p) /\ run'[r].state = "EXECUTING"
    BY RunMoves DEF MovesRun
  <1>3. run'[r].live => run'[r].state \in BeforeExecution \cup {"EXECUTING"}
    BY <1>2 DEF RowsOfRuns
  <1>4. ASSUME run'[r].live, run'[r].state = "EXECUTING" PROVE Busy(r)'
    <2>1. CASE run'[r] = run[r]
      <3>1. PICK a \in Actions : RunOf[a] = r /\ reservation[a].status \in Unsettled
        BY <1>4, <2>1 DEF RowsOfRuns, Busy
      <3>2. reservation'[a].status \in Unsettled
        BY <1>4, <2>1, <3>1, SettlingCloses
      <3> QED
        BY <3>1, <3>2 DEF Busy
    <2>2. ASSUME NEW p \in Requests, act[p] \in Actions, RunOf[act[p]] = r, T1Reserve(p)
          PROVE  Busy(r)'
      <3>1. reservation'[act[p]].status \in Unsettled
        BY <2>2 DEF T1Reserve, StartedReservation, Unsettled, TypeInv, TypeOK
      <3> QED
        BY <2>2, <3>1 DEF Busy
    <2> QED
      BY <1>2, <1>4, <2>1, <2>2
  <1>5. ASSUME run'[r].state \in CancelledStates
        PROVE  /\ \A a \in Actions : RunOf[a] = r => reservation'[a].status = "NONE"
               /\ \A p \in Requests : act'[p] \in Actions /\ RunOf[act'[p]] = r
                                         => snap'[p].run.state # "EXECUTING"
    <2>1. \/ run'[r].state = run[r].state
          \/ \E p \in Requests : act[p] \in Actions /\ RunOf[act[p]] = r /\ CancelRun(p)
      BY <1>5, RunMoves DEF MovesRun, CancelledStates
    <2>2. \/ run[r].state \in CancelledStates
          \/ run[r].state \in BeforeExecution /\ reservation' = reservation
      BY <1>5, <2>1, CancelledBeforeExecution DEF CancelRun
    <2>3. /\ \A a \in Actions : RunOf[a] = r => reservation[a].status = "NONE"
          /\ \A p \in Requests : act[p] \in Actions /\ RunOf[act[p]] = r
                                    => snap[p].run.state # "EXECUTING"
      BY <2>2 DEF RowsOfRuns, ExecutionBegun, BeforeExecution
    <2>4. ASSUME NEW a \in Actions, RunOf[a] = r PROVE reservation'[a].status = "NONE"
      <3>1. SUFFICES ASSUME run[r].state \in CancelledStates, reservation'[a].status # "NONE" PROVE FALSE
        BY <2>2, <2>3, <2>4
      <3>2. PICK p \in Requests : act[p] = a /\ T1Reserve(p)
        BY <2>3, <2>4, <3>1, ReservedByT1
      <3> QED
        BY <2>3, <2>4, <3>1, <3>2 DEF T1Reserve, MoveRunToExecuting, RunFresh, CancelledStates
    <2>5. ASSUME NEW p \in Requests, act'[p] \in Actions, RunOf[act'[p]] = r
          PROVE  snap'[p].run.state # "EXECUTING"
      <3>1. CASE act'[p] = act[p] /\ snap'[p] = snap[p]
        BY <2>3, <2>5, <3>1
      <3>2. CASE snap'[p] = NoSnapshot
        BY <3>2 DEF NoSnapshot
      <3>3. CASE \E a \in Actions : act'[p] = a /\ snap'[p] = Snapshot(a) /\ UNCHANGED <<ledgerVars, erpVars>>
        BY <2>2, <2>5, <3>3 DEF Snapshot, CancelledStates, BeforeExecution
      <3> QED
        BY <3>1, <3>2, <3>3, SnapshotStep
    <2> QED
      BY <2>4, <2>5
  <1> QED
    BY <1>3, <1>4, <1>5

LEMMA SnapshotsOfRunsStep ==
    ASSUME TypeInv, ExecutionBegun, RowsOfRuns, SnapshotsOfRuns, [Next]_vars
    PROVE  SnapshotsOfRuns'
  <1>1. SUFFICES ASSUME NEW p \in Requests, act'[p] \in Actions
        PROVE  /\ snap'[p].run.live => snap'[p].run.state \in BeforeExecution \cup {"EXECUTING"}
               /\ snap'[p].run.live /\ snap'[p].run.state = "EXECUTING" => snap'[p].busy
               /\ snap'[p].reservation.status # "NONE" => snap'[p].run.state \notin BeforeExecution
               /\ snap'[p].run.state \notin BeforeExecution /\ run'[RunOf[act'[p]]].live
                     => run'[RunOf[act'[p]]] = snap'[p].run
    BY DEF SnapshotsOfRuns
  <1>2. CASE act'[p] = act[p] /\ snap'[p] = snap[p]
    <2>1. ASSUME snap[p].run.state \notin BeforeExecution, run'[RunOf[act[p]]].live
          PROVE  run'[RunOf[act[p]]] = snap[p].run
      <3>1. PICK r \in Runs : r = RunOf[act[p]]
        BY <1>1, <1>2, ConstantsAssumption
      <3>2. run[r].state \notin BeforeExecution
        BY <1>1, <1>2, <2>1, <3>1 DEF ExecutionBegun
      <3>3. run'[r] = run[r]
        BY <2>1, <3>1, <3>2, RunMoves DEF MovesRun
      <3> QED
        BY <1>1, <1>2, <2>1, <3>1, <3>3 DEF SnapshotsOfRuns
    <2> QED
      BY <1>1, <1>2, <2>1 DEF SnapshotsOfRuns
  <1>3. CASE snap'[p] = NoSnapshot
    BY <1>3 DEF NoSnapshot, NoReservation, BeforeExecution
  <1>4. CASE \E a \in Actions : act'[p] = a /\ snap'[p] = Snapshot(a) /\ UNCHANGED <<ledgerVars, erpVars>>
    <2>1. PICK a \in Actions : act'[p] = a /\ snap'[p] = Snapshot(a) /\ UNCHANGED <<ledgerVars, erpVars>>
      BY <1>4
    <2>2. RunOf[a] \in Runs /\ run' = run
      BY <2>1, ConstantsAssumption DEF ledgerVars
    <2>3. /\ snap'[p].run = run[RunOf[a]] /\ snap'[p].reservation = reservation[a]
          /\ snap'[p].busy = Busy(RunOf[a])
      BY <2>1 DEF Snapshot
    <2> QED
      BY <2>1, <2>2, <2>3 DEF RowsOfRuns, ExecutionBegun
  <1> QED
    BY <1>2, <1>3, <1>4, SnapshotStep

\* A Run that cancel_p2p_run closed has no reservation that is started or
\* awaits reconciliation, although the active reservations are counted in a
\* snapshot older than the lock on the Run and the next reservation may come
\* from a snapshot older still.
THEOREM CancelledRunsAreQuiet == Spec => []CancelledRunIsQuiet
  <1> DEFINE Inv == RowsOfRuns /\ SnapshotsOfRuns
  <1>1. Init => Inv
    <2>1. ASSUME Init PROVE RowsOfRuns
      BY <2>1 DEF Init, RowsOfRuns, BeforeExecution, CancelledStates
    <2>2. ASSUME Init PROVE SnapshotsOfRuns
      BY <2>2, ConstantsAssumption DEF Init, SnapshotsOfRuns
    <2> QED
      BY <2>1, <2>2
  <1>2. TypeInv /\ ExecutionBegun /\ Inv /\ [Next]_vars => Inv'
    BY RowsOfRunsStep, SnapshotsOfRunsStep
  <1>3. Inv => CancelledRunIsQuiet
    BY DEF RowsOfRuns, CancelledRunIsQuiet, CancelledStates, Busy, Unsettled
  <1> QED
    BY <1>1, <1>2, <1>3, TypeInvariance, BegunInvariance, PTL DEF Spec
=============================================================================
