---------------------------- MODULE RunLifecycle ----------------------------
(***************************************************************************)
(* One read-only analysis Run of the Frappe app, from issue_run to its     *)
(* plan: the row of Synora Agent Run, the requests that load and save it,  *)
(* the capability handed to the agent runtime, and the Gateway calls made  *)
(* with it.                                                                *)
(*                                                                         *)
(* A request loads the row in one step and saves it in a later one.        *)
(* Document.save() locks the row and fails when it was saved by someone    *)
(* else since it was loaded (its "modified" stamp differs).  The lock is   *)
(* kept until the transaction ends.  A GatewayFault is turned into a       *)
(* response by api.py, so Frappe commits what was written before it; any   *)
(* other exception rolls back to the last commit.                          *)
(*                                                                         *)
(* The runtime is the environment: it answers with any status and uses the *)
(* capabilities it was given at any time.                                  *)
(***************************************************************************)
EXTENDS Naturals, FiniteSets

CONSTANTS
    Requests,     \* HTTP requests of the Run's initiator
    Calls,        \* Gateway calls the runtime makes, all with one invocation id
    Modes,        \* the execution modes to consider
    Faults,       \* what may befall a worker: "exception", "crash"
    MaxStamp,     \* bound on the number of saves of the row
    Nobody        \* no request, no call

ASSUME ConstantsAssumption ==
    /\ Modes \subseteq {"DETERMINISTIC", "AGENT", "PLAN_EXECUTE"}
    /\ Faults \subseteq {"exception", "crash"}
    /\ MaxStamp \in Nat
    /\ Requests \cap Calls = {}
    /\ Nobody \notin Requests \cup Calls

VARIABLES
    mode,        \* execution_mode of the Run
    run,         \* the committed row
    analyses,    \* the requests whose Synora Item Analysis rows are committed
    plan,        \* the request whose Synora Run Plan is committed, or Nobody
    residue,     \* history: the requests whose rows or plan a failing delete left
    lock,        \* who holds the lock of the Run's row
    capOver,     \* expires_at of the current capability has passed
    overdue,     \* workflow_expires_at has passed
    req,         \* what each request does, the row it has loaded
    handed,      \* the capabilities handed to the runtime
    call,        \* where each Gateway call is, the state_version it resolved
    ledger,      \* the Synora Workflow Tool Invocation row
    reads        \* history: handler dispatches under the invocation id

rowVars == <<run, analyses, plan, residue>>
clockVars == <<capOver, overdue>>
gatewayVars == <<call, ledger, reads>>
vars == <<mode, rowVars, lock, clockVars, req, handed, gatewayVars>>

-----------------------------------------------------------------------------
(* The state machine and the row. *)

RunStates == {"CREATED", "ANALYZING", "PROPOSED", "SUCCEEDED", "FAILED", "CANCELLED", "EXPIRED"}

\* The read-only half of the transition table.
RunTransitions ==
    [s \in RunStates |->
        CASE s = "CREATED" -> {"ANALYZING", "PROPOSED", "CANCELLED", "EXPIRED"}
          [] s = "ANALYZING" -> {"PROPOSED", "FAILED", "CANCELLED", "CREATED", "EXPIRED"}
          [] s = "PROPOSED" -> {"SUCCEEDED", "CANCELLED", "EXPIRED"}
          [] OTHER -> {}]

CancellableStates == {"CREATED", "ANALYZING"}

TerminalStates == {s \in RunStates : RunTransitions[s] = {}}

\* status is written together with revoked; cap numbers the digests.
RunRows == [state : RunStates, status : {"ACTIVE", "REVOKED", "EXPIRED"},
            version : Nat, stamp : Nat, cap : Nat]

NewRun == [state |-> "CREATED", status |-> "ACTIVE", version |-> 1, stamp |-> 0, cap |-> 0]

\* What a request is at: it has loaded the row for an operation, it waits for
\* the runtime, it re-loads after the runtime's answer, it is in the locked
\* closeout, it is about to undo its analysis or to close the Run.
Places == {"idle", "done", "analyze", "resume", "cancel", "revoke", "plan", "planning",
           "calling", "answered", "closeout", "closing", "recover", "terminal"}

\* target is the closing state of "terminal"; resumed tells a resume from a start.
Idle == [at |-> "idle", doc |-> NewRun, target |-> "FAILED", resumed |-> FALSE]

Init ==
    /\ mode \in Modes
    /\ run = NewRun
    /\ analyses = {}
    /\ plan = Nobody
    /\ residue = {}
    /\ lock = Nobody
    /\ capOver = FALSE
    /\ overdue = FALSE
    /\ req = [q \in Requests |-> Idle]
    /\ handed = {}
    /\ call = [g \in Calls |-> [at |-> "idle", version |-> 0, saw |-> "NONE"]]
    /\ ledger = "NONE"
    /\ reads = 0

-----------------------------------------------------------------------------
(* Helpers. *)

WorkflowExpired == mode = "PLAN_EXECUTE" /\ overdue

Go(q, place) == req' = [req EXCEPT ![q].at = place]

\* The response is sent; nothing of the request is left.
Finish(q) == req' = [req EXCEPT ![q] = [Idle EXCEPT !.at = "done"]]

Load(q, place) == req' = [req EXCEPT ![q].at = place, ![q].doc = run]

\* Mutant: a save that ignores the stamp.
AlwaysLatest(q) == TRUE

\* The optimistic lock of Document.save(): the stamp is the one loaded.
Latest(q) == req[q].doc.stamp = run.stamp

\* The row after one more save of it.
Saved(r) == [r EXCEPT !.stamp = @ + 1]

\* validate_transition, then state_version and the save.
SetState(r, target) == [Saved(r) EXCEPT !.state = target, !.version = @ + 1]

Closed(r, target, status) == [SetState(r, target) EXCEPT !.status = status]

\* Only the row changes hands; a step with no lock of its own waits for it.
LockFree == lock = Nobody

\* Every save is below the bound.
CanSave == run.stamp < MaxStamp

-----------------------------------------------------------------------------
(* Loading: the entry checks. *)

\* workflow_expired found by a loader: the Run is closed and the request fails.
ExpireOnLoad(q) ==
    /\ req[q].at \in {"idle", "answered"}
    /\ WorkflowExpired
    /\ run.status = "ACTIVE"
    /\ run.state \in CancellableStates
    /\ LockFree /\ CanSave
    /\ run' = Closed(run, "EXPIRED", "EXPIRED")
    /\ Finish(q)
    /\ UNCHANGED <<mode, analyses, plan, residue, lock, clockVars, handed, gatewayVars>>

\* _load_active_run of the public operations.
LoadActive(q, place, states) ==
    /\ req[q].at = "idle"
    /\ run.status = "ACTIVE"
    /\ ~WorkflowExpired
    /\ ~capOver
    /\ run.state \in states
    /\ Load(q, place)
    /\ UNCHANGED <<mode, rowVars, lock, clockVars, handed, gatewayVars>>

LoadAnalyze(q) == LoadActive(q, "analyze", {"CREATED"})

LoadPlan(q) == LoadActive(q, "plan", {"PROPOSED"})

\* _load_workflow_run of resume_run: the old capability may have expired.
LoadResume(q) ==
    /\ req[q].at = "idle"
    /\ mode = "PLAN_EXECUTE"
    /\ run.status = "ACTIVE"
    /\ ~overdue
    /\ run.state = "ANALYZING"
    /\ Load(q, "resume")
    /\ UNCHANGED <<mode, rowVars, lock, clockVars, handed, gatewayVars>>

LoadCancel(q) ==
    /\ req[q].at = "idle"
    /\ run.status = "ACTIVE"
    /\ ~WorkflowExpired
    /\ run.state \in CancellableStates
    /\ Load(q, "cancel")
    /\ UNCHANGED <<mode, rowVars, lock, clockVars, handed, gatewayVars>>

LoadRevoke(q) ==
    /\ req[q].at = "idle"
    /\ run.status = "ACTIVE"
    /\ Load(q, "revoke")
    /\ UNCHANGED <<mode, rowVars, lock, clockVars, handed, gatewayVars>>

-----------------------------------------------------------------------------
(* cancel_run and revoke_run. *)

\* The save, or TimestampMismatchError and nothing.
SaveCancel(q) ==
    /\ req[q].at = "cancel"
    /\ LockFree /\ CanSave
    /\ run' = IF Latest(q) THEN Closed(run, "CANCELLED", "REVOKED") ELSE run
    /\ Finish(q)
    /\ UNCHANGED <<mode, analyses, plan, residue, lock, clockVars, handed, gatewayVars>>

SaveRevoke(q) ==
    /\ req[q].at = "revoke"
    /\ LockFree /\ CanSave
    /\ run' = IF Latest(q) THEN Closed(run, run.state, "REVOKED") ELSE run
    /\ Finish(q)
    /\ UNCHANGED <<mode, analyses, plan, residue, lock, clockVars, handed, gatewayVars>>

-----------------------------------------------------------------------------
(* analyze_run. *)

Conflict(q) == Finish(q) /\ UNCHANGED <<run, lock, capOver, handed>>

\* rotate_run_capability: a fresh digest, no new state_version.
Rotated(r) == [Saved(r) EXCEPT !.cap = @ + 1]

\* CREATED to ANALYZING.  A DETERMINISTIC request keeps its transaction, and
\* with it the lock, to the end; the others commit the row with a fresh
\* capability and call the runtime.  Past its deadline a workflow is left in
\* ANALYZING: the rotation raises CONFLICT, which is not recovered.
BeginAnalysis(q) ==
    /\ req[q].at = "analyze"
    /\ LockFree /\ CanSave
    /\ CASE ~Latest(q) -> Conflict(q)
         [] Latest(q) /\ mode = "DETERMINISTIC" ->
                /\ lock' = q
                /\ Go(q, "closing")
                /\ UNCHANGED <<run, capOver, handed>>
         [] Latest(q) /\ WorkflowExpired ->
                /\ run' = SetState(run, "ANALYZING")
                /\ Finish(q)
                /\ UNCHANGED <<lock, capOver, handed>>
         [] OTHER ->
                /\ run' = Rotated(SetState(run, "ANALYZING"))
                /\ capOver' = FALSE
                /\ handed' = handed \cup {run'.cap}
                /\ req' = [req EXCEPT ![q].at = "calling", ![q].doc = run']
                /\ UNCHANGED lock
    /\ UNCHANGED <<mode, analyses, plan, residue, overdue, gatewayVars>>

\* resume_plan_execute_run: rotate, commit, call the runtime.
BeginResume(q) ==
    /\ req[q].at = "resume"
    /\ LockFree /\ CanSave
    /\ IF Latest(q) /\ ~overdue
         THEN /\ run' = Rotated(run)
              /\ capOver' = FALSE
              /\ handed' = handed \cup {run'.cap}
              /\ req' = [req EXCEPT ![q].at = "calling", ![q].doc = run', ![q].resumed = TRUE]
              /\ UNCHANGED lock
         ELSE Conflict(q)
    /\ UNCHANGED <<mode, analyses, plan, residue, overdue, gatewayVars>>

\* Agent mode: the runtime's stop code.  Every transport failure and every
\* response the validator rejects becomes MODEL_ERROR, a fallback code.
AgentAnswer(q, code) ==
    /\ req[q].at = "calling"
    /\ mode = "AGENT"
    /\ IF code = "CLOSE" THEN Go(q, "answered") ELSE Load(q, "recover")
    /\ UNCHANGED <<mode, rowVars, lock, clockVars, handed, gatewayVars>>

\* Plan-and-execute mode: the workflow status, or the runtime is unavailable
\* or reports a conflict, which leave the Run in ANALYZING.
WorkflowAnswer(q, status) ==
    /\ req[q].at = "calling"
    /\ mode = "PLAN_EXECUTE"
    /\ CASE status = "SUCCEEDED" -> Go(q, "answered")
         [] status \in {"FAILED", "CANCELLED", "EXPIRED"} ->
                req' = [req EXCEPT ![q].at = "terminal", ![q].target = status]
         [] OTHER -> Finish(q)
    /\ UNCHANGED <<mode, rowVars, lock, clockVars, handed, gatewayVars>>

\* Any other exception around the call.  A started workflow is closed as
\* FAILED; elsewhere the request ends and its open transaction is lost.
BreakCall(q) ==
    /\ "exception" \in Faults
    /\ req[q].at = "calling"
    /\ IF mode = "PLAN_EXECUTE" /\ ~req[q].resumed /\ run.state = "ANALYZING"
         THEN req' = [req EXCEPT ![q].at = "terminal", ![q].target = "FAILED", ![q].doc = run]
         ELSE Finish(q)
    /\ UNCHANGED <<mode, rowVars, lock, clockVars, handed, gatewayVars>>

\* _mark_workflow_terminal, on the row the request saved before the call.
MarkTerminal(q) ==
    /\ req[q].at = "terminal"
    /\ LockFree /\ CanSave
    /\ run' = IF Latest(q)
                THEN Closed(run, req[q].target,
                            IF req[q].target = "EXPIRED" THEN "EXPIRED" ELSE "REVOKED")
                ELSE run
    /\ Finish(q)
    /\ UNCHANGED <<mode, analyses, plan, residue, lock, clockVars, handed, gatewayVars>>

\* The Run is loaded again for the deterministic closeout; if it may no
\* longer be analysed, an Agent request still tries to undo its analysis.
LoadCloseout(q) ==
    /\ req[q].at = "answered"
    /\ ~(WorkflowExpired /\ run.status = "ACTIVE" /\ run.state \in CancellableStates)
    /\ IF run.status = "ACTIVE" /\ run.state = "ANALYZING" /\ (req[q].resumed \/ ~capOver)
         THEN Load(q, "closeout")
         ELSE IF mode = "AGENT" THEN Load(q, "recover") ELSE Finish(q)
    /\ UNCHANGED <<mode, rowVars, lock, clockVars, handed, gatewayVars>>

\* Mutant: the version is not compared.
RecheckStatus(version) == run.status = "ACTIVE" /\ ~capOver /\ ~WorkflowExpired

\* recheck_run_scope: the row is locked and compared with the loaded version.
Recheck(version) ==
    /\ run.status = "ACTIVE"
    /\ run.version = version
    /\ ~capOver
    /\ ~WorkflowExpired

\* The first tool call of the closeout locks the row until its transaction ends.
BeginCloseout(q) ==
    /\ req[q].at = "closeout"
    /\ LockFree
    /\ IF Recheck(req[q].doc.version)
         THEN lock' = q /\ Go(q, "closing")
         ELSE lock' = lock /\ Go(q, "recover")
    /\ UNCHANGED <<mode, rowVars, clockVars, handed, gatewayVars>>

\* The row as the closing transaction sees it.
Analyzed(r) == IF mode = "DETERMINISTIC" THEN SetState(r, "ANALYZING") ELSE r

\* Mutant: the rows of a failed analysis stay.
KeptRows(rows, q) == rows

\* _recover_failed_analysis deletes the analysis rows of its own request.
Cleaned(rows, q) == rows \ {q}

\* It passes over a delete that fails: the rows written so far stay.
CleanUp(q) ==
    \/ analyses' = Cleaned(analyses \cup {q}, q) /\ UNCHANGED residue
    \/ "exception" \in Faults /\ analyses' = analyses \cup {q} /\ residue' = residue \cup {q}

\* All items analysed: PROPOSED, with this request's analysis rows, or a
\* conflict that is recovered like any other failure.
Propose(q) ==
    /\ req[q].at = "closing" /\ CanSave
    /\ IF Latest(q)
         THEN /\ run' = SetState(Analyzed(run), "PROPOSED")
              /\ analyses' = analyses \cup {q}
              /\ UNCHANGED residue
         ELSE UNCHANGED run /\ CleanUp(q)
    /\ lock' = Nobody
    /\ Finish(q)
    /\ UNCHANGED <<mode, plan, clockVars, handed, gatewayVars>>

\* A tool fails or the scope is too large: _recover_failed_analysis deletes the
\* rows of this request and goes back to CREATED, in the same transaction.
FailCloseout(q) ==
    /\ req[q].at = "closing" /\ CanSave
    /\ run' = IF Latest(q) THEN SetState(Analyzed(run), "CREATED") ELSE run
    /\ CleanUp(q)
    /\ lock' = Nobody
    /\ Finish(q)
    /\ UNCHANGED <<mode, plan, clockVars, handed, gatewayVars>>

\* Any other exception: the same recovery, but Frappe then rolls it back,
\* except where _analyze_plan_execute_run turns it into a GatewayFault.
BreakCloseout(q) ==
    /\ "exception" \in Faults
    /\ req[q].at = "closing" /\ CanSave
    /\ IF mode = "PLAN_EXECUTE" /\ ~req[q].resumed
         THEN run' = (IF Latest(q) THEN SetState(run, "CREATED") ELSE run) /\ CleanUp(q)
         ELSE UNCHANGED <<run, analyses, residue>>
    /\ lock' = Nobody
    /\ Finish(q)
    /\ UNCHANGED <<mode, plan, clockVars, handed, gatewayVars>>

\* _recover_failed_analysis outside the closeout, where the request has
\* written no rows yet.
Recover(q) ==
    /\ req[q].at = "recover"
    /\ LockFree /\ CanSave
    /\ run' = IF req[q].doc.state = "ANALYZING" /\ Latest(q)
                THEN SetState(run, "CREATED")
                ELSE run
    /\ analyses' = Cleaned(analyses, q)
    /\ Finish(q)
    /\ UNCHANGED <<mode, plan, residue, lock, clockVars, handed, gatewayVars>>

-----------------------------------------------------------------------------
(* plan_run. *)

\* The lock is taken before the row is loaded, but the load may come from a
\* snapshot as old as the request.
LockPlan(q) ==
    /\ req[q].at = "plan"
    /\ LockFree
    /\ \E r \in {req[q].doc, run} :
         IF r.status = "ACTIVE" /\ r.state = "PROPOSED" /\ ~WorkflowExpired /\ ~capOver
           THEN /\ lock' = q
                /\ req' = [req EXCEPT ![q].at = "planning", ![q].doc = r]
           ELSE lock' = lock /\ Finish(q)
    /\ UNCHANGED <<mode, rowVars, clockVars, handed, gatewayVars>>

\* The Run could not be advanced: the inserted plan is deleted again before the
\* conflict is reported, and a delete that fails is passed over.
Withdrawn(q) ==
    \/ UNCHANGED <<plan, residue>>
    \/ "exception" \in Faults /\ plan' = q /\ residue' = residue \cup {q}

\* The plan row is unique per Run.
SavePlan(q) ==
    /\ req[q].at = "planning" /\ CanSave
    /\ CASE plan # Nobody -> UNCHANGED <<run, plan, residue>>
         [] plan = Nobody /\ Latest(q) ->
                run' = Closed(run, "SUCCEEDED", "REVOKED") /\ plan' = q /\ UNCHANGED residue
         [] OTHER -> UNCHANGED run /\ Withdrawn(q)
    /\ lock' = Nobody
    /\ Finish(q)
    /\ UNCHANGED <<mode, analyses, clockVars, handed, gatewayVars>>

-----------------------------------------------------------------------------
(* The Gateway, api.execute. *)

\* resolve_run: the capability is the current one of an active Run.
Resolve(g, cap) ==
    /\ call[g].at = "idle"
    /\ cap = run.cap
    /\ run.status = "ACTIVE"
    /\ ~capOver
    /\ ~WorkflowExpired
    /\ call' = [call EXCEPT ![g] = [at |-> IF mode = "PLAN_EXECUTE" THEN "resolved" ELSE "started",
                                    version |-> run.version, saw |-> ledger]]
    /\ UNCHANGED <<mode, rowVars, lock, clockVars, req, handed, ledger, reads>>

GoCall(g, place) == call' = [call EXCEPT ![g].at = place]

\* The Gateway has answered: the result, the cached result or an error.
Answer(g, outcome) == call' = [call EXCEPT ![g] = [at |-> outcome, version |-> 0, saw |-> "NONE"]]

\* reserve_invocation: the STARTED row is committed before the dispatch.  The
\* unique invocation id stops the second of two calls whose snapshots are older.
Reserve(g) ==
    /\ call[g].at = "resolved"
    /\ LockFree
    /\ IF Recheck(call[g].version) /\ ledger = "NONE"
         THEN ledger' = "STARTED" /\ GoCall(g, "started")
         ELSE /\ Answer(g, IF Recheck(call[g].version) /\ call[g].saw = "SUCCEEDED"
                             THEN "cached" ELSE "rejected")
              /\ UNCHANGED ledger
    /\ UNCHANGED <<mode, rowVars, lock, clockVars, req, handed, reads>>

\* dispatch: the row is locked and checked again, then the handler reads ERP.
Dispatch(g) ==
    /\ call[g].at = "started"
    /\ LockFree
    /\ IF Recheck(call[g].version)
         THEN /\ lock' = g
              /\ GoCall(g, "reading")
              /\ reads' = IF mode = "PLAN_EXECUTE" THEN reads + 1 ELSE reads
         ELSE Answer(g, "rejected") /\ UNCHANGED <<lock, reads>>
    /\ UNCHANGED <<mode, rowVars, clockVars, req, handed, ledger>>

\* complete_invocation and the response.
CompleteCall(g) ==
    /\ call[g].at = "reading"
    /\ ledger' = IF mode = "PLAN_EXECUTE" THEN "SUCCEEDED" ELSE ledger
    /\ lock' = Nobody
    /\ Answer(g, "answered")
    /\ UNCHANGED <<mode, rowVars, clockVars, req, handed, reads>>

\* The handler fails or exceeds its time: STARTED is kept.
FailCall(g) ==
    /\ call[g].at = "reading"
    /\ lock' = Nobody
    /\ Answer(g, "rejected")
    /\ UNCHANGED <<mode, rowVars, clockVars, req, handed, ledger, reads>>

-----------------------------------------------------------------------------
(* The environment. *)

\* A worker dies: its open transaction is rolled back and its lock released.
Crash(q) ==
    /\ "crash" \in Faults
    /\ req[q].at \notin {"idle", "done"}
    /\ lock' = IF lock = q THEN Nobody ELSE lock
    /\ Finish(q)
    /\ UNCHANGED <<mode, rowVars, clockVars, handed, gatewayVars>>

\* A Gateway worker dies: a committed STARTED row stays.
CrashCall(g) ==
    /\ "crash" \in Faults
    /\ call[g].at \in {"resolved", "started", "reading"}
    /\ lock' = IF lock = g THEN Nobody ELSE lock
    /\ Answer(g, "rejected")
    /\ UNCHANGED <<mode, rowVars, clockVars, req, handed, ledger, reads>>

CapabilityExpires ==
    /\ ~capOver
    /\ capOver' = TRUE
    /\ UNCHANGED <<mode, rowVars, lock, overdue, req, handed, gatewayVars>>

DeadlinePasses ==
    /\ mode = "PLAN_EXECUTE"
    /\ ~overdue
    /\ overdue' = TRUE
    /\ UNCHANGED <<mode, rowVars, lock, capOver, req, handed, gatewayVars>>

RequestStep(q) ==
    \/ ExpireOnLoad(q) \/ LoadAnalyze(q) \/ LoadPlan(q) \/ LoadResume(q)
    \/ LoadCancel(q) \/ LoadRevoke(q) \/ SaveCancel(q) \/ SaveRevoke(q)
    \/ BeginAnalysis(q) \/ BeginResume(q) \/ BreakCall(q) \/ MarkTerminal(q)
    \/ \E code \in {"CLOSE", "CANCELLED", "TOOL_ERROR"} : AgentAnswer(q, code)
    \/ \E status \in {"SUCCEEDED", "FAILED", "CANCELLED", "EXPIRED", "INTERRUPTED",
                      "UNAVAILABLE"} : WorkflowAnswer(q, status)
    \/ LoadCloseout(q) \/ BeginCloseout(q) \/ Propose(q) \/ FailCloseout(q)
    \/ BreakCloseout(q) \/ Recover(q) \/ LockPlan(q) \/ SavePlan(q) \/ Crash(q)

CallStep(g) ==
    \/ \E cap \in handed : Resolve(g, cap)
    \/ Reserve(g) \/ Dispatch(g) \/ CompleteCall(g) \/ FailCall(g) \/ CrashCall(g)

Next ==
    \/ \E q \in Requests : RequestStep(q)
    \/ \E g \in Calls : CallStep(g)
    \/ CapabilityExpires
    \/ DeadlinePasses

Spec == Init /\ [][Next]_vars

-----------------------------------------------------------------------------
(* Properties. *)

CallPlaces == {"idle", "resolved", "started", "reading", "answered", "cached", "rejected"}

TypeOK ==
    /\ mode \in Modes
    /\ run \in RunRows
    /\ analyses \subseteq Requests
    /\ plan \in Requests \cup {Nobody}
    /\ residue \subseteq Requests
    /\ lock \in Requests \cup Calls \cup {Nobody}
    /\ capOver \in BOOLEAN /\ overdue \in BOOLEAN
    /\ req \in [Requests -> [at : Places, doc : RunRows, resumed : BOOLEAN,
                              target : {"FAILED", "CANCELLED", "EXPIRED"}]]
    /\ handed \subseteq Nat
    /\ call \in [Calls -> [at : CallPlaces, version : Nat,
                            saw : {"NONE", "STARTED", "SUCCEEDED"}]]
    /\ ledger \in {"NONE", "STARTED", "SUCCEEDED"}
    /\ reads \in Nat

\* A Run that is revoked, cancelled or expired is never ACTIVE again, and a
\* finished one never changes state, however late an analysis, a recovery, a
\* runtime answer or a plan that loaded the row before comes to save it.
NeverRevived ==
    [][/\ run.status # "ACTIVE" => run'.status = run.status
       /\ run.state \in TerminalStates => run'.state = run.state]_vars

\* Apart from rows whose deletion failed, a proposed Run has the analysis rows
\* of exactly one request, and a Run that goes back to CREATED, or is closed
\* before it was proposed, has none: plan_run reads the rows by Run alone and
\* would mix two analyses, as it does with the rows a failing delete left.
WholeAnalysis ==
    IF run.state \in {"PROPOSED", "SUCCEEDED"}
      THEN Cardinality(analyses \ residue) = 1
      ELSE analyses \subseteq residue

\* A Run has a plan exactly when it succeeded: a plan left by a request that
\* lost the race blocks every later plan_run of the Run with a conflict.  The
\* only such plan is one whose deletion failed, and its Run never succeeds.
PlanIffSucceeded == plan \notin residue \cup {Nobody} <=> run.state = "SUCCEEDED"

\* While a handler reads ERP for a Gateway call, and while a closeout analyses,
\* the Run stays active and in the version the reader was admitted for: a
\* cancellation is ordered before the read or after it.
QuietWhileReading ==
    /\ \A g \in Calls : call[g].at = "reading" =>
          run.status = "ACTIVE" /\ run.version = call[g].version
    /\ \A q \in Requests : req[q].at = "closing" /\ mode # "DETERMINISTIC" =>
          /\ run.status = "ACTIVE" /\ run.state = "ANALYZING"
          /\ run.version = req[q].doc.version

\* One workflow invocation reaches an ERP handler at most once, although the
\* runtime repeats a call whose answer was lost and although the worker may die
\* between the STARTED row and the result.
ReadAtMostOnce == reads <= 1

\* A Gateway read neither overlaps a change of its Run nor happens twice.
ReadsAreSound == QuietWhileReading /\ ReadAtMostOnce

\* The rows are of their types, and the analyses and the plan are the ones the
\* state of the Run announces, but for what a failing delete left.
RowsMatchState == TypeOK /\ WholeAnalysis /\ PlanIffSucceeded
=============================================================================
