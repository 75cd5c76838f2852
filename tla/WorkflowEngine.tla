-------------------------- MODULE WorkflowEngine --------------------------
(***************************************************************************)
(* The handwritten Plan-and-Execute engine of the Agent Runtime: pure      *)
(* functions from one durable workflow state to the next.  It is used by   *)
(* the service that stores the states (WorkflowRuntime) and, through the   *)
(* sidecar checkpoint of a governed chain, by P2PPlanning.                 *)
(***************************************************************************)
EXTENDS Naturals, Sequences

CONSTANTS
    Intents,      \* governed P2P intents the Frappe planner may send
    NoIntent      \* the step carries no governed intent

StepTypes    == {"TOOL", "CLARIFICATION", "GOVERNED_ACTION"}
StepStatuses == {"PENDING", "READY", "RUNNING", "WAITING", "SUCCEEDED", "FAILED"}
Statuses     == {"READY", "RUNNING", "INTERRUPTED", "SUCCEEDED", "FAILED",
                 "CANCELLED", "EXPIRED"}
Terminal     == {"SUCCEEDED", "FAILED", "CANCELLED", "EXPIRED"}

\* mark: which of observation_digest and error the step carries.
Step == [type: StepTypes, status: StepStatuses, intent: Intents \cup {NoIntent},
         mark: {"none", "digest", "error"}]

\* cur is the index of current_step_id, 0 for None; question is the state's
\* clarification; stop says whether stop_reason is set.
Workflow == [rev: Nat, status: Statuses, cur: Nat, steps: Seq(Step),
             question: {"none", "step", "crash"}, crashed: BOOLEAN, stop: BOOLEAN]

NoWorkflow == [rev |-> 0, status |-> "READY", cur |-> 0, steps |-> <<>>,
               question |-> "none", crashed |-> FALSE, stop |-> FALSE]

----------------------------------------------------------------------------
(* The engine: pure functions from a workflow state to the next one        *)

Fresh(type, intent) ==
    [type |-> type, status |-> "PENDING", intent |-> intent, mark |-> "none"]

\* default_plan: an optional question, then one read-only tool.
DefaultPlan(asks) ==
    (IF asks THEN <<Fresh("CLARIFICATION", NoIntent)>> ELSE <<>>)
        \o <<Fresh("TOOL", NoIntent)>>

CreateState(steps) == [NoWorkflow EXCEPT !.steps = steps]

\* _replace_step; every engine function also increments the revision.
Mark(st, i, status, mark) ==
    [st EXCEPT !.rev = @ + 1, !.steps[i] = [@ EXCEPT !.status = status, !.mark = mark]]

\* ready_step: the plans are chains, step i depends on step i - 1.
Startable(st, i) ==
    /\ st.steps[i].status \in {"PENDING", "READY"}
    /\ i > 1 => st.steps[i - 1].status = "SUCCEEDED"

\* Mutant: only a WAITING current step blocks the next one.
ReadyPastRunning(st) ==
    IF \/ st.status # "RUNNING"
       \/ ~ \E i \in DOMAIN st.steps : st.steps[i].status \in {"PENDING", "READY", "RUNNING"}
    THEN 0
    ELSE CHOOSE i \in DOMAIN st.steps : st.steps[i].status \in {"PENDING", "READY", "RUNNING"}

ReadyStep(st) ==
    IF \/ st.status # "RUNNING"
       \/ st.cur # 0 /\ st.steps[st.cur].status \in {"RUNNING", "WAITING"}
       \/ ~ \E i \in DOMAIN st.steps : Startable(st, i)
    THEN 0
    ELSE CHOOSE i \in DOMAIN st.steps :
            Startable(st, i) /\ \A j \in 1..(i - 1) : ~ Startable(st, j)

Started(st) ==
    LET i == ReadyStep([st EXCEPT !.status = "RUNNING"])
    IN  [Mark(st, i, "READY", "none") EXCEPT !.status = "RUNNING"]

Begun(st) ==
    LET i == ReadyStep(st)
    IN  [Mark(st, i, "RUNNING", st.steps[i].mark) EXCEPT !.cur = i]

\* interrupt: the question of a step, or the recovery question after a crash.
Interrupted(st, q) ==
    [Mark(st, st.cur, "WAITING", st.steps[st.cur].mark)
        EXCEPT !.status = "INTERRUPTED", !.question = q]

Waiting(st) == Mark(st, st.cur, "WAITING", st.steps[st.cur].mark)

\* complete_step and complete_governed_action: success of the workflow when
\* every step succeeded, otherwise the next startable step becomes current.
Completed(st, i) ==
    LET s    == Mark(st, i, "SUCCEEDED", "digest")
        next == {j \in DOMAIN s.steps : Startable(s, j)}
    IN  IF \A j \in DOMAIN s.steps : s.steps[j].status = "SUCCEEDED"
        THEN [s EXCEPT !.status = "SUCCEEDED", !.cur = 0, !.stop = TRUE]
        ELSE [s EXCEPT !.cur = IF next = {} THEN 0
                               ELSE CHOOSE j \in next : \A k \in next : j <= k]

FailedStep(st) ==
    [Mark(st, st.cur, "FAILED", "error") EXCEPT !.status = "FAILED", !.stop = TRUE]

\* Mutant: acknowledging a crash counts as the tool's success.
ResumedAlways(st) ==
    [Mark(st, st.cur, "SUCCEEDED", "digest")
        EXCEPT !.status = "RUNNING", !.cur = 0, !.question = "none"]

\* resume: an answered question succeeds its step; a step orphaned by a crash
\* is only ever closed as failed.
Resumed(st) ==
    IF st.crashed
    THEN [FailedStep(st) EXCEPT !.question = "none"]
    ELSE [Mark(st, st.cur, "SUCCEEDED", "digest")
            EXCEPT !.status = "RUNNING", !.cur = 0, !.question = "none"]

Replanned(st, intent) ==
    [st EXCEPT !.rev = @ + 1, !.status = "RUNNING", !.cur = 0, !.question = "none",
               !.stop = FALSE, !.steps = Append(@, Fresh("GOVERNED_ACTION", intent))]

Closed(st, status) ==
    [st EXCEPT !.rev = @ + 1, !.status = status, !.stop = TRUE, !.question = "none"]

\* The shape a stored payload must have to be loaded again, and the shape the
\* Frappe boundary demands of a reply.  The engine copies states without
\* validating them, so nothing checks this when a checkpoint is saved.
WellFormed(st) ==
    /\ st.steps # <<>> /\ st.cur \in 0..Len(st.steps)
    /\ (st.status = "INTERRUPTED") <=> (st.question # "none")
    /\ st.status = "INTERRUPTED" => st.cur # 0
    /\ st.status \in Terminal => st.stop
    /\ \A i \in DOMAIN st.steps :
         /\ (st.steps[i].type = "GOVERNED_ACTION") <=> (st.steps[i].intent # NoIntent)
         /\ st.steps[i].status = "SUCCEEDED" => st.steps[i].mark = "digest"
         /\ st.steps[i].status = "FAILED"    => st.steps[i].mark = "error"
         /\ \A j \in DOMAIN st.steps :
              st.steps[i].intent = st.steps[j].intent => i = j \/ st.steps[i].intent = NoIntent
=============================================================================
