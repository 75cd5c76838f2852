-------------------------- MODULE WorkflowRuntime --------------------------
(***************************************************************************)
(* The durable Plan-and-Execute service of the Agent Runtime for ONE run:  *)
(* the checkpoint row in SQLite (revision, lease, workflow state), the     *)
(* HTTP handlers that advance it, and the process that may be killed and   *)
(* restarted between any two of their transactions.                       *)
(*                                                                         *)
(* Every handler is cut at the transactions of the checkpoint store, since *)
(* another handler (the governed completion runs in a thread pool, and the *)
(* event loop is free while a tool call is awaited) or a crash can come    *)
(* between any two of them.  A lease is named after the handler holding it *)
(* (the code draws a fresh random token; a handler holds at most one).     *)
(* Requests naming an old revision are refused without any effect, so a    *)
(* request is modelled from the point where its revision check passed.     *)
(***************************************************************************)
EXTENDS WorkflowEngine, FiniteSets

CONSTANTS
    Workers,      \* HTTP handlers that may be in flight at once
    Nobody,       \* no lease
    Asks,         \* subset of BOOLEAN: may the default plan ask a question?
    MaxRev,       \* bound: revisions of the checkpoint
    MaxRestarts   \* bound: process restarts

ASSUME WorkflowAssumption ==
    /\ Nobody \notin Workers
    /\ IsFiniteSet(Intents) /\ NoIntent \notin Intents
    /\ Asks \subseteq BOOLEAN
    /\ MaxRev \in Nat
    /\ MaxRestarts \in Nat

\* The widest plan: an optional question, the tool, one step per intent.
MaxSteps == 2 + Cardinality(Intents)

VARIABLES
    store,    \* the checkpoint row's state, NoWorkflow while there is no row
    lease,    \* [owner, live]: the row's lease_id and whether it is unexpired
    late,     \* the workflow's deadline has passed
    task,     \* [Workers -> what a handler is doing, on which copy]
    up,       \* the process is serving requests
    restarts, \* restarts so far
    called,   \* history: how often the tool of a step was dispatched
    real      \* history: steps whose answer, observation or receipt came in

vars == <<store, lease, late, task, up, restarts, called, real>>

Phases == {"idle", "advance", "interrupt", "wait", "tool", "calling", "acquire", "save"}
Ops    == {"none", "run", "p2p", "cancel", "expire", "complete", "resume"}
Idle   == [pc |-> "idle", op |-> "none", copy |-> NoWorkflow, held |-> FALSE,
           arg |-> 0, intent |-> NoIntent, answer |-> "none"]

TypeOK ==
    /\ store \in Workflow /\ store.cur <= Len(store.steps) /\ Len(store.steps) <= MaxSteps
    /\ lease \in [owner: Workers \cup {Nobody}, live: BOOLEAN]
    /\ late \in BOOLEAN /\ up \in BOOLEAN /\ restarts \in 0..MaxRestarts
    /\ called \in [1..MaxSteps -> Nat] /\ real \subseteq 1..MaxSteps
    /\ task \in [Workers -> [pc: Phases, op: Ops, copy: Workflow, held: BOOLEAN,
                             arg: 0..MaxSteps, intent: Intents \cup {NoIntent},
                             answer: {"none", "inspect", "text", "bad"}]]

Init ==
    /\ store = NoWorkflow /\ lease = [owner |-> Nobody, live |-> FALSE]
    /\ late = FALSE /\ up = TRUE /\ restarts = 0
    /\ task = [w \in Workers |-> Idle]
    /\ called = [i \in 1..MaxSteps |-> 0] /\ real = {}

----------------------------------------------------------------------------
(* The checkpoint store                                                    *)

Exists == store.steps # <<>>

NoLease == [owner |-> Nobody, live |-> FALSE]

\* save: compare-and-set on the revision, under a lease that is still live.
MaySave(w) ==
    /\ store.rev = task[w].copy.rev
    /\ lease.owner = w /\ lease.live

\* A refused save raises CheckpointConflict, which _advance re-raises without
\* releasing the lease; the other handlers release theirs.
Save(w, new, keep, then) ==
    \/ /\ MaySave(w)
       /\ store' = new
       /\ lease' = IF keep THEN [owner |-> w, live |-> TRUE] ELSE NoLease
       /\ task' = [task EXCEPT ![w] = then]
    \/ /\ ~ MaySave(w)
       /\ lease' = IF lease.owner = w /\ task[w].pc = "save" THEN NoLease ELSE lease
       /\ task' = [task EXCEPT ![w] = Idle]
       /\ UNCHANGED store

\* release_lease: the handler gives up; a lease that is not its own any more
\* is left alone.
GiveUp(w) ==
    /\ lease' = IF lease.owner = w THEN NoLease ELSE lease
    /\ task' = [task EXCEPT ![w] = Idle]
    /\ UNCHANGED store

\* acquire_lease: refused when the revision moved or a lease is live.
Acquire(w, then) ==
    \/ /\ store.rev = task[w].copy.rev /\ ~ lease.live
       /\ lease' = [owner |-> w, live |-> TRUE]
       /\ task' = [task EXCEPT ![w] = then]
       /\ UNCHANGED store
    \/ /\ store.rev # task[w].copy.rev \/ lease.live
       /\ task' = [task EXCEPT ![w] = Idle]
       /\ UNCHANGED <<store, lease>>

----------------------------------------------------------------------------
(* Requests                                                                *)

Ready(w) == up /\ task[w].pc = "idle" /\ store.rev + 3 <= MaxRev

Enter(w, pc, op, copy, arg, intent, answer) ==
    task' = [task EXCEPT ![w] =
        [pc |-> pc, op |-> op, copy |-> copy, held |-> FALSE, arg |-> arg,
         intent |-> intent, answer |-> answer]]

\* start: create the checkpoint, or load the one that exists, and advance it.
StartRequest(w, asks) ==
    /\ Ready(w)
    /\ LET st == IF Exists THEN store ELSE CreateState(DefaultPlan(asks))
       IN  store' = st /\ Enter(w, "advance", "run", st, 0, NoIntent, "none")
    /\ UNCHANGED <<lease, late, up, restarts, called, real>>

\* plan_governed_action, up to its first lease.
PlanRequest(w, intent) ==
    LET st      == IF Exists THEN store
                   ELSE CreateState(<<Fresh("GOVERNED_ACTION", intent)>>)
        busy    == st.cur # 0 /\ st.steps[st.cur].status \in {"RUNNING", "WAITING"}
        used    == \E i \in DOMAIN st.steps : st.steps[i].intent = intent
        first   == st.status = "READY" /\ Len(st.steps) = 1 /\ st.steps[1].intent = intent
        replan  == st.status \in {"RUNNING", "SUCCEEDED"} /\ ~ used
    IN  /\ Ready(w)
        /\ store' = st
        /\ \/ ~ busy /\ first /\ Enter(w, "advance", "p2p", st, 0, intent, "none")
           \/ ~ busy /\ replan /\ Enter(w, "acquire", "p2p", st, 0, intent, "none")
        /\ UNCHANGED <<lease, late, up, restarts, called, real>>

\* resume, cancel, complete_governed_action and an expiring status read load
\* the checkpoint, take its lease and save what the engine returns.
ResumeRequest(w, answer) ==
    /\ Ready(w) /\ Exists /\ store.status = "INTERRUPTED"
    /\ Enter(w, "acquire", "resume", store, 0, NoIntent, answer)
    /\ UNCHANGED <<store, lease, late, up, restarts, called, real>>

CancelRequest(w) ==
    /\ Ready(w) /\ Exists
    /\ Enter(w, "acquire", "cancel", store, 0, NoIntent, "none")
    /\ UNCHANGED <<store, lease, late, up, restarts, called, real>>

StatusRequest(w) ==
    /\ Ready(w) /\ Exists /\ late /\ store.status \notin Terminal
    /\ Enter(w, "acquire", "expire", store, 0, NoIntent, "none")
    /\ UNCHANGED <<store, lease, late, up, restarts, called, real>>

\* The receipt of a governed write, reported by Frappe for step i.
CompleteRequest(w, i) ==
    /\ Ready(w) /\ i \in DOMAIN store.steps
    /\ Enter(w, "acquire", "complete", store, i, NoIntent, "none")
    /\ UNCHANGED <<store, lease, late, up, restarts, called, real>>

TakeLease(w) ==
    /\ task[w].pc = "acquire"
    /\ Acquire(w, [task[w] EXCEPT !.pc = "save", !.held = TRUE])
    /\ UNCHANGED <<late, up, restarts, called, real>>

\* The checks of the engine function an operation calls.
Permitted(w) ==
    LET t  == task[w]
        st == t.copy
    IN  CASE t.op = "p2p"      -> /\ ~ late
                                  /\ \A i \in DOMAIN st.steps :
                                       st.steps[i].status \in {"SUCCEEDED", "PENDING", "READY"}
          [] t.op = "cancel"   -> st.status \notin Terminal
          [] t.op = "expire"   -> TRUE
          [] t.op = "complete" -> /\ ~ late /\ st.status = "RUNNING"
                                  /\ st.steps[t.arg].type = "GOVERNED_ACTION"
                                  /\ st.steps[t.arg].status = "WAITING"
          [] t.op = "resume"   -> /\ ~ late
                                  /\ IF st.question = "crash" THEN t.answer = "inspect"
                                     ELSE t.answer # "bad"

Outcome(w) ==
    LET t  == task[w]
        st == t.copy
    IN  CASE t.op = "p2p"      -> Replanned(st, t.intent)
          [] t.op = "cancel"   -> Closed(st, "CANCELLED")
          [] t.op = "expire"   -> Closed(st, "EXPIRED")
          [] t.op = "complete" -> Completed(st, t.arg)
          [] t.op = "resume"   -> Resumed(st)

\* A resumed workflow keeps its lease and is advanced; a replanned one is
\* advanced without a lease; the others answer.
After(w) ==
    LET t == task[w]
    IN  IF t.op = "p2p" \/ (t.op = "resume" /\ Outcome(w).status = "RUNNING")
        THEN [t EXCEPT !.pc = "advance", !.copy = Outcome(w), !.held = (t.op = "resume")]
        ELSE Idle

SaveRequest(w) ==
    /\ task[w].pc = "save"
    /\ \/ /\ Permitted(w)
          /\ Save(w, Outcome(w), task[w].op = "resume" /\ Outcome(w).status = "RUNNING", After(w))
          /\ real' = CASE task[w].op = "complete" -> real \cup {task[w].arg}
                       [] task[w].op = "resume" /\ ~ task[w].copy.crashed ->
                            real \cup {task[w].copy.cur}
                       [] OTHER -> real
       \/ ~ Permitted(w) /\ GiveUp(w) /\ UNCHANGED real
    /\ UNCHANGED <<late, up, restarts, called>>

----------------------------------------------------------------------------
(* _advance                                                                *)

Advancing(w) == task[w].pc = "advance"

\* Nothing to do (the workflow stopped), a running step with no durable
\* result, or no startable step: the handler answers or gives up.
Answer(w) ==
    LET st == task[w].copy
    IN  /\ Advancing(w)
        /\ st.status # "READY" /\ ReadyStep(st) = 0
        /\ GiveUp(w)
        /\ UNCHANGED <<late, up, restarts, called, real>>

AdvanceLease(w) ==
    LET st == task[w].copy
    IN  /\ Advancing(w) /\ ~ task[w].held
        /\ st.status = "READY" \/ ReadyStep(st) # 0
        /\ Acquire(w, [task[w] EXCEPT !.held = TRUE])
        /\ UNCHANGED <<late, up, restarts, called, real>>

StartWorkflow(w) ==
    LET st == task[w].copy
    IN  /\ Advancing(w) /\ task[w].held /\ st.status = "READY"
        /\ IF late THEN GiveUp(w)
           ELSE Save(w, Started(st), TRUE, [task[w] EXCEPT !.copy = Started(st)])
        /\ UNCHANGED <<late, up, restarts, called, real>>

\* begin_step is saved under the lease before anything is done for the step.
BeginStep(w) ==
    LET st    == task[w].copy
        phase == CASE st.steps[ReadyStep(st)].type = "CLARIFICATION"   -> "interrupt"
                   [] st.steps[ReadyStep(st)].type = "GOVERNED_ACTION" -> "wait"
                   [] OTHER                                            -> "tool"
    IN  /\ Advancing(w) /\ task[w].held /\ ReadyStep(st) # 0
        /\ IF late THEN GiveUp(w)
           ELSE Save(w, Begun(st), TRUE, [task[w] EXCEPT !.copy = Begun(st), !.pc = phase])
        /\ UNCHANGED <<late, up, restarts, called, real>>

AskOrWait(w) ==
    LET st == task[w].copy
    IN  /\ task[w].pc \in {"interrupt", "wait"}
        /\ IF late THEN GiveUp(w)
           ELSE Save(w, IF task[w].pc = "wait" THEN Waiting(st) ELSE Interrupted(st, "step"),
                     FALSE, Idle)
        /\ UNCHANGED <<late, up, restarts, called, real>>

\* A P2P planning request carries no capability and may not run a tool.
CallTool(w) ==
    /\ task[w].pc = "tool"
    /\ \/ /\ task[w].op # "p2p"
          /\ called' = [called EXCEPT ![task[w].copy.cur] = @ + 1]
          /\ task' = [task EXCEPT ![w].pc = "calling"]
          /\ UNCHANGED <<store, lease>>
       \/ task[w].op = "p2p" /\ GiveUp(w) /\ UNCHANGED called
    /\ UNCHANGED <<late, up, restarts, real>>

\* The tool answered; past the deadline the engine refuses the observation.
ToolAnswers(w) ==
    LET st == task[w].copy
    IN  /\ task[w].pc = "calling"
        /\ real' = real \cup {st.cur}
        /\ IF late THEN GiveUp(w)
           ELSE Save(w, Completed(st, st.cur), FALSE,
                     [task[w] EXCEPT !.copy = Completed(st, st.cur), !.pc = "advance",
                                     !.held = FALSE])
        /\ UNCHANGED <<late, up, restarts, called>>

\* A classified tool failure is saved as a durable stop; past the deadline the
\* engine raises inside the handler and the lease stays.
ToolFails(w) ==
    LET st == task[w].copy
    IN  /\ task[w].pc = "calling"
        /\ IF late THEN task' = [task EXCEPT ![w] = Idle] /\ UNCHANGED <<store, lease>>
           ELSE Save(w, FailedStep(st), FALSE, Idle)
        /\ UNCHANGED <<late, up, restarts, called, real>>

\* Any other exception of the call: the lease is released, the step stays RUNNING.
ToolBreaks(w) ==
    /\ task[w].pc = "calling"
    /\ GiveUp(w)
    /\ UNCHANGED <<late, up, restarts, called, real>>

----------------------------------------------------------------------------
(* Time, crash and restart                                                 *)

LeaseExpires ==
    /\ lease.live
    /\ lease' = [lease EXCEPT !.live = FALSE]
    /\ UNCHANGED <<store, late, task, up, restarts, called, real>>

DeadlinePasses ==
    /\ ~ late
    /\ late' = TRUE
    /\ UNCHANGED <<store, lease, task, up, restarts, called, real>>

Crash ==
    /\ up /\ restarts < MaxRestarts
    /\ up' = FALSE
    /\ task' = [w \in Workers |-> Idle]
    /\ UNCHANGED <<store, lease, late, restarts, called, real>>

\* recoverable: a checkpoint whose lease is not live and whose current step is
\* still RUNNING.
Orphaned ==
    /\ Exists /\ store.status = "RUNNING" /\ store.cur # 0
    /\ store.steps[store.cur].status = "RUNNING"

\* Startup: an orphaned step becomes a recovery question.  Past the deadline
\* the engine refuses to interrupt, the error leaves the startup handler and
\* the process does not come up.
Restart ==
    /\ ~ up /\ restarts < MaxRestarts
    /\ restarts' = restarts + 1
    /\ IF Orphaned /\ ~ lease.live
       THEN IF late
            THEN up' = FALSE /\ lease' = NoLease /\ UNCHANGED store
            ELSE /\ up' = TRUE /\ lease' = NoLease
                 /\ store' = [Interrupted(store, "crash") EXCEPT !.crashed = TRUE]
       ELSE up' = TRUE /\ UNCHANGED <<store, lease>>
    /\ UNCHANGED <<late, task, called, real>>

----------------------------------------------------------------------------
Request(w) ==
    \/ \E asks \in Asks : StartRequest(w, asks)
    \/ \E intent \in Intents : PlanRequest(w, intent)
    \/ \E answer \in {"inspect", "text", "bad"} : ResumeRequest(w, answer)
    \/ CancelRequest(w) \/ StatusRequest(w)
    \/ \E i \in 1..MaxSteps : CompleteRequest(w, i)

Handler(w) ==
    \/ TakeLease(w) \/ SaveRequest(w)
    \/ Answer(w) \/ AdvanceLease(w) \/ StartWorkflow(w) \/ BeginStep(w) \/ AskOrWait(w)
    \/ CallTool(w) \/ ToolAnswers(w) \/ ToolFails(w) \/ ToolBreaks(w)

Next ==
    \/ \E w \in Workers : Request(w) \/ Handler(w)
    \/ LeaseExpires \/ DeadlinePasses \/ Crash \/ Restart

Spec == Init /\ [][Next]_vars

----------------------------------------------------------------------------
(* Properties                                                              *)

\* A step's tool is dispatched at most once, whatever handlers race for the
\* workflow, whenever the process dies and however often start is repeated: a
\* RUNNING step without a durable result is never replayed.
DispatchedAtMostOnce == \A i \in 1..MaxSteps : called[i] <= 1

\* A step that counts as SUCCEEDED really had its tool's observation, its
\* question's answer or its governed write's receipt; a crash in between never
\* turns into a success.
NoSyntheticSuccess ==
    \A i \in DOMAIN store.steps : store.steps[i].status = "SUCCEEDED" => i \in real

\* What any sequence of handlers leaves in the store can be loaded again and
\* is accepted at the Frappe boundary, although the engine copies states
\* without validating them.
CheckpointLoads == Exists => WellFormed(store)

\* What the handlers store is of its type, can be loaded and is accepted by the
\* app, and a step it calls succeeded had its observation, answer or receipt.
CheckpointIsReal == TypeOK /\ CheckpointLoads /\ NoSyntheticSuccess

=============================================================================
