----------------------- MODULE WorkflowRuntimeProofs -----------------------
(***************************************************************************)
(* Proofs about the durable workflow service, for any number of handlers,  *)
(* intents, revisions and restarts.                                        *)
(*                                                                         *)
(* The lease plays no part in them: every save compares the revision, every *)
(* engine function increments it, and a handler's copy that has the stored *)
(* revision is the stored state (Current).  So what is saved is what the   *)
(* engine makes of the stored state, and the engine never takes back that  *)
(* a step was begun (Follows).                                             *)
(***************************************************************************)
EXTENDS WorkflowRuntime, FiniteSetTheorems, SequenceTheorems, TLAPS

Tasks == [pc: Phases, op: Ops, copy: Workflow, held: BOOLEAN, arg: 0..MaxSteps,
          intent: Intents \cup {NoIntent}, answer: {"none", "inspect", "text", "bad"}]

\* A state that can be loaded; only its first two steps may be ungoverned
Loads(st) ==
  /\ st \in Workflow /\ WellFormed(st)
  /\ \A i \in DOMAIN st.steps : i > 2 => st.steps[i].type = "GOVERNED_ACTION"

\* Step i was begun, whatever became of it
Taken(st, i) == i \in DOMAIN st.steps /\ st.steps[i].status \notin {"PENDING", "READY"}

\* An engine function goes to the next revision and keeps the steps begun
Follows(st, new) ==
  /\ new.rev = st.rev + 1
  /\ \A i \in DOMAIN st.steps : Taken(st, i) => Taken(new, i)

\* What a handler knows of its copy at each of its points
InStep(t) ==
  t.pc \in {"interrupt", "wait", "tool", "calling"} =>
    t.copy.status = "RUNNING" /\ Taken(t.copy, t.copy.cur)
InRequest(t) ==
  t.pc \in {"acquire", "save"} =>
    /\ t.op \in {"p2p", "cancel", "expire", "complete", "resume"}
    /\ t.op = "p2p" =>
         t.intent \in Intents /\ \A i \in DOMAIN t.copy.steps : t.copy.steps[i].intent # t.intent
    /\ t.op = "complete" => t.arg \in DOMAIN t.copy.steps
    /\ t.op = "resume" => t.copy.status = "INTERRUPTED"
TaskOK(t) == t \in Tasks /\ (t.pc # "idle" => Loads(t.copy)) /\ InStep(t) /\ InRequest(t)

\* A copy is the stored state or older
Current(t) ==
  t.pc # "idle" =>
    /\ Exists /\ t.copy.rev <= store.rev
    /\ t.copy.rev = store.rev => t.copy = store

Durable ==
  /\ store = NoWorkflow \/ Loads(store)
  /\ task = [w \in Workers |-> task[w]]
  /\ \A w \in Workers : TaskOK(task[w]) /\ Current(task[w])
Typed ==
  /\ lease \in [owner: Workers \cup {Nobody}, live: BOOLEAN]
  /\ late \in BOOLEAN /\ up \in BOOLEAN /\ restarts \in 0..MaxRestarts
  /\ called \in [1..MaxSteps -> Nat] /\ real \subseteq 1..MaxSteps

\* A dispatched step was begun, and a handler about to dispatch one is alone
Dispatches ==
  /\ \A i \in 1..MaxSteps : called[i] <= 1 /\ (called[i] > 0 => Taken(store, i))
  /\ \A w \in Workers : task[w].pc = "tool" =>
       Taken(store, task[w].copy.cur) /\ called[task[w].copy.cur] = 0
  /\ \A v, w \in Workers : task[v].pc = "tool" /\ task[w].pc = "tool" /\ v # w =>
       task[v].copy.cur # task[w].copy.cur

WorkflowInv == Durable /\ Typed /\ Dispatches /\ NoSyntheticSuccess

---------------------------------------------------------------------------
(***************************************************************************)
(* What the engine functions make of a state that can be loaded.           *)
(***************************************************************************)
\* new is st at the next revision, with step i (if there is one) marked
Marks(st, new, i, status, mark) ==
  /\ new \in Workflow /\ new.rev = st.rev + 1
  /\ Len(new.steps) = Len(st.steps)
  /\ \A j \in 1..Len(st.steps) :
       /\ new.steps[j].type = st.steps[j].type /\ new.steps[j].intent = st.steps[j].intent
       /\ j = i => new.steps[j].status = status /\ new.steps[j].mark = mark
       /\ j # i => new.steps[j].status = st.steps[j].status /\ new.steps[j].mark = st.steps[j].mark

\* How the other fields of a state must agree
Agrees(new) ==
  /\ new.cur \in 0..Len(new.steps)
  /\ (new.status = "INTERRUPTED") <=> (new.question # "none")
  /\ new.status = "INTERRUPTED" => new.cur # 0
  /\ new.status \in Terminal => new.stop

\* The steps after _replace_step
Replaced(st, i, status, mark) ==
  [j \in DOMAIN st.steps |->
     IF j = i THEN [st.steps[j] EXCEPT !.status = status, !.mark = mark] ELSE st.steps[j]]

OnlyReplaced(st, m, i, status, mark) ==
  /\ m \in Workflow /\ m.rev = st.rev + 1 /\ m.steps = Replaced(st, i, status, mark)
  /\ m.status = st.status /\ m.cur = st.cur /\ m.question = st.question
  /\ m.crashed = st.crashed /\ m.stop = st.stop
  /\ Len(m.steps) = Len(st.steps)

\* _replace_step changes one step and nothing else of the plan.
LEMMA MarkFields ==
  ASSUME NEW st \in Workflow, NEW i, NEW status \in StepStatuses, NEW mark,
         i \in DOMAIN st.steps => mark \in {"none", "digest", "error"},
         NEW m, m = Mark(st, i, status, mark)
  PROVE  OnlyReplaced(st, m, i, status, mark)
<1> DEFINE q == Replaced(st, i, status, mark)
<1>1. st.steps \in Seq(Step) /\ DOMAIN st.steps = 1..Len(st.steps) /\ Len(st.steps) \in Nat
  BY DEF Workflow
<1>2. \A j \in DOMAIN st.steps : st.steps[j] \in Step
  BY <1>1
<1>3. \A j \in DOMAIN st.steps : q[j] \in Step
  BY <1>2 DEF Step, Replaced
<1>4. q \in [1..Len(st.steps) -> Step]
  BY <1>1, <1>3, Zenon DEF Replaced
<1>5. q \in Seq(Step)
  BY <1>1, <1>4, SeqDef
<1>6. m = [st EXCEPT !.rev = st.rev + 1, !.steps = q]
  <2>1. [st.steps EXCEPT ![i] = [st.steps[i] EXCEPT !.status = status, !.mark = mark]] = q
    <3> DEFINE e(j) == [st.steps[j] EXCEPT !.status = status, !.mark = mark]
    <3>1. q = [j \in DOMAIN st.steps |-> IF j = i THEN e(j) ELSE st.steps[j]]
      BY DEF Replaced
    <3> HIDE DEF e
    <3>2. [st.steps EXCEPT ![i] = e(i)] = q
      BY <3>1, <1>1
    <3> QED  BY <3>2 DEF e
  <2> HIDE DEF q
  <2> QED  BY <2>1 DEF Mark, Workflow
<1>7. Len(q) = Len(st.steps)
  <2> HIDE DEF q
  <2> QED  BY <1>1, <1>4, <1>5
<1> HIDE DEF q
<1>8. /\ m \in Workflow /\ m.rev = st.rev + 1 /\ m.steps = q
      /\ m.status = st.status /\ m.cur = st.cur /\ m.question = st.question
  <2>1. m.rev = st.rev + 1 /\ m.steps = q
    BY <1>6 DEF Workflow
  <2>2. m.status = st.status /\ m.cur = st.cur /\ m.question = st.question
    BY <1>6 DEF Workflow
  <2>3. m \in Workflow
    <3> DEFINE r == st.rev + 1
    <3>1. r \in Nat
      BY DEF Workflow
    <3>2. m = [st EXCEPT !.rev = r, !.steps = q]
      BY <1>6
    <3> HIDE DEF r
    <3> QED  BY <1>5, <3>1, <3>2 DEF Workflow
  <2> QED  BY <2>1, <2>2, <2>3
<1>9. m.crashed = st.crashed /\ m.stop = st.stop
  BY <1>6, Zenon DEF Workflow
<1> QED  BY <1>7, <1>8, <1>9 DEF q, OnlyReplaced

LEMMA MarkMarks ==
  ASSUME NEW st \in Workflow, NEW i, NEW status \in StepStatuses, NEW mark,
         i \in DOMAIN st.steps => mark \in {"none", "digest", "error"},
         NEW new \in Workflow, new.rev = st.rev + 1,
         new.steps = Replaced(st, i, status, mark)
  PROVE  Marks(st, new, i, status, mark)
<1>1. st.steps \in Seq(Step) /\ DOMAIN st.steps = 1..Len(st.steps)
  BY DEF Workflow
<1>2. \A j \in DOMAIN st.steps : st.steps[j] \in Step
  BY <1>1
<1>3. new.steps = [j \in DOMAIN st.steps |-> IF j = i
                     THEN [st.steps[j] EXCEPT !.status = status, !.mark = mark] ELSE st.steps[j]]
  BY DEF Replaced
<1>4. new.steps \in Seq(Step) /\ DOMAIN new.steps = 1..Len(new.steps) /\ Len(new.steps) \in Nat
  BY DEF Workflow
<1>5. Len(new.steps) = Len(st.steps)
  <2>1. DOMAIN new.steps = DOMAIN st.steps
    BY <1>3
  <2> QED  BY <1>1, <1>4, <2>1
<1>6. ASSUME NEW j \in 1..Len(st.steps)
      PROVE  /\ new.steps[j].type = st.steps[j].type /\ new.steps[j].intent = st.steps[j].intent
             /\ j = i => new.steps[j].status = status /\ new.steps[j].mark = mark
             /\ j # i => new.steps[j].status = st.steps[j].status /\ new.steps[j].mark = st.steps[j].mark
  <2>1. st.steps[j] \in Step
    BY <1>1, <1>2
  <2>2. CASE j = i
    <3>1. new.steps[j] = [st.steps[j] EXCEPT !.status = status, !.mark = mark]
      BY <1>1, <1>3, <2>2
    <3> QED  BY <2>1, <2>2, <3>1 DEF Step
  <2>3. CASE j # i
    BY <1>1, <1>3, <2>3
  <2> QED  BY <2>2, <2>3
<1> QED  BY <1>5, <1>6 DEF Marks

LEMMA MarksLoads ==
  ASSUME NEW st, Loads(st), NEW new, NEW i, NEW status, NEW mark,
         Marks(st, new, i, status, mark), Agrees(new),
         i \in DOMAIN st.steps /\ status = "SUCCEEDED" => mark = "digest",
         i \in DOMAIN st.steps /\ status = "FAILED" => mark = "error"
  PROVE  Loads(new)
<1>1. /\ st.steps \in Seq(Step) /\ DOMAIN st.steps = 1..Len(st.steps) /\ Len(st.steps) \in Nat
      /\ new.steps \in Seq(Step) /\ DOMAIN new.steps = 1..Len(new.steps)
      /\ DOMAIN new.steps = DOMAIN st.steps
  BY DEF Loads, Marks, Workflow
<1>2. st.steps # <<>> /\ new.steps # <<>>
  BY <1>1 DEF Loads, WellFormed, Marks
<1>3. ASSUME NEW j \in DOMAIN new.steps
      PROVE  /\ (new.steps[j].type = "GOVERNED_ACTION") <=> (new.steps[j].intent # NoIntent)
             /\ new.steps[j].status = "SUCCEEDED" => new.steps[j].mark = "digest"
             /\ new.steps[j].status = "FAILED" => new.steps[j].mark = "error"
             /\ j > 2 => new.steps[j].type = "GOVERNED_ACTION"
  BY <1>1, <1>3 DEF Loads, WellFormed, Marks
<1>4. ASSUME NEW j \in DOMAIN new.steps, NEW k \in DOMAIN new.steps,
             new.steps[j].intent = new.steps[k].intent
      PROVE  j = k \/ new.steps[j].intent = NoIntent
  BY <1>1, <1>4 DEF Loads, WellFormed, Marks
<1> QED  BY <1>1, <1>2, <1>3, <1>4 DEF Loads, WellFormed, Marks, Agrees

LEMMA MarksFollows ==
  ASSUME NEW st, Loads(st), NEW new, NEW i, NEW status, NEW mark,
         Marks(st, new, i, status, mark),
         status \notin {"PENDING", "READY"} \/ ~ Taken(st, i)
  PROVE  Follows(st, new)
<1>1. DOMAIN st.steps = 1..Len(st.steps) /\ DOMAIN new.steps = DOMAIN st.steps
  BY DEF Loads, Marks, Workflow
<1> QED  BY <1>1 DEF Follows, Marks, Taken

LEMMA LeastNatural ==
  ASSUME NEW S, S \subseteq Nat, S # {}
  PROVE  \E i \in S : \A j \in S : i <= j
<1>1. PICK i \in S : \A j \in S : ~ (<<j, i>> \in OpToRel(<, Nat))
  BY WFMin, NatLessThanWellFounded
<1>2. \A j \in S : ~ (j < i)
  BY <1>1 DEF OpToRel
<1> QED  BY <1>2

\* ready_step names a step that was not begun, of a running workflow.
LEMMA ReadyStepStartable ==
  ASSUME NEW st \in Workflow, ReadyStep(st) # 0
  PROVE  /\ ReadyStep(st) \in DOMAIN st.steps /\ ~ Taken(st, ReadyStep(st))
         /\ st.status = "RUNNING"
<1> DEFINE S == {i \in DOMAIN st.steps : Startable(st, i)}
<1>1. DOMAIN st.steps = 1..Len(st.steps) /\ Len(st.steps) \in Nat
  BY DEF Workflow
<1>2. st.status = "RUNNING" /\ (\E i \in DOMAIN st.steps : Startable(st, i))
      /\ ReadyStep(st) = CHOOSE i \in DOMAIN st.steps :
                           Startable(st, i) /\ \A j \in 1..(i - 1) : ~ Startable(st, j)
  BY DEF ReadyStep
<1>3. PICK i \in S : \A j \in S : i <= j
  <2>1. S \subseteq Nat /\ S # {}
    BY <1>1, <1>2
  <2> QED  BY <2>1, LeastNatural
<1>4. Startable(st, i) /\ \A j \in 1..(i - 1) : ~ Startable(st, j)
  BY <1>1, <1>3
<1>5. ReadyStep(st) \in DOMAIN st.steps /\ Startable(st, ReadyStep(st))
  BY <1>2, <1>3, <1>4
<1> QED  BY <1>2, <1>5 DEF Startable, Taken

\* What the engine makes of a state it is given; of its steps only got may be
\* a new success
Engine(st, new, got) ==
  /\ Loads(new) /\ Follows(st, new)
  /\ \A j \in DOMAIN new.steps : new.steps[j].status = "SUCCEEDED" =>
       j = got \/ (j \in DOMAIN st.steps /\ st.steps[j].status = "SUCCEEDED")

LEMMA Replaces ==
  ASSUME NEW st, Loads(st), NEW i, NEW status \in StepStatuses, NEW mark,
         i \in DOMAIN st.steps => mark \in {"none", "digest", "error"},
         i \in DOMAIN st.steps /\ status = "SUCCEEDED" => mark = "digest",
         i \in DOMAIN st.steps /\ status = "FAILED" => mark = "error",
         status \notin {"PENDING", "READY"} \/ ~ Taken(st, i),
         NEW new \in Workflow, new.rev = st.rev + 1,
         new.steps = Replaced(st, i, status, mark), Agrees(new),
         NEW got, status = "SUCCEEDED" => got = i
  PROVE  Engine(st, new, got) /\ Marks(st, new, i, status, mark)
<1>1. st \in Workflow
  BY DEF Loads
<1>2. Marks(st, new, i, status, mark)
  BY <1>1, MarkMarks
<1>3. Loads(new)
  BY <1>2, MarksLoads
<1>4. Follows(st, new)
  BY <1>2, MarksFollows
<1>5. ASSUME NEW j \in DOMAIN new.steps, new.steps[j].status = "SUCCEEDED"
      PROVE  j = got \/ (j \in DOMAIN st.steps /\ st.steps[j].status = "SUCCEEDED")
  <2>1. DOMAIN st.steps = 1..Len(st.steps) /\ DOMAIN new.steps = DOMAIN st.steps
    BY <1>1, <1>2 DEF Marks, Workflow
  <2> QED  BY <1>2, <1>5, <2>1 DEF Marks
<1> QED  BY <1>2, <1>3, <1>4, <1>5 DEF Engine

\* The mark a step carries is a mark
LEMMA StepsTyped ==
  ASSUME NEW st \in Workflow
  PROVE  /\ st.steps \in Seq(Step) /\ DOMAIN st.steps = 1..Len(st.steps) /\ Len(st.steps) \in Nat
         /\ \A i \in DOMAIN st.steps : st.steps[i] \in Step
         /\ \A i \in DOMAIN st.steps : st.steps[i].mark \in {"none", "digest", "error"}
<1>1. st.steps \in Seq(Step)
  BY DEF Workflow
<1>2. \A i \in DOMAIN st.steps : st.steps[i] \in Step
  BY <1>1
<1>3. \A i \in DOMAIN st.steps : st.steps[i].mark \in {"none", "digest", "error"}
  BY <1>2 DEF Step
<1> QED  BY <1>1, <1>2, <1>3


LEMMA WaitingEngine ==
  ASSUME NEW st, Loads(st), NEW new, new = Waiting(st)
  PROVE  Engine(st, new, 0)
<1> DEFINE mark == st.steps[st.cur].mark
<1>1. st \in Workflow /\ WellFormed(st)
  BY DEF Loads
<1>2. st.cur \in DOMAIN st.steps => mark \in {"none", "digest", "error"}
  BY <1>1, StepsTyped
<1>3. "WAITING" \in StepStatuses
  BY DEF StepStatuses
<1>4. new = Mark(st, st.cur, "WAITING", mark)
  BY DEF Waiting
<1> HIDE DEF mark
<1>5. /\ new \in Workflow /\ new.rev = st.rev + 1
      /\ new.steps = Replaced(st, st.cur, "WAITING", mark)
      /\ new.status = st.status /\ new.cur = st.cur /\ new.question = st.question
      /\ new.stop = st.stop /\ Len(new.steps) = Len(st.steps)
  <2>1. OnlyReplaced(st, new, st.cur, "WAITING", mark)
    BY <1>1, <1>2, <1>3, <1>4, MarkFields
  <2> QED  BY <2>1 DEF OnlyReplaced
<1>6. Agrees(new)
  BY <1>1, <1>5 DEF Agrees, WellFormed
<1> QED  BY <1>2, <1>3, <1>5, <1>6, Replaces

LEMMA InterruptedEngine ==
  ASSUME NEW st, Loads(st), NEW q \in {"step", "crash"}, st.cur # 0,
         NEW new, new = Interrupted(st, q)
  PROVE  Engine(st, new, 0)
<1> DEFINE mark == st.steps[st.cur].mark
           m == Mark(st, st.cur, "WAITING", mark)
<1>1. st \in Workflow /\ WellFormed(st)
  BY DEF Loads
<1>2. st.cur \in DOMAIN st.steps => mark \in {"none", "digest", "error"}
  BY <1>1, StepsTyped
<1>3. "WAITING" \in StepStatuses
  BY DEF StepStatuses
<1>4. new = [m EXCEPT !.status = "INTERRUPTED", !.question = q]
  BY DEF Interrupted
<1> HIDE DEF mark
<1>5. OnlyReplaced(st, m, st.cur, "WAITING", mark)
  BY <1>1, <1>2, <1>3, MarkFields
<1> HIDE DEF m
<1>6. /\ m \in Workflow /\ m.rev = st.rev + 1 /\ m.cur = st.cur
      /\ m.steps = Replaced(st, st.cur, "WAITING", mark) /\ Len(m.steps) = Len(st.steps)
  BY <1>5 DEF OnlyReplaced
<1>7. /\ new \in Workflow /\ new.rev = m.rev /\ new.steps = m.steps
      /\ new.status = "INTERRUPTED" /\ new.cur = m.cur /\ new.question = q
  BY <1>4, <1>6 DEF Workflow, Statuses
<1>8. Agrees(new)
  BY <1>1, <1>6, <1>7 DEF Agrees, WellFormed, Terminal
<1>9. new.rev = st.rev + 1 /\ new.steps = Replaced(st, st.cur, "WAITING", mark)
  BY <1>6, <1>7
<1> QED  BY <1>2, <1>3, <1>7, <1>8, <1>9, Replaces

LEMMA FailedEngine ==
  ASSUME NEW st, Loads(st), NEW new \in Workflow, new.rev = st.rev + 1,
         new.steps = Replaced(st, st.cur, "FAILED", "error"), Agrees(new)
  PROVE  Engine(st, new, 0)
<1>1. "FAILED" \in StepStatuses
  BY DEF StepStatuses
<1> QED  BY <1>1, Replaces

LEMMA FailedStepEngine ==
  ASSUME NEW st, Loads(st), NEW new,
         \/ new = FailedStep(st) /\ st.question = "none"
         \/ new = [FailedStep(st) EXCEPT !.question = "none"]
  PROVE  Engine(st, new, 0) /\ new.status = "FAILED"
<1> DEFINE m == Mark(st, st.cur, "FAILED", "error")
<1>1. st \in Workflow /\ WellFormed(st)
  BY DEF Loads
<1>2. "FAILED" \in StepStatuses
  BY DEF StepStatuses
<1>3. \/ st.question = "none" /\ new = [m EXCEPT !.status = "FAILED", !.stop = TRUE]
      \/ new = [[m EXCEPT !.status = "FAILED", !.stop = TRUE] EXCEPT !.question = "none"]
  BY DEF FailedStep
<1>4. OnlyReplaced(st, m, st.cur, "FAILED", "error")
  BY <1>1, <1>2, MarkFields
<1> HIDE DEF m
<1>5. /\ m \in Workflow /\ m.rev = st.rev + 1 /\ m.cur = st.cur /\ m.question = st.question
      /\ m.steps = Replaced(st, st.cur, "FAILED", "error") /\ Len(m.steps) = Len(st.steps)
  BY <1>4 DEF OnlyReplaced
<1>6. /\ new \in Workflow /\ new.rev = m.rev /\ new.steps = m.steps
      /\ new.status = "FAILED" /\ new.cur = m.cur /\ new.question = "none"
  BY <1>3, <1>5 DEF Workflow, Statuses
<1>7. new.stop = TRUE
  BY <1>3, <1>5 DEF Workflow
<1>8. Agrees(new)
  BY <1>1, <1>5, <1>6, <1>7 DEF Agrees, WellFormed
<1>9. new.rev = st.rev + 1 /\ new.steps = Replaced(st, st.cur, "FAILED", "error")
  BY <1>5, <1>6
<1>10. Engine(st, new, 0)
  BY <1>6, <1>8, <1>9, FailedEngine
<1> QED  BY <1>6, <1>10

LEMMA ResumedEngine ==
  ASSUME NEW st, Loads(st), NEW new, new = Resumed(st)
  PROVE  /\ Engine(st, new, IF st.crashed THEN 0 ELSE st.cur)
         /\ new.status = "RUNNING" => ~ st.crashed
<1>1. CASE st.crashed
  <2>1. new = [FailedStep(st) EXCEPT !.question = "none"]
    BY <1>1 DEF Resumed
  <2>2. Engine(st, new, 0) /\ new.status = "FAILED"
    BY <2>1, FailedStepEngine
  <2> QED  BY <1>1, <2>2
<1>2. CASE ~ st.crashed
  <2> DEFINE m == Mark(st, st.cur, "SUCCEEDED", "digest")
  <2>1. st \in Workflow /\ WellFormed(st)
    BY DEF Loads
  <2>2. "SUCCEEDED" \in StepStatuses
    BY DEF StepStatuses
  <2>3. new = [m EXCEPT !.status = "RUNNING", !.cur = 0, !.question = "none"]
    BY <1>2 DEF Resumed
  <2>4. OnlyReplaced(st, m, st.cur, "SUCCEEDED", "digest")
    BY <2>1, <2>2, MarkFields
  <2> HIDE DEF m
  <2>5. /\ m \in Workflow /\ m.rev = st.rev + 1 /\ Len(m.steps) = Len(st.steps)
        /\ m.steps = Replaced(st, st.cur, "SUCCEEDED", "digest")
    BY <2>4 DEF OnlyReplaced
  <2>6. /\ new \in Workflow /\ new.rev = m.rev /\ new.steps = m.steps
        /\ new.status = "RUNNING" /\ new.cur = 0 /\ new.question = "none"
    <3>1. new.rev = m.rev /\ new.steps = m.steps
      BY <2>3, <2>5 DEF Workflow
    <3>2. new.status = "RUNNING" /\ new.cur = 0 /\ new.question = "none"
      BY <2>3, <2>5 DEF Workflow
    <3>3. new \in Workflow
      <4> DEFINE n == [m EXCEPT !.status = "RUNNING", !.cur = 0]
      <4>1. n \in Workflow
        BY <2>5 DEF Workflow, Statuses
      <4>2. new = [n EXCEPT !.question = "none"]
        BY <2>3
      <4> HIDE DEF n
      <4> QED  BY <4>1, <4>2 DEF Workflow
    <3> QED  BY <3>1, <3>2, <3>3
  <2>7. Agrees(new)
    BY <2>6 DEF Agrees, Terminal, Workflow
  <2>8. new.rev = st.rev + 1 /\ new.steps = Replaced(st, st.cur, "SUCCEEDED", "digest")
    BY <2>5, <2>6
  <2>9. Engine(st, new, st.cur)
    BY <2>2, <2>6, <2>7, <2>8, Replaces
  <2> QED  BY <1>2, <2>9
<1> QED  BY <1>1, <1>2

LEMMA CompletedEngine ==
  ASSUME NEW st, Loads(st), st.status = "RUNNING", NEW i, NEW new, new = Completed(st, i)
  PROVE  Engine(st, new, i)
<1> DEFINE m == Mark(st, i, "SUCCEEDED", "digest")
           next == {j \in DOMAIN m.steps : Startable(m, j)}
<1>1. st \in Workflow /\ WellFormed(st)
  BY DEF Loads
<1>2. "SUCCEEDED" \in StepStatuses
  BY DEF StepStatuses
<1>3. \/ new = [m EXCEPT !.status = "SUCCEEDED", !.cur = 0, !.stop = TRUE]
      \/ new = [m EXCEPT !.cur = IF next = {} THEN 0 ELSE CHOOSE j \in next : \A k \in next : j <= k]
  BY Zenon DEF Completed
<1>4. OnlyReplaced(st, m, i, "SUCCEEDED", "digest")
  BY <1>1, <1>2, MarkFields
<1> HIDE DEF m
<1>5. /\ m \in Workflow /\ m.rev = st.rev + 1 /\ Len(m.steps) = Len(st.steps)
      /\ m.steps = Replaced(st, i, "SUCCEEDED", "digest")
      /\ m.status = "RUNNING" /\ m.question = "none"
  BY <1>1, <1>4 DEF OnlyReplaced, WellFormed
<1>6. PICK c : c \in 0..Len(m.steps) /\ (\/ new = [m EXCEPT !.status = "SUCCEEDED", !.cur = 0, !.stop = TRUE]
                                       \/ new = [m EXCEPT !.cur = c])
  <2>1. DOMAIN m.steps = 1..Len(m.steps) /\ Len(m.steps) \in Nat
    BY <1>5, StepsTyped
  <2>2. CASE next = {}
    BY <1>3, <2>1, <2>2
  <2>3. CASE next # {}
    <3>1. next \subseteq DOMAIN m.steps
      OBVIOUS
    <3> HIDE DEF next
    <3>2. \E j \in next : \A k \in next : j <= k
      BY <2>1, <2>3, <3>1, LeastNatural
    <3>3. (CHOOSE j \in next : \A k \in next : j <= k) \in next
      BY <3>2
    <3> DEFINE c == CHOOSE j \in next : \A k \in next : j <= k
    <3>4. \/ new = [m EXCEPT !.status = "SUCCEEDED", !.cur = 0, !.stop = TRUE]
          \/ new = [m EXCEPT !.cur = c]
      BY <1>3, <2>3
    <3>5. c \in 0..Len(m.steps)
      BY <2>1, <3>1, <3>3
    <3> HIDE DEF c
    <3> QED  BY <3>4, <3>5
  <2> QED  BY <2>2, <2>3
<1>7. /\ new \in Workflow /\ new.rev = m.rev /\ new.steps = m.steps /\ new.question = "none"
      /\ new.status \in {"RUNNING", "SUCCEEDED"} /\ new.cur \in 0..Len(m.steps)
  <2>1. c \in Nat /\ 0 \in 0..Len(m.steps)
    BY <1>6
  <2>2. CASE new = [m EXCEPT !.status = "SUCCEEDED", !.cur = 0, !.stop = TRUE]
    <3>1. new.rev = m.rev /\ new.steps = m.steps /\ new.question = "none"
      BY <1>5, <2>2 DEF Workflow
    <3>2. new.status = "SUCCEEDED" /\ new.cur = 0
      BY <1>5, <2>2 DEF Workflow
    <3>3. new \in Workflow
      <4> DEFINE n == [m EXCEPT !.status = "SUCCEEDED", !.cur = 0]
      <4>1. n \in Workflow
        BY <1>5 DEF Workflow, Statuses
      <4>2. new = [n EXCEPT !.stop = TRUE]
        BY <2>2
      <4> HIDE DEF n
      <4> QED  BY <4>1, <4>2 DEF Workflow
    <3> QED  BY <2>1, <3>1, <3>2, <3>3
  <2>3. CASE new = [m EXCEPT !.cur = c]
    BY <1>5, <1>6, <2>1, <2>3 DEF Workflow
  <2> QED  BY <1>6, <2>2, <2>3
<1>8. new.status = "SUCCEEDED" => new.stop = TRUE
  BY <1>5, <1>6 DEF Workflow
<1>9. Agrees(new)
  BY <1>5, <1>7, <1>8 DEF Agrees, Terminal
<1>10. new.rev = st.rev + 1 /\ new.steps = Replaced(st, i, "SUCCEEDED", "digest")
  BY <1>5, <1>7
<1> QED  BY <1>2, <1>7, <1>9, <1>10, Replaces

LEMMA StartedEngine ==
  ASSUME NEW st, Loads(st), st.status = "READY", NEW new, new = Started(st)
  PROVE  Engine(st, new, 0)
<1> DEFINE run == [st EXCEPT !.status = "RUNNING"]
           i   == ReadyStep(run)
           m   == Mark(st, i, "READY", "none")
<1>1. st \in Workflow /\ WellFormed(st)
  BY DEF Loads
<1>2. "READY" \in StepStatuses
  BY DEF StepStatuses
<1>3. new = [m EXCEPT !.status = "RUNNING"]
  BY DEF Started
<1>4. run \in Workflow /\ run.steps = st.steps
  BY <1>1 DEF Workflow, Statuses
<1> HIDE DEF run
<1>5. ~ Taken(st, i)
  <2>1. CASE i = 0
    <3>1. 0 \notin DOMAIN st.steps
      BY <1>1, StepsTyped
    <3> QED  BY <2>1, <3>1 DEF Taken
  <2>2. CASE i # 0
    <3>1. ~ Taken(run, i)
      BY <1>4, <2>2, ReadyStepStartable
    <3> QED  BY <1>4, <3>1 DEF Taken
  <2> QED  BY <2>1, <2>2
<1> HIDE DEF i
<1>6. OnlyReplaced(st, m, i, "READY", "none")
  BY <1>1, <1>2, MarkFields
<1> HIDE DEF m
<1>7. /\ m \in Workflow /\ m.rev = st.rev + 1 /\ Len(m.steps) = Len(st.steps)
      /\ m.steps = Replaced(st, i, "READY", "none") /\ m.cur = st.cur /\ m.question = "none"
  BY <1>1, <1>6 DEF OnlyReplaced, WellFormed
<1>8. /\ new \in Workflow /\ new.rev = m.rev /\ new.steps = m.steps
      /\ new.status = "RUNNING" /\ new.cur = m.cur /\ new.question = "none"
  BY <1>3, <1>7 DEF Workflow, Statuses
<1>9. Agrees(new)
  BY <1>1, <1>7, <1>8 DEF Agrees, WellFormed, Terminal
<1>10. new.rev = st.rev + 1 /\ new.steps = Replaced(st, i, "READY", "none")
  BY <1>7, <1>8
<1> QED  BY <1>2, <1>5, <1>8, <1>9, <1>10, Replaces

LEMMA BegunEngine ==
  ASSUME NEW st, Loads(st), ReadyStep(st) # 0, NEW new, new = Begun(st)
  PROVE  /\ Engine(st, new, 0)
         /\ new.status = "RUNNING" /\ new.cur = ReadyStep(st)
         /\ Taken(new, new.cur) /\ ~ Taken(st, new.cur)
<1> DEFINE i    == ReadyStep(st)
           mark == st.steps[i].mark
           m    == Mark(st, i, "RUNNING", mark)
<1>1. st \in Workflow /\ WellFormed(st)
  BY DEF Loads
<1>2. i \in DOMAIN st.steps /\ ~ Taken(st, i) /\ st.status = "RUNNING"
  BY <1>1, ReadyStepStartable
<1>3. mark \in {"none", "digest", "error"} /\ "RUNNING" \in StepStatuses
  BY <1>1, <1>2, StepsTyped DEF StepStatuses
<1>4. new = [m EXCEPT !.cur = i]
  BY DEF Begun
<1>5. i \in 0..Len(st.steps) /\ i \in Nat
  BY <1>1, <1>2, StepsTyped
<1> HIDE DEF i, mark
<1>6. OnlyReplaced(st, m, i, "RUNNING", mark)
  BY <1>1, <1>3, MarkFields
<1> HIDE DEF m
<1>7. /\ m \in Workflow /\ m.rev = st.rev + 1 /\ Len(m.steps) = Len(st.steps)
      /\ m.steps = Replaced(st, i, "RUNNING", mark) /\ m.status = "RUNNING" /\ m.question = "none"
  BY <1>1, <1>2, <1>6 DEF OnlyReplaced, WellFormed
<1>8. /\ new \in Workflow /\ new.rev = m.rev /\ new.steps = m.steps
      /\ new.status = "RUNNING" /\ new.cur = i /\ new.question = "none"
  BY <1>4, <1>5, <1>7 DEF Workflow
<1>9. Agrees(new)
  BY <1>5, <1>7, <1>8 DEF Agrees, Terminal
<1>10. new.rev = st.rev + 1 /\ new.steps = Replaced(st, i, "RUNNING", mark)
  BY <1>7, <1>8
<1>11. Engine(st, new, 0) /\ Marks(st, new, i, "RUNNING", mark)
  BY <1>2, <1>3, <1>8, <1>9, <1>10, Replaces
<1>12. Taken(new, i)
  <2>1. DOMAIN st.steps = 1..Len(st.steps) /\ DOMAIN new.steps = 1..Len(new.steps)
    BY <1>1, <1>8, StepsTyped
  <2> QED  BY <1>2, <1>11, <2>1 DEF Marks, Taken
<1> QED  BY <1>2, <1>8, <1>11, <1>12 DEF i

LEMMA ClosedEngine ==
  ASSUME NEW st, Loads(st), NEW status \in {"CANCELLED", "EXPIRED"}, NEW new, new = Closed(st, status)
  PROVE  Engine(st, new, 0)
<1>1. st \in Workflow /\ WellFormed(st)
  BY DEF Loads
<1>2. new = [st EXCEPT !.rev = st.rev + 1, !.status = status, !.stop = TRUE, !.question = "none"]
  BY DEF Closed
<1>3. /\ new.rev = st.rev + 1 /\ new.steps = st.steps
      /\ new.status = status /\ new.cur = st.cur /\ new.question = "none"
  BY <1>1, <1>2 DEF Workflow
<1>4. new.stop = TRUE
  BY <1>1, <1>2 DEF Workflow
<1>5. new \in Workflow
  <2> DEFINE r == st.rev + 1
             n == [st EXCEPT !.rev = r, !.status = status]
  <2>1. r \in Nat
    BY <1>1 DEF Workflow
  <2>2. new = [n EXCEPT !.stop = TRUE, !.question = "none"]
    BY <1>2
  <2> HIDE DEF r
  <2>3. n \in Workflow
    BY <1>1, <2>1 DEF Workflow, Statuses
  <2> HIDE DEF n
  <2> QED  BY <2>2, <2>3 DEF Workflow
<1>6. Loads(new)
  BY <1>1, <1>3, <1>4, <1>5 DEF Loads, WellFormed, Terminal
<1>7. Follows(st, new)
  BY <1>3 DEF Follows, Taken
<1> QED  BY <1>3, <1>6, <1>7 DEF Engine

\* The recovery mark of a checkpoint changes nothing that is checked.
LEMMA CrashedEngine ==
  ASSUME NEW st, NEW n, Engine(st, n, 0), NEW new, new = [n EXCEPT !.crashed = TRUE]
  PROVE  Engine(st, new, 0)
<1>1. n \in Workflow /\ WellFormed(n)
  BY DEF Engine, Loads
<1>2. /\ new.rev = n.rev /\ new.steps = n.steps
      /\ new.status = n.status /\ new.cur = n.cur /\ new.question = n.question
  BY <1>1 DEF Workflow
<1>3. new.stop = n.stop
  BY <1>1, Zenon DEF Workflow
<1>4. new \in Workflow
  BY <1>1 DEF Workflow
<1> QED  BY <1>1, <1>2, <1>3, <1>4 DEF Engine, Loads, WellFormed, Follows, Taken

LEMMA ReplannedEngine ==
  ASSUME NEW st, Loads(st), NEW intent \in Intents,
         \A i \in DOMAIN st.steps : st.steps[i].intent # intent,
         NEW new, new = Replanned(st, intent)
  PROVE  Engine(st, new, 0)
<1> DEFINE e == Fresh("GOVERNED_ACTION", intent)
           q == Append(st.steps, e)
<1>1. st \in Workflow /\ WellFormed(st)
  BY DEF Loads
<1>2. /\ st.steps \in Seq(Step) /\ DOMAIN st.steps = 1..Len(st.steps) /\ Len(st.steps) \in Nat
      /\ \A i \in DOMAIN st.steps : st.steps[i] \in Step
  BY <1>1, StepsTyped
<1>3. /\ e \in Step /\ e.type = "GOVERNED_ACTION" /\ e.intent = intent /\ e.status = "PENDING"
      /\ intent # NoIntent
  BY WorkflowAssumption DEF Fresh, Step, StepTypes, StepStatuses
<1> HIDE DEF e
<1>4. /\ q \in Seq(Step) /\ Len(q) = Len(st.steps) + 1 /\ DOMAIN q = 1..(Len(st.steps) + 1)
      /\ \A i \in DOMAIN st.steps : i \in DOMAIN q /\ q[i] = st.steps[i]
      /\ q[Len(st.steps) + 1] = e
      /\ \A i \in DOMAIN q : i \in DOMAIN st.steps \/ i = Len(st.steps) + 1
  BY <1>2, <1>3
<1>5. new = [st EXCEPT !.rev = st.rev + 1, !.status = "RUNNING", !.cur = 0, !.question = "none",
                       !.stop = FALSE, !.steps = q]
  BY DEF Replanned, e
<1> HIDE DEF q
<1>6. /\ new.rev = st.rev + 1 /\ new.steps = q
      /\ new.status = "RUNNING" /\ new.cur = 0 /\ new.question = "none"
  BY <1>1, <1>5 DEF Workflow
<1>7. new \in Workflow
  <2> DEFINE r == st.rev + 1
             n == [st EXCEPT !.rev = r, !.status = "RUNNING"]
             o == [n EXCEPT !.cur = 0, !.question = "none"]
  <2>1. r \in Nat
    BY <1>1 DEF Workflow
  <2>2. new = [o EXCEPT !.stop = FALSE, !.steps = q]
    BY <1>5
  <2> HIDE DEF r
  <2>3. n \in Workflow
    BY <1>1, <2>1 DEF Workflow, Statuses
  <2> HIDE DEF n
  <2>4. o \in Workflow
    BY <2>3 DEF Workflow
  <2> HIDE DEF o
  <2> QED  BY <1>4, <2>2, <2>4 DEF Workflow
<1>8. ASSUME NEW i \in DOMAIN q
      PROVE  /\ (q[i].type = "GOVERNED_ACTION") <=> (q[i].intent # NoIntent)
             /\ q[i].status = "SUCCEEDED" => q[i].mark = "digest"
             /\ q[i].status = "FAILED" => q[i].mark = "error"
             /\ i > 2 => q[i].type = "GOVERNED_ACTION"
  BY <1>3, <1>4 DEF Loads, WellFormed
<1>9. ASSUME NEW i \in DOMAIN q, NEW j \in DOMAIN q, q[i].intent = q[j].intent
      PROVE  i = j \/ q[i].intent = NoIntent
  BY <1>1, <1>3, <1>4, <1>9 DEF WellFormed
<1>10. q # <<>> /\ 0 \in 0..Len(q)
  BY <1>2, <1>4
<1>11. Loads(new)
  BY <1>6, <1>7, <1>8, <1>9, <1>10 DEF Loads, WellFormed, Terminal
<1>12. Follows(st, new)
  BY <1>4, <1>6 DEF Follows, Taken
<1>13. ASSUME NEW j \in DOMAIN q, q[j].status = "SUCCEEDED"
       PROVE  j \in DOMAIN st.steps /\ st.steps[j].status = "SUCCEEDED"
  BY <1>3, <1>4, <1>13
<1> QED  BY <1>6, <1>11, <1>12, <1>13 DEF Engine

\* A plan that is stored for the first time can be loaded and has no step begun.
LEMMA NewPlanLoads ==
  ASSUME NEW plan, NEW new, new = CreateState(plan),
         \/ \E asks \in Asks : plan = DefaultPlan(asks)
         \/ \E intent \in Intents : plan = <<Fresh("GOVERNED_ACTION", intent)>>
  PROVE  /\ Loads(new) /\ new.rev = 0 /\ new.status = "READY"
         /\ \A i \in DOMAIN new.steps : ~ Taken(new, i)
<1> DEFINE ask == Fresh("CLARIFICATION", NoIntent)
           tool == Fresh("TOOL", NoIntent)
<1>1. /\ ask \in Step /\ ask.type = "CLARIFICATION" /\ ask.status = "PENDING" /\ ask.intent = NoIntent
      /\ tool \in Step /\ tool.type = "TOOL" /\ tool.status = "PENDING" /\ tool.intent = NoIntent
  BY DEF Fresh, Step, StepTypes, StepStatuses
<1>2. /\ plan \in Seq(Step) /\ plan # <<>> /\ Len(plan) \in 1..2 /\ DOMAIN plan = 1..Len(plan)
      /\ \A i \in DOMAIN plan :
           /\ plan[i].status = "PENDING"
           /\ (plan[i].type = "GOVERNED_ACTION") <=> (plan[i].intent # NoIntent)
      /\ \A i, j \in DOMAIN plan : plan[i].intent = plan[j].intent =>
           i = j \/ plan[i].intent = NoIntent
  <2>1. CASE \E intent \in Intents : plan = <<Fresh("GOVERNED_ACTION", intent)>>
    <3>1. PICK intent \in Intents : plan = <<Fresh("GOVERNED_ACTION", intent)>>
      BY <2>1
    <3> DEFINE e == Fresh("GOVERNED_ACTION", intent)
    <3>2. e \in Step /\ e.type = "GOVERNED_ACTION" /\ e.status = "PENDING" /\ e.intent # NoIntent
      BY WorkflowAssumption DEF Fresh, Step, StepTypes, StepStatuses
    <3>3. plan = <<e>>
      BY <3>1
    <3> HIDE DEF e
    <3> QED  BY <3>2, <3>3
  <2>2. CASE \E asks \in Asks : plan = DefaultPlan(asks)
    <3>1. plan = <<ask>> \o <<tool>> \/ plan = <<>> \o <<tool>>
      BY <2>2 DEF DefaultPlan
    <3> HIDE DEF ask, tool
    <3>2. /\ <<ask>> \in Seq(Step) /\ <<tool>> \in Seq(Step)
          /\ Len(<<ask>>) = 1 /\ Len(<<tool>>) = 1 /\ <<ask>>[1] = ask /\ <<tool>>[1] = tool
      BY <1>1
    <3>3. CASE plan = <<ask>> \o <<tool>>
      <4>1. plan \in Seq(Step) /\ Len(plan) = 2 /\ plan[1] = ask /\ plan[2] = tool
        BY <3>2, <3>3, ConcatProperties
      <4>2. DOMAIN plan = 1..2 /\ \A i \in DOMAIN plan : i = 1 \/ i = 2
        BY <4>1
      <4> QED  BY <1>1, <4>1, <4>2
    <3>4. CASE plan = <<>> \o <<tool>>
      <4>1. plan = <<tool>>
        BY <3>2, <3>4, ConcatEmptySeq
      <4> QED  BY <1>1, <4>1
    <3> QED  BY <3>1, <3>3, <3>4
  <2> QED  BY <2>1, <2>2
<1>3. /\ new \in Workflow /\ new.rev = 0 /\ new.status = "READY" /\ new.cur = 0
      /\ new.steps = plan /\ new.question = "none"
  BY <1>2 DEF CreateState, NoWorkflow, Workflow, Statuses
<1>4. Loads(new)
  <2>1. 0 \in 0..Len(plan) /\ \A i \in DOMAIN plan : ~ (i > 2)
    BY <1>2
  <2> QED  BY <1>2, <1>3, <2>1 DEF Loads, WellFormed, Terminal
<1> QED  BY <1>2, <1>3, <1>4 DEF Taken

\* A plan is no longer than one question, one tool and a step per intent.
LEMMA PlanBounded ==
  ASSUME NEW st, Loads(st)
  PROVE  /\ Len(st.steps) \in Nat /\ Len(st.steps) <= MaxSteps /\ MaxSteps \in Nat
         /\ DOMAIN st.steps \subseteq 1..MaxSteps /\ DOMAIN st.steps = 1..Len(st.steps)
<1> DEFINE n == Len(st.steps)
           f == [i \in 3..n |-> st.steps[i].intent]
<1>1. /\ st.steps \in Seq(Step) /\ DOMAIN st.steps = 1..n /\ n \in Nat
      /\ \A i \in DOMAIN st.steps : st.steps[i] \in Step
  BY StepsTyped DEF Loads
<1>2. Cardinality(Intents) \in Nat
  BY WorkflowAssumption, FS_CardinalityType
<1>3. \A i \in 3..n : st.steps[i].intent \in Intents
  BY <1>1 DEF Loads, WellFormed, Step
<1>4. \A i, j \in 3..n : st.steps[i].intent = st.steps[j].intent => i = j
  BY <1>1, <1>3, WorkflowAssumption DEF Loads, WellFormed
<1>5. f \in Injection(3..n, Intents)
  BY <1>3, <1>4 DEF Injection, IsInjective
<1>6. Cardinality(3..n) <= Cardinality(Intents)
  BY <1>5, WorkflowAssumption, FS_Injection
<1>7. Cardinality(3..n) = IF 3 > n THEN 0 ELSE n - 3 + 1
  <2>1. n \in Int /\ 3 \in Int
    BY <1>1
  <2> HIDE DEF n
  <2> QED  BY <2>1, FS_Interval
<1> QED  BY <1>1, <1>2, <1>6, <1>7 DEF MaxSteps

---------------------------------------------------------------------------
(***************************************************************************)
(* What one step of a handler does to the invariant.                       *)
(***************************************************************************)
\* w goes on with t; the store stays, or becomes what the engine makes of it
Goes(w, t, got) ==
  /\ task' = [task EXCEPT ![w] = t] /\ TaskOK(t)
  /\ \/ /\ store' = store
        /\ \/ t.pc = "idle"
           \/ task[w].pc # "idle" /\ t.copy = task[w].copy
           \/ Exists /\ t.copy = store
     \/ /\ Exists /\ Engine(store, store', got)
        /\ t.pc = "idle" \/ t.copy = store'

LEMMA IdleOK == TaskOK(Idle) /\ Idle.pc = "idle"
<1>1. NoWorkflow \in Workflow
  BY EmptySeq DEF NoWorkflow, Workflow, Statuses
<1>2. MaxSteps \in Nat
  BY WorkflowAssumption, FS_CardinalityType DEF MaxSteps
<1>3. 0 \in 0..MaxSteps
  BY <1>2
<1> HIDE DEF MaxSteps
<1>4. Idle \in Tasks
  BY <1>1, <1>3 DEF Idle, Tasks, Phases, Ops
<1> QED  BY <1>4 DEF TaskOK, InStep, InRequest, Idle

LEMMA StoreLoads ==
  ASSUME Durable, Exists
  PROVE  Loads(store) /\ store \in Workflow
BY DEF Durable, Exists, NoWorkflow, Loads

LEMMA GoesDurable ==
  ASSUME Durable, NEW w \in Workers, NEW t, NEW got, Goes(w, t, got)
  PROVE  Durable'
<1>1. task' = [v \in Workers |-> IF v = w THEN t ELSE task[v]]
  BY DEF Goes, Durable
<1>2. task' = [v \in Workers |-> task'[v]]
  BY <1>1
<1>3. store' = NoWorkflow \/ Loads(store')
  BY DEF Goes, Durable, Engine
<1>4. ASSUME NEW v \in Workers
      PROVE  TaskOK(task'[v])
  BY <1>1 DEF Goes, Durable
<1>5. ASSUME NEW v \in Workers
      PROVE  Current(task[v])'
  <2>1. CASE store' = store
    <3>1. v # w => task'[v] = task[v]
      BY <1>1
    <3>2. v = w => task'[v] = t
      BY <1>1
    <3>3. Current(task[v]) /\ Current(task[w])
      BY DEF Durable
    <3>4. CASE v # w
      BY <2>1, <3>1, <3>3, <3>4 DEF Current, Exists
    <3>5. CASE v = w
      <4>1. CASE t.pc = "idle"
        BY <3>2, <3>5, <4>1 DEF Current
      <4>2. CASE task[w].pc # "idle" /\ t.copy = task[w].copy
        BY <2>1, <3>2, <3>3, <3>5, <4>2 DEF Current, Exists
      <4>3. CASE Exists /\ t.copy = store
        <5>1. store.rev \in Nat
          BY <4>3, StoreLoads DEF Workflow
        <5> QED  BY <2>1, <3>2, <3>5, <4>3, <5>1 DEF Current, Exists
      <4>4. CASE Exists /\ Engine(store, store', got) /\ (t.pc = "idle" \/ t.copy = store')
        <5>1. store.rev \in Nat
          BY <4>4, StoreLoads DEF Workflow
        <5> QED  BY <2>1, <3>2, <3>5, <4>4, <5>1 DEF Current, Exists
      <4> QED  BY <4>1, <4>2, <4>3, <4>4 DEF Goes
    <3> QED  BY <3>4, <3>5
  <2>2. CASE Exists /\ Engine(store, store', got) /\ (t.pc = "idle" \/ t.copy = store')
    <3>1. store.rev \in Nat /\ store'.rev = store.rev + 1 /\ Exists'
      <4>1. store \in Workflow
        BY <2>2, StoreLoads
      <4>2. store'.rev = store.rev + 1 /\ WellFormed(store')
        BY <2>2 DEF Engine, Follows, Loads
      <4>3. Exists'
        BY <4>2 DEF Exists, WellFormed
      <4> QED  BY <4>1, <4>2, <4>3 DEF Workflow
    <3>2. CASE v # w
      <4>1. task'[v] = task[v] /\ Current(task[v]) /\ TaskOK(task[v])
        BY <1>1, <3>2 DEF Durable
      <4>2. task[v].pc # "idle" => task[v].copy.rev \in Nat
        BY <4>1 DEF TaskOK, Loads, Workflow
      <4> QED  BY <3>1, <4>1, <4>2 DEF Current
    <3>3. CASE v = w
      <4>1. task'[v] = t
        BY <1>1, <3>3
      <4> QED  BY <2>2, <3>1, <4>1 DEF Current
    <3> QED  BY <3>2, <3>3
  <2> QED  BY <2>1, <2>2 DEF Goes
<1> QED  BY <1>2, <1>3, <1>4, <1>5 DEF Durable

LEMMA GoesReal ==
  ASSUME NoSyntheticSuccess, NEW w \in Workers, NEW t, NEW got, Goes(w, t, got),
         real \subseteq real', store' = store \/ got = 0 \/ got \in real'
  PROVE  NoSyntheticSuccess'
<1>1. CASE store' = store
  BY <1>1 DEF NoSyntheticSuccess
<1>2. CASE Engine(store, store', got) /\ (got = 0 \/ got \in real')
  <2>1. 0 \notin DOMAIN store'.steps
    <3>1. store' \in Workflow
      BY <1>2 DEF Engine, Loads
    <3> QED  BY <3>1, StepsTyped
  <2> QED  BY <1>2, <2>1 DEF Engine, NoSyntheticSuccess
<1> QED  BY <1>1, <1>2 DEF Goes

\* Steps that were begun stay so
LEMMA GoesTaken ==
  ASSUME NEW w, NEW t, NEW got, Goes(w, t, got), NEW i, Taken(store, i)
  PROVE  Taken(store', i)
<1>1. i \in DOMAIN store.steps
  BY DEF Taken
<1> QED  BY <1>1 DEF Goes, Engine, Follows

LEMMA ToolTaken ==
  ASSUME NEW t, TaskOK(t), t.pc \in {"interrupt", "wait", "tool", "calling"}
  PROVE  /\ t.copy.cur \in 1..MaxSteps /\ t.copy.cur # 0 /\ Taken(t.copy, t.copy.cur)
         /\ t.copy.status = "RUNNING" /\ Loads(t.copy)
<1>1. Loads(t.copy) /\ Taken(t.copy, t.copy.cur) /\ t.copy.status = "RUNNING"
  BY DEF TaskOK, InStep
<1>2. t.copy.cur \in DOMAIN t.copy.steps
  BY <1>1 DEF Taken
<1>3. t.copy.cur \in 1..MaxSteps
  BY <1>1, <1>2, PlanBounded
<1>4. MaxSteps \in Nat
  BY <1>1, PlanBounded
<1> QED  BY <1>1, <1>3, <1>4

\* Nothing is dispatched, and a step about to be was begun just now
LEMMA GoesDispatches ==
  ASSUME Durable, Typed, Dispatches, NEW w \in Workers, NEW t, NEW got, Goes(w, t, got),
         called' = called,
         t.pc = "tool" =>
           /\ t.copy.cur \in 1..MaxSteps
           /\ Taken(store', t.copy.cur) /\ ~ Taken(store, t.copy.cur)
  PROVE  Dispatches'
<1>1. task' = [v \in Workers |-> IF v = w THEN t ELSE task[v]]
  BY DEF Goes, Durable
<1>2. \A i \in 1..MaxSteps : called'[i] <= 1 /\ (called'[i] > 0 => Taken(store', i))
  BY GoesTaken DEF Dispatches
<1>3. ASSUME NEW v \in Workers, task'[v].pc = "tool"
      PROVE  Taken(store', task'[v].copy.cur) /\ called'[task'[v].copy.cur] = 0
  <2>1. CASE v = w
    <3>1. task'[v] = t
      BY <1>1, <2>1
    <3>2. called[t.copy.cur] \in Nat /\ ~ (called[t.copy.cur] > 0)
      BY <1>3, <3>1 DEF Dispatches, Typed
    <3> QED  BY <1>3, <3>1, <3>2
  <2>2. CASE v # w
    <3>1. task'[v] = task[v]
      BY <1>1, <2>2
    <3>2. Taken(store, task[v].copy.cur) /\ called[task[v].copy.cur] = 0
      BY <1>3, <3>1 DEF Dispatches
    <3> QED  BY <3>1, <3>2, GoesTaken
  <2> QED  BY <2>1, <2>2
<1>4. ASSUME NEW u \in Workers, NEW v \in Workers,
             task'[u].pc = "tool", task'[v].pc = "tool", u # v
      PROVE  task'[u].copy.cur # task'[v].copy.cur
  <2>1. \A x \in Workers : x # w /\ task'[x].pc = "tool" =>
          task'[x] = task[x] /\ Taken(store, task[x].copy.cur)
    BY <1>1 DEF Dispatches
  <2>2. task'[w] = t
    BY <1>1
  <2>3. CASE u = w \/ v = w
    BY <1>4, <2>1, <2>2, <2>3
  <2>4. CASE u # w /\ v # w
    BY <1>4, <2>1, <2>4 DEF Dispatches
  <2> QED  BY <2>3, <2>4
<1> QED  BY <1>2, <1>3, <1>4 DEF Dispatches

\* A save goes through only for a copy that is the stored state, so what it
\* stores is what the engine made of that state.
LEMMA SaveGoes ==
  ASSUME Durable, Typed, NEW w \in Workers, task[w].pc # "idle",
         NEW new, NEW keep, NEW then, NEW got, Save(w, new, keep, then),
         Engine(task[w].copy, new, got),
         TaskOK(then), then.pc = "idle" \/ then.copy = new
  PROVE  \/ Goes(w, then, got) /\ store' = new /\ task[w].copy = store
         \/ Goes(w, Idle, got) /\ store' = store
<1>1. CASE MaySave(w) /\ store' = new /\ task' = [task EXCEPT ![w] = then]
  <2>1. Exists /\ task[w].copy = store
    BY <1>1 DEF MaySave, Durable, Current
  <2> QED  BY <1>1, <2>1 DEF Goes
<1>2. CASE task' = [task EXCEPT ![w] = Idle] /\ store' = store
  BY <1>2, IdleOK DEF Goes
<1> QED  BY <1>1, <1>2 DEF Save

LEMMA GiveUpGoes ==
  ASSUME NEW w \in Workers, NEW got, GiveUp(w)
  PROVE  Goes(w, Idle, got) /\ store' = store
BY IdleOK DEF GiveUp, Goes

LEMMA AcquireGoes ==
  ASSUME NEW w \in Workers, task[w].pc # "idle", NEW then, Acquire(w, then),
         TaskOK(then), then.copy = task[w].copy
  PROVE  (Goes(w, then, 0) \/ Goes(w, Idle, 0)) /\ store' = store
<1>1. CASE task' = [task EXCEPT ![w] = then] /\ store' = store
  BY <1>1 DEF Goes
<1>2. CASE task' = [task EXCEPT ![w] = Idle] /\ store' = store
  BY <1>2, IdleOK DEF Goes
<1> QED  BY <1>1, <1>2 DEF Acquire

LEMMA LeaseTyped ==
  ASSUME Typed, NEW w \in Workers, NEW new, NEW keep \in BOOLEAN, NEW then,
         Save(w, new, keep, then) \/ GiveUp(w) \/ Acquire(w, then) \/ lease' = lease
  PROVE  lease' \in [owner: Workers \cup {Nobody}, live: BOOLEAN]
<1>1. /\ [owner |-> w, live |-> TRUE] \in [owner: Workers \cup {Nobody}, live: BOOLEAN]
      /\ NoLease \in [owner: Workers \cup {Nobody}, live: BOOLEAN]
  BY DEF NoLease
<1> QED  BY <1>1 DEF Typed, Save, GiveUp, Acquire

LeaseType == [owner: Workers \cup {Nobody}, live: BOOLEAN]

\* Together: what a step of a handler that dispatches nothing has to show
LEMMA GoesInv ==
  ASSUME WorkflowInv, NEW w \in Workers, NEW t, NEW got, Goes(w, t, got),
         UNCHANGED <<late, up, restarts, called>>, lease' \in LeaseType,
         real \subseteq real', real' \subseteq 1..MaxSteps,
         store' = store \/ got = 0 \/ got \in real',
         t.pc = "tool" => Taken(store', t.copy.cur) /\ ~ Taken(store, t.copy.cur)
  PROVE  WorkflowInv'
<1>1. Durable' /\ NoSyntheticSuccess'
  BY GoesDurable, GoesReal DEF WorkflowInv
<1>2. Typed'
  BY DEF WorkflowInv, Typed, LeaseType
<1>3. Dispatches'
  <2>1. t.pc = "tool" => t.copy.cur \in 1..MaxSteps
    BY ToolTaken DEF Goes
  <2> QED  BY <2>1, GoesDispatches DEF WorkflowInv
<1> QED  BY <1>1, <1>2, <1>3 DEF WorkflowInv

\* What a step that only takes or gives up a lease has to show
LEMMA GoesQuietly ==
  ASSUME WorkflowInv, NEW w \in Workers, NEW t, Goes(w, t, 0), store' = store,
         UNCHANGED <<late, up, restarts, called>>, lease' \in LeaseType,
         real \subseteq real', real' \subseteq 1..MaxSteps, t.pc # "tool"
  PROVE  WorkflowInv'
BY GoesInv

LEMMA IdleKeeps ==
  ASSUME WorkflowInv, NEW w \in Workers, Goes(w, Idle, 0), store' = store,
         UNCHANGED <<late, up, restarts, called>>, lease' \in LeaseType,
         real \subseteq real', real' \subseteq 1..MaxSteps
  PROVE  WorkflowInv'
BY IdleOK, GoesQuietly

LEMMA GiveUpKeeps ==
  ASSUME WorkflowInv, NEW w \in Workers, GiveUp(w),
         UNCHANGED <<late, up, restarts, called>>,
         real \subseteq real', real' \subseteq 1..MaxSteps
  PROVE  WorkflowInv'
<1>1. Goes(w, Idle, 0) /\ store' = store
  BY GiveUpGoes
<1>2. lease' \in LeaseType
  BY LeaseTyped DEF WorkflowInv, LeaseType
<1> QED  BY <1>1, <1>2, IdleKeeps

\* What a save has to show of the state it stores
LEMMA SaveKeeps ==
  ASSUME WorkflowInv, NEW w \in Workers, task[w].pc # "idle",
         NEW new, NEW keep \in BOOLEAN, NEW then, NEW got, Save(w, new, keep, then),
         Engine(task[w].copy, new, got),
         TaskOK(then), then.pc = "idle" \/ then.copy = new,
         UNCHANGED <<late, up, restarts, called>>,
         real \subseteq real', real' \subseteq 1..MaxSteps,
         got = 0 \/ got \in real',
         then.pc = "tool" => Taken(new, then.copy.cur) /\ ~ Taken(task[w].copy, then.copy.cur)
  PROVE  WorkflowInv'
<1>1. lease' \in LeaseType
  BY LeaseTyped DEF WorkflowInv, LeaseType
<1>2. \/ Goes(w, then, got) /\ store' = new /\ task[w].copy = store
      \/ Goes(w, Idle, got) /\ store' = store
  BY SaveGoes DEF WorkflowInv
<1>3. CASE Goes(w, then, got) /\ store' = new /\ task[w].copy = store
  BY <1>1, <1>3, GoesInv
<1>4. CASE Goes(w, Idle, got) /\ store' = store
  <2>1. Goes(w, Idle, 0)
    BY <1>4, IdleOK DEF Goes
  <2> QED  BY <1>1, <1>4, <2>1, IdleKeeps
<1> QED  BY <1>2, <1>3, <1>4

LEMMA AcquireKeeps ==
  ASSUME WorkflowInv, NEW w \in Workers, task[w].pc # "idle", NEW then, Acquire(w, then),
         TaskOK(then), then.copy = task[w].copy, then.pc # "tool",
         UNCHANGED <<late, up, restarts, called, real>>
  PROVE  WorkflowInv'
<1>1. lease' \in LeaseType
  BY LeaseTyped DEF WorkflowInv, LeaseType
<1>2. (Goes(w, then, 0) \/ Goes(w, Idle, 0)) /\ store' = store
  BY AcquireGoes
<1>3. real' = real /\ real' \subseteq 1..MaxSteps
  BY DEF WorkflowInv, Typed
<1>4. CASE Goes(w, then, 0)
  BY <1>1, <1>2, <1>3, <1>4, GoesQuietly
<1>5. CASE Goes(w, Idle, 0)
  BY <1>1, <1>2, <1>3, <1>5, IdleKeeps
<1> QED  BY <1>2, <1>4, <1>5

---------------------------------------------------------------------------
(***************************************************************************)
(* One lemma per action.                                                   *)
(***************************************************************************)
\* The task a request starts with
Entered(pc, op, copy, arg, intent, answer) ==
  [pc |-> pc, op |-> op, copy |-> copy, held |-> FALSE, arg |-> arg, intent |-> intent,
   answer |-> answer]

LEMMA EnteredOK ==
  ASSUME NEW pc \in {"advance", "acquire"}, NEW op \in Ops, NEW copy, Loads(copy),
         NEW arg \in 0..MaxSteps, NEW intent \in Intents \cup {NoIntent},
         NEW answer \in {"none", "inspect", "text", "bad"},
         pc = "acquire" =>
           /\ op \in {"p2p", "cancel", "expire", "complete", "resume"}
           /\ op = "p2p" =>
                intent \in Intents /\ \A i \in DOMAIN copy.steps : copy.steps[i].intent # intent
           /\ op = "complete" => arg \in DOMAIN copy.steps
           /\ op = "resume" => copy.status = "INTERRUPTED",
         NEW t, t = Entered(pc, op, copy, arg, intent, answer)
  PROVE  TaskOK(t) /\ t.pc = pc /\ t.copy = copy
<1>1. /\ t.pc = pc /\ t.op = op /\ t.copy = copy /\ t.arg = arg /\ t.intent = intent
  BY DEF Entered
<1>2. copy \in Workflow
  BY DEF Loads
<1> HIDE DEF MaxSteps
<1>3. t \in Tasks
  BY <1>2 DEF Tasks, Entered, Phases
<1>4. InStep(t)
  BY <1>1 DEF InStep
<1>5. InRequest(t)
  BY <1>1 DEF InRequest
<1> QED  BY <1>1, <1>3, <1>4, <1>5 DEF TaskOK

\* A request that finds a checkpoint starts on a copy of it.
LEMMA EnterKeeps ==
  ASSUME WorkflowInv, NEW w \in Workers, Exists, NEW t, TaskOK(t), t.pc \in {"advance", "acquire"},
         t.copy = store, task' = [task EXCEPT ![w] = t],
         UNCHANGED <<store, lease, late, up, restarts, called, real>>
  PROVE  WorkflowInv'
<1>1. Goes(w, t, 0)
  BY DEF Goes
<1>2. lease' \in LeaseType /\ real' = real /\ real' \subseteq 1..MaxSteps
  BY DEF WorkflowInv, Typed, LeaseType
<1> QED  BY <1>1, <1>2, GoesQuietly

\* The first request stores its plan; no handler is under way.
LEMMA FirstPlanKeeps ==
  ASSUME WorkflowInv, NEW w \in Workers, ~ Exists, NEW t, TaskOK(t), t.pc = "advance",
         t.copy = store', task' = [task EXCEPT ![w] = t],
         Loads(store'), \A i \in DOMAIN store'.steps : ~ Taken(store', i),
         UNCHANGED <<lease, late, up, restarts, called, real>>
  PROVE  WorkflowInv'
<1>1. store.steps = <<>> /\ \A i : ~ Taken(store, i)
  BY DEF Exists, Taken
<1>2. \A v \in Workers : task[v].pc = "idle"
  BY DEF WorkflowInv, Durable, Current
<1>3. task' = [v \in Workers |-> IF v = w THEN t ELSE task[v]]
  BY DEF WorkflowInv, Durable
<1>4. Durable'
  <2>1. task' = [v \in Workers |-> task'[v]]
    BY <1>3
  <2>2. \A v \in Workers : TaskOK(task'[v])
    BY <1>3 DEF WorkflowInv, Durable
  <2>3. Exists' /\ store'.rev \in Nat
    BY DEF Exists, Loads, WellFormed, Workflow
  <2>4. ASSUME NEW v \in Workers
        PROVE  Current(task[v])'
    BY <1>2, <1>3, <2>3 DEF Current
  <2> QED  BY <2>1, <2>2, <2>4 DEF Durable
<1>5. Typed'
  BY DEF WorkflowInv, Typed
<1>6. \A v \in Workers : task'[v].pc # "tool"
  BY <1>2, <1>3
<1>7. \A i \in 1..MaxSteps : called'[i] <= 1 /\ ~ (called'[i] > 0)
  BY <1>1 DEF WorkflowInv, Dispatches
<1>8. Dispatches'
  BY <1>6, <1>7 DEF Dispatches
<1>9. NoSyntheticSuccess'
  BY DEF NoSyntheticSuccess, Taken
<1> QED  BY <1>4, <1>5, <1>8, <1>9 DEF WorkflowInv

LEMMA StartRequestKeeps ==
  ASSUME WorkflowInv, NEW w \in Workers, NEW asks \in Asks, StartRequest(w, asks)
  PROVE  WorkflowInv'
<1> DEFINE t == Entered("advance", "run", store', 0, NoIntent, "none")
<1>1. task' = [task EXCEPT ![w] = t] /\ UNCHANGED <<lease, late, up, restarts, called, real>>
  BY DEF StartRequest, Enter, Entered
<1>2. Loads(store') => TaskOK(t) /\ t.pc = "advance" /\ t.copy = store'
  <2>1. 0 \in 0..MaxSteps
    BY IdleOK DEF TaskOK, Tasks, Idle
  <2> QED  BY <2>1, EnteredOK DEF Ops
<1> HIDE DEF t
<1>3. CASE Exists
  <2>1. store' = store /\ Loads(store)
    BY <1>3, StoreLoads DEF StartRequest, WorkflowInv
  <2> QED  BY <1>1, <1>2, <1>3, <2>1, EnterKeeps
<1>4. CASE ~ Exists
  <2>1. store' = CreateState(DefaultPlan(asks))
    BY <1>4 DEF StartRequest
  <2>2. Loads(store') /\ \A i \in DOMAIN store'.steps : ~ Taken(store', i)
    BY <2>1, NewPlanLoads
  <2> QED  BY <1>1, <1>2, <1>4, <2>2, FirstPlanKeeps
<1> QED  BY <1>3, <1>4

LEMMA PlanRequestKeeps ==
  ASSUME WorkflowInv, NEW w \in Workers, NEW intent \in Intents, PlanRequest(w, intent)
  PROVE  WorkflowInv'
<1> DEFINE t(pc) == Entered(pc, "p2p", store', 0, intent, "none")
           Unused == \A i \in DOMAIN store'.steps : store'.steps[i].intent # intent
<1>1. /\ store' = IF Exists THEN store ELSE CreateState(<<Fresh("GOVERNED_ACTION", intent)>>)
      /\ \/ task' = [task EXCEPT ![w] = t("advance")]
         \/ /\ task' = [task EXCEPT ![w] = t("acquire")]
            /\ store'.status \in {"RUNNING", "SUCCEEDED"} /\ Unused
      /\ UNCHANGED <<lease, late, up, restarts, called, real>>
  BY DEF PlanRequest, Enter, Entered
<1>2. 0 \in 0..MaxSteps
  BY IdleOK DEF TaskOK, Tasks, Idle
<1>3. Loads(store') => /\ TaskOK(t("advance")) /\ t("advance").pc = "advance"
                       /\ t("advance").copy = store'
  BY <1>2, EnteredOK DEF Ops
<1>4. Loads(store') /\ Unused => /\ TaskOK(t("acquire")) /\ t("acquire").pc = "acquire"
                                 /\ t("acquire").copy = store'
  BY <1>2, EnteredOK DEF Ops
<1> HIDE DEF t
<1>5. CASE Exists
  <2>1. store' = store /\ Loads(store')
    BY <1>1, <1>5, StoreLoads DEF WorkflowInv
  <2>2. CASE task' = [task EXCEPT ![w] = t("advance")]
    BY <1>1, <1>3, <1>5, <2>1, <2>2, EnterKeeps
  <2>3. CASE task' = [task EXCEPT ![w] = t("acquire")] /\ Unused
    BY <1>1, <1>4, <1>5, <2>1, <2>3, EnterKeeps
  <2> QED  BY <1>1, <2>2, <2>3
<1>6. CASE ~ Exists
  <2>1. store' = CreateState(<<Fresh("GOVERNED_ACTION", intent)>>)
    BY <1>1, <1>6
  <2>2. /\ Loads(store') /\ store'.status = "READY"
        /\ \A i \in DOMAIN store'.steps : ~ Taken(store', i)
    BY <2>1, NewPlanLoads
  <2>3. task' = [task EXCEPT ![w] = t("advance")]
    BY <1>1, <2>2
  <2> QED  BY <1>1, <1>3, <1>6, <2>2, <2>3, FirstPlanKeeps
<1> QED  BY <1>5, <1>6

\* resume, cancel, the expiring status read and complete_governed_action
LEMMA LeaseRequestKeeps ==
  ASSUME WorkflowInv, NEW w \in Workers,
         \/ \E answer \in {"inspect", "text", "bad"} : ResumeRequest(w, answer)
         \/ CancelRequest(w) \/ StatusRequest(w)
         \/ \E i \in 1..MaxSteps : CompleteRequest(w, i)
  PROVE  WorkflowInv'
<1>1. PICK op \in {"resume", "cancel", "expire", "complete"},
           arg \in 0..MaxSteps, answer \in {"none", "inspect", "text", "bad"} :
        /\ task' = [task EXCEPT ![w] = Entered("acquire", op, store, arg, NoIntent, answer)]
        /\ Exists
        /\ op = "resume" => store.status = "INTERRUPTED"
        /\ op = "complete" => arg \in DOMAIN store.steps
        /\ UNCHANGED <<store, lease, late, up, restarts, called, real>>
  <2>1. 0 \in 0..MaxSteps /\ 1..MaxSteps \subseteq 0..MaxSteps
    BY IdleOK DEF TaskOK, Tasks, Idle
  <2>2. CASE \E answer \in {"inspect", "text", "bad"} : ResumeRequest(w, answer)
    BY <2>1, <2>2 DEF ResumeRequest, Enter, Entered
  <2>3. CASE CancelRequest(w)
    BY <2>1, <2>3 DEF CancelRequest, Enter, Entered
  <2>4. CASE StatusRequest(w)
    BY <2>1, <2>4 DEF StatusRequest, Enter, Entered
  <2>5. CASE \E i \in 1..MaxSteps : CompleteRequest(w, i)
    <3>1. PICK i \in 1..MaxSteps : CompleteRequest(w, i)
      BY <2>5
    <3>2. Exists /\ i \in DOMAIN store.steps
      BY <3>1 DEF CompleteRequest, Exists
    <3> QED  BY <2>1, <3>1, <3>2 DEF CompleteRequest, Enter, Entered
  <2> QED  BY <2>2, <2>3, <2>4, <2>5
<1> DEFINE t == Entered("acquire", op, store, arg, NoIntent, answer)
<1>2. Loads(store)
  BY <1>1, StoreLoads DEF WorkflowInv
<1>3. TaskOK(t) /\ t.pc = "acquire" /\ t.copy = store
  BY <1>1, <1>2, EnteredOK DEF Ops
<1> HIDE DEF t
<1> QED  BY <1>1, <1>3, EnterKeeps DEF t

LEMMA TakeLeaseKeeps ==
  ASSUME WorkflowInv, NEW w \in Workers, TakeLease(w)
  PROVE  WorkflowInv'
<1> DEFINE then == [task[w] EXCEPT !.pc = "save", !.held = TRUE]
<1>1. /\ task[w].pc = "acquire" /\ Acquire(w, then)
      /\ UNCHANGED <<late, up, restarts, called, real>>
  BY DEF TakeLease
<1>2. TaskOK(task[w]) /\ task[w] \in Tasks
  BY DEF WorkflowInv, Durable, TaskOK
<1>3. /\ then \in Tasks /\ then.pc = "save" /\ then.op = task[w].op /\ then.copy = task[w].copy
      /\ then.arg = task[w].arg /\ then.intent = task[w].intent
  BY <1>2 DEF Tasks, Phases
<1> HIDE DEF then
<1>4. TaskOK(then)
  BY <1>1, <1>2, <1>3 DEF TaskOK, InStep, InRequest
<1> QED  BY <1>1, <1>3, <1>4, AcquireKeeps

\* A handler goes on advancing with the state it saved.
Advances(t, new, then) ==
  \E held \in BOOLEAN : then = [t EXCEPT !.pc = "advance", !.copy = new, !.held = held]

LEMMA AdvancesOK ==
  ASSUME NEW t, t \in Tasks, NEW new, Loads(new),
         NEW then, Advances(t, new, then)
  PROVE  TaskOK(then) /\ then.pc = "advance" /\ then.copy = new
<1>0. PICK held \in BOOLEAN : then = [t EXCEPT !.pc = "advance", !.copy = new, !.held = held]
  BY DEF Advances
<1>1. new \in Workflow
  BY DEF Loads
<1>2. then.pc = "advance" /\ then.copy = new
  BY <1>0 DEF Tasks
<1> HIDE DEF MaxSteps
<1>3. then \in Tasks
  <2> DEFINE n == [t EXCEPT !.pc = "advance", !.copy = new]
  <2>1. n \in Tasks
    BY <1>1 DEF Tasks, Phases
  <2>2. then = [n EXCEPT !.held = held]
    BY <1>0
  <2> HIDE DEF n
  <2> QED  BY <2>1, <2>2 DEF Tasks
<1> QED  BY <1>2, <1>3 DEF TaskOK, InStep, InRequest

\* What the saves of one request have in common
Saves(w, new, got) ==
  /\ task[w].pc = "save" /\ Loads(task[w].copy)
  /\ Engine(task[w].copy, new, got)
  /\ \E keep \in BOOLEAN : \E then :
       /\ Save(w, new, keep, then)
       /\ then = Idle \/ (TaskOK(then) /\ then.pc = "advance" /\ then.copy = new)
  /\ real \subseteq real' /\ real' \subseteq 1..MaxSteps /\ (got = 0 \/ got \in real')
  /\ UNCHANGED <<late, up, restarts, called>>

LEMMA SavesKeeps ==
  ASSUME WorkflowInv, NEW w \in Workers, NEW new, NEW got, Saves(w, new, got)
  PROVE  WorkflowInv'
<1>0. PICK keep \in BOOLEAN : \E then :
        /\ Save(w, new, keep, then)
        /\ then = Idle \/ (TaskOK(then) /\ then.pc = "advance" /\ then.copy = new)
  BY DEF Saves
<1>1. PICK then :
        /\ Save(w, new, keep, then)
        /\ then = Idle \/ (TaskOK(then) /\ then.pc = "advance" /\ then.copy = new)
  BY <1>0
<1>2. TaskOK(then) /\ then.pc # "tool" /\ (then.pc = "idle" \/ then.copy = new)
  BY <1>1, IdleOK
<1>3. /\ task[w].pc # "idle" /\ Engine(task[w].copy, new, got)
      /\ real \subseteq real' /\ real' \subseteq 1..MaxSteps /\ (got = 0 \/ got \in real')
      /\ UNCHANGED <<late, up, restarts, called>>
  BY DEF Saves
<1> QED  BY <1>1, <1>2, <1>3, SaveKeeps

LEMMA SaveRequestKeeps ==
  ASSUME WorkflowInv, NEW w \in Workers, SaveRequest(w)
  PROVE  WorkflowInv'
<1> DEFINE t == task[w]
           st == t.copy
<1>1. t.pc = "save" /\ UNCHANGED <<late, up, restarts, called>>
  BY DEF SaveRequest
<1>2. TaskOK(t) /\ t \in Tasks /\ Loads(st) /\ real \subseteq 1..MaxSteps
  BY <1>1 DEF WorkflowInv, Durable, TaskOK, Typed
<1>3. /\ t.op \in {"p2p", "cancel", "expire", "complete", "resume"}
      /\ t.op = "p2p" =>
           t.intent \in Intents /\ \A i \in DOMAIN st.steps : st.steps[i].intent # t.intent
      /\ t.op = "complete" => t.arg \in DOMAIN st.steps
      /\ t.op = "resume" => st.status = "INTERRUPTED"
  BY <1>1, <1>2 DEF TaskOK, InRequest
<1>4. CASE ~ Permitted(w) /\ GiveUp(w) /\ UNCHANGED real
  BY <1>1, <1>2, <1>4, GiveUpKeeps
<1>5. CASE /\ Permitted(w)
           /\ Save(w, Outcome(w), t.op = "resume" /\ Outcome(w).status = "RUNNING", After(w))
           /\ real' = CASE t.op = "complete" -> real \cup {t.arg}
                        [] t.op = "resume" /\ ~ st.crashed -> real \cup {st.cur}
                        [] OTHER -> real
  <2> DEFINE keep == t.op = "resume" /\ Outcome(w).status = "RUNNING"
  <2>1. Save(w, Outcome(w), keep, After(w)) /\ keep \in BOOLEAN
    BY <1>5
  <2> HIDE DEF keep
  <2>2. CASE t.op = "p2p"
    <3>1. Outcome(w) = Replanned(st, t.intent) /\ real' = real
      BY <1>5, <2>2 DEF Outcome
    <3>2. Engine(st, Outcome(w), 0)
      BY <1>2, <1>3, <2>2, <3>1, ReplannedEngine
    <3>3. Advances(t, Outcome(w), After(w)) /\ Loads(Outcome(w))
      <4>1. After(w) = [t EXCEPT !.pc = "advance", !.copy = Outcome(w), !.held = FALSE]
        BY <2>2 DEF After
      <4>2. Advances(t, Outcome(w), After(w))
        BY <4>1, Zenon DEF Advances
      <4> QED  BY <3>2, <4>2 DEF Engine
    <3>4. TaskOK(After(w)) /\ After(w).pc = "advance" /\ After(w).copy = Outcome(w)
      BY <1>2, <3>3, AdvancesOK
    <3>5. Saves(w, Outcome(w), 0)
      BY <1>1, <1>2, <2>1, <3>1, <3>2, <3>4 DEF Saves
    <3> QED  BY <3>5, SavesKeeps
  <2>3. CASE t.op \in {"cancel", "expire"}
    <3>1. Outcome(w) = Closed(st, "CANCELLED") \/ Outcome(w) = Closed(st, "EXPIRED")
      BY <2>3 DEF Outcome
    <3>2. real' = real /\ After(w) = Idle
      BY <1>5, <2>3 DEF After
    <3>3. Engine(st, Outcome(w), 0)
      BY <1>2, <3>1, ClosedEngine
    <3>4. Saves(w, Outcome(w), 0)
      BY <1>1, <1>2, <2>1, <3>2, <3>3 DEF Saves
    <3> QED  BY <3>4, SavesKeeps
  <2>4. CASE t.op = "complete"
    <3>1. Outcome(w) = Completed(st, t.arg) /\ real' = real \cup {t.arg} /\ After(w) = Idle
      BY <1>5, <2>4 DEF Outcome, After
    <3>2. st.status = "RUNNING"
      BY <1>5, <2>4 DEF Permitted
    <3>3. Engine(st, Outcome(w), t.arg)
      BY <1>2, <3>1, <3>2, CompletedEngine
    <3>4. t.arg \in 1..MaxSteps
      BY <1>2, <1>3, <2>4, PlanBounded
    <3>5. Saves(w, Outcome(w), t.arg)
      BY <1>1, <1>2, <2>1, <3>1, <3>3, <3>4 DEF Saves
    <3> QED  BY <3>5, SavesKeeps
  <2>5. CASE t.op = "resume"
    <3> DEFINE got == IF st.crashed THEN 0 ELSE st.cur
    <3>1. Outcome(w) = Resumed(st)
      BY <2>5 DEF Outcome
    <3>2. real' = IF st.crashed THEN real ELSE real \cup {st.cur}
      BY <1>5, <2>5
    <3>3. Engine(st, Outcome(w), got)
      BY <1>2, <3>1, ResumedEngine
    <3>4. st.cur \in 1..MaxSteps
      <4>1. st.cur \in 0..Len(st.steps) /\ st.cur # 0
        BY <1>2, <1>3, <2>5 DEF Loads, WellFormed
      <4>2. Len(st.steps) \in Nat /\ Len(st.steps) <= MaxSteps /\ MaxSteps \in Nat
        BY <1>2, PlanBounded
      <4> QED  BY <4>1, <4>2
    <3>5. (Advances(t, Outcome(w), After(w)) \/ After(w) = Idle) /\ Loads(Outcome(w))
      <4>1. \/ After(w) = [t EXCEPT !.pc = "advance", !.copy = Outcome(w), !.held = TRUE]
            \/ After(w) = Idle
        BY <2>5 DEF After
      <4>2. Advances(t, Outcome(w), After(w)) \/ After(w) = Idle
        BY <4>1, Zenon DEF Advances
      <4> QED  BY <3>3, <4>2 DEF Engine
    <3>6. \/ TaskOK(After(w)) /\ After(w).pc = "advance" /\ After(w).copy = Outcome(w)
          \/ After(w) = Idle
      BY <1>2, <3>5, AdvancesOK
    <3>7. /\ real \subseteq real' /\ real' \subseteq 1..MaxSteps
          /\ got = 0 \/ got \in real'
      BY <1>2, <3>2, <3>4
    <3> HIDE DEF got
    <3>8. Saves(w, Outcome(w), got)
      BY <1>1, <1>2, <2>1, <3>3, <3>6, <3>7 DEF Saves
    <3> QED  BY <3>8, SavesKeeps
  <2> QED  BY <1>3, <2>2, <2>3, <2>4, <2>5
<1> QED  BY <1>4, <1>5 DEF SaveRequest

LEMMA AdvancingOK ==
  ASSUME WorkflowInv, NEW w \in Workers
  PROVE  /\ TaskOK(task[w]) /\ task[w] \in Tasks
         /\ task[w].pc # "idle" => Loads(task[w].copy)
         /\ lease \in LeaseType /\ real \subseteq 1..MaxSteps
BY DEF WorkflowInv, Durable, TaskOK, Typed, LeaseType

LEMMA AnswerKeeps ==
  ASSUME WorkflowInv, NEW w \in Workers, Answer(w) \/ ToolBreaks(w)
  PROVE  WorkflowInv'
<1>1. GiveUp(w) /\ UNCHANGED <<late, up, restarts, called, real>>
  BY DEF Answer, ToolBreaks
<1>2. real' = real /\ real' \subseteq 1..MaxSteps
  BY <1>1, AdvancingOK
<1> QED  BY <1>1, <1>2, GiveUpKeeps

LEMMA AdvanceLeaseKeeps ==
  ASSUME WorkflowInv, NEW w \in Workers, AdvanceLease(w)
  PROVE  WorkflowInv'
<1> DEFINE then == [task[w] EXCEPT !.held = TRUE]
<1>1. /\ task[w].pc = "advance" /\ Acquire(w, then)
      /\ UNCHANGED <<late, up, restarts, called, real>>
  BY DEF AdvanceLease, Advancing
<1>2. TaskOK(task[w]) /\ task[w] \in Tasks /\ Loads(task[w].copy)
  BY <1>1, AdvancingOK
<1>3. then \in Tasks /\ then.pc = "advance" /\ then.copy = task[w].copy
  BY <1>1, <1>2 DEF Tasks
<1> HIDE DEF then
<1>4. TaskOK(then)
  BY <1>2, <1>3 DEF TaskOK, InStep, InRequest
<1> QED  BY <1>1, <1>3, <1>4, AcquireKeeps

LEMMA StartWorkflowKeeps ==
  ASSUME WorkflowInv, NEW w \in Workers, StartWorkflow(w)
  PROVE  WorkflowInv'
<1> DEFINE st == task[w].copy
           new == Started(st)
           then == [task[w] EXCEPT !.copy = new]
<1>1. /\ task[w].pc = "advance" /\ st.status = "READY"
      /\ GiveUp(w) \/ Save(w, new, TRUE, then)
      /\ UNCHANGED <<late, up, restarts, called, real>>
  BY DEF StartWorkflow, Advancing
<1>2. /\ TaskOK(task[w]) /\ task[w] \in Tasks /\ Loads(st)
      /\ real' = real /\ real' \subseteq 1..MaxSteps
  BY <1>1, AdvancingOK
<1>3. Engine(st, new, 0)
  BY <1>1, <1>2, StartedEngine
<1> HIDE DEF new
<1>4. new \in Workflow /\ Loads(new)
  BY <1>3 DEF Engine, Loads
<1>5. then \in Tasks /\ then.pc = "advance" /\ then.copy = new
  BY <1>1, <1>2, <1>4 DEF Tasks
<1> HIDE DEF then
<1>6. TaskOK(then)
  BY <1>4, <1>5 DEF TaskOK, InStep, InRequest
<1>7. CASE GiveUp(w)
  BY <1>1, <1>2, <1>7, GiveUpKeeps
<1>8. CASE Save(w, new, TRUE, then)
  <2>1. PICK keep \in BOOLEAN : Save(w, new, keep, then)
    BY <1>8
  <2> QED  BY <1>1, <1>2, <1>3, <1>5, <1>6, <2>1, SaveKeeps
<1> QED  BY <1>1, <1>7, <1>8

\* begin_step: only here does a handler come to a step it may dispatch.
LEMMA BeginStepKeeps ==
  ASSUME WorkflowInv, NEW w \in Workers, BeginStep(w)
  PROVE  WorkflowInv'
<1> DEFINE st == task[w].copy
           new == Begun(st)
<1>1. PICK phase \in {"interrupt", "wait", "tool"} :
        /\ task[w].pc = "advance" /\ ReadyStep(st) # 0
        /\ GiveUp(w) \/ Save(w, new, TRUE, [task[w] EXCEPT !.copy = new, !.pc = phase])
        /\ UNCHANGED <<late, up, restarts, called, real>>
  BY DEF BeginStep, Advancing
<1> DEFINE then == [task[w] EXCEPT !.copy = new, !.pc = phase]
<1>2. /\ TaskOK(task[w]) /\ task[w] \in Tasks /\ Loads(st)
      /\ real' = real /\ real' \subseteq 1..MaxSteps
  BY <1>1, AdvancingOK
<1>3. /\ Engine(st, new, 0) /\ new.status = "RUNNING"
      /\ Taken(new, new.cur) /\ ~ Taken(st, new.cur)
  BY <1>1, <1>2, BegunEngine
<1> HIDE DEF new
<1>4. new \in Workflow /\ Loads(new)
  BY <1>3 DEF Engine, Loads
<1>5. then \in Tasks /\ then.pc = phase /\ then.copy = new
  BY <1>1, <1>2, <1>4 DEF Tasks, Phases
<1>6. CASE GiveUp(w)
  BY <1>1, <1>2, <1>6, GiveUpKeeps
<1>7. CASE Save(w, new, TRUE, then)
  <2>1. PICK keep \in BOOLEAN : Save(w, new, keep, then)
    BY <1>7
  <2> HIDE DEF then
  <2>2. TaskOK(then)
    BY <1>3, <1>4, <1>5 DEF TaskOK, InStep, InRequest
  <2> QED  BY <1>1, <1>2, <1>3, <1>5, <2>1, <2>2, SaveKeeps
<1> QED  BY <1>1, <1>6, <1>7

LEMMA AskOrWaitKeeps ==
  ASSUME WorkflowInv, NEW w \in Workers, AskOrWait(w)
  PROVE  WorkflowInv'
<1> DEFINE st == task[w].copy
           new == IF task[w].pc = "wait" THEN Waiting(st) ELSE Interrupted(st, "step")
<1>1. /\ task[w].pc \in {"interrupt", "wait"}
      /\ new = Waiting(st) \/ new = Interrupted(st, "step")
      /\ GiveUp(w) \/ Save(w, new, FALSE, Idle)
      /\ UNCHANGED <<late, up, restarts, called, real>>
  BY DEF AskOrWait
<1> HIDE DEF new
<1>2. TaskOK(task[w]) /\ Loads(st) /\ real' = real /\ real' \subseteq 1..MaxSteps
  BY <1>1, AdvancingOK
<1>3. st.cur # 0
  BY <1>1, <1>2, ToolTaken
<1>4. Engine(st, new, 0)
  BY <1>1, <1>2, <1>3, WaitingEngine, InterruptedEngine
<1>5. CASE GiveUp(w)
  BY <1>1, <1>2, <1>5, GiveUpKeeps
<1>6. CASE Save(w, new, FALSE, Idle)
  <2>1. PICK keep \in BOOLEAN : Save(w, new, keep, Idle)
    BY <1>6
  <2> QED  BY <1>1, <1>2, <1>4, <2>1, IdleOK, SaveKeeps
<1> QED  BY <1>1, <1>5, <1>6

\* A tool is called for a step that was never dispatched and that no other
\* handler is about to dispatch.
LEMMA CallToolKeeps ==
  ASSUME WorkflowInv, NEW w \in Workers, CallTool(w)
  PROVE  WorkflowInv'
<1> DEFINE cur == task[w].copy.cur
           then == [task[w] EXCEPT !.pc = "calling"]
<1>1. task[w].pc = "tool" /\ UNCHANGED <<late, up, restarts, real>>
  BY DEF CallTool
<1>2. /\ TaskOK(task[w]) /\ task[w] \in Tasks
      /\ lease \in LeaseType /\ real' = real /\ real' \subseteq 1..MaxSteps
  BY <1>1, AdvancingOK
<1>3. CASE GiveUp(w) /\ UNCHANGED called
  BY <1>1, <1>2, <1>3, GiveUpKeeps
<1>4. CASE /\ called' = [called EXCEPT ![cur] = @ + 1]
           /\ task' = [task EXCEPT ![w].pc = "calling"]
           /\ UNCHANGED <<store, lease>>
  <2>1. task' = [task EXCEPT ![w] = then]
    BY <1>4
  <2>2. then \in Tasks /\ then.pc = "calling" /\ then.copy = task[w].copy
    BY <1>2 DEF Tasks, Phases
  <2> HIDE DEF then
  <2>3. TaskOK(then)
    BY <1>1, <1>2, <2>2 DEF TaskOK, InStep, InRequest
  <2>4. Goes(w, then, 0) /\ store' = store
    BY <1>1, <1>4, <2>1, <2>2, <2>3 DEF Goes
  <2>5. Durable' /\ NoSyntheticSuccess'
    BY <1>2, <2>4, GoesDurable, GoesReal DEF WorkflowInv
  <2>6. cur \in 1..MaxSteps /\ called \in [1..MaxSteps -> Nat]
    BY <1>1, <1>2, ToolTaken DEF WorkflowInv, Typed
  <2>7. /\ called' \in [1..MaxSteps -> Nat]
        /\ called'[cur] = called[cur] + 1
        /\ \A i \in 1..MaxSteps : i # cur => called'[i] = called[i]
    <3> HIDE DEF cur, MaxSteps
    <3> QED  BY <1>4, <2>6
  <2>8. Typed'
    BY <1>1, <1>2, <1>4, <2>7 DEF WorkflowInv, Typed
  <2>9. task' = [v \in Workers |-> IF v = w THEN then ELSE task[v]]
    BY <2>1 DEF WorkflowInv, Durable
  <2>10. Taken(store, cur) /\ called[cur] = 0
    BY <1>1 DEF WorkflowInv, Dispatches
  <2>11. \A v \in Workers : task'[v].pc = "tool" => v # w /\ task'[v] = task[v]
    BY <2>2, <2>9
  <2>12. \A v \in Workers : task'[v].pc = "tool" =>
           /\ task[v].copy.cur # cur /\ task[v].copy.cur \in 1..MaxSteps
           /\ called'[task[v].copy.cur] = 0 /\ Taken(store, task[v].copy.cur)
    <3>1. \A v \in Workers : task[v].pc = "tool" => task[v].copy.cur \in 1..MaxSteps
      BY AdvancingOK, ToolTaken
    <3> QED  BY <1>1, <2>7, <2>11, <3>1 DEF WorkflowInv, Dispatches
  <2>13. \A i \in 1..MaxSteps : called'[i] <= 1 /\ (called'[i] > 0 => Taken(store, i))
    BY <2>7, <2>10 DEF WorkflowInv, Dispatches
  <2>14. store' = store
    BY <1>4
  <2>15. \A u, v \in Workers : task'[u].pc = "tool" /\ task'[v].pc = "tool" /\ u # v =>
           task'[u].copy.cur # task'[v].copy.cur
    BY <2>11 DEF WorkflowInv, Dispatches
  <2>16. Dispatches'
    BY <2>11, <2>12, <2>13, <2>14, <2>15 DEF Dispatches
  <2> QED  BY <2>5, <2>8, <2>16 DEF WorkflowInv
<1> QED  BY <1>3, <1>4 DEF CallTool

LEMMA ToolAnswersKeeps ==
  ASSUME WorkflowInv, NEW w \in Workers, ToolAnswers(w)
  PROVE  WorkflowInv'
<1> DEFINE st == task[w].copy
           new == Completed(st, st.cur)
           then == [task[w] EXCEPT !.copy = new, !.pc = "advance", !.held = FALSE]
<1>1. /\ task[w].pc = "calling" /\ real' = real \cup {st.cur}
      /\ GiveUp(w) \/ Save(w, new, FALSE, then)
      /\ UNCHANGED <<late, up, restarts, called>>
  BY DEF ToolAnswers
<1>2. /\ TaskOK(task[w]) /\ task[w] \in Tasks /\ Loads(st) /\ st.status = "RUNNING"
      /\ st.cur \in 1..MaxSteps
  BY <1>1, AdvancingOK, ToolTaken
<1>3. real \subseteq real' /\ real' \subseteq 1..MaxSteps /\ st.cur \in real'
  BY <1>1, <1>2, AdvancingOK
<1>4. Engine(st, new, st.cur)
  BY <1>2, CompletedEngine
<1> HIDE DEF new
<1>5. Advances(task[w], new, then)
  <2>1. then = [task[w] EXCEPT !.pc = "advance", !.copy = new, !.held = FALSE]
    BY <1>2 DEF Tasks
  <2> HIDE DEF then
  <2> QED  BY <2>1, Zenon DEF Advances
<1>6. TaskOK(then) /\ then.pc = "advance" /\ then.copy = new
  <2> HIDE DEF then
  <2> QED  BY <1>2, <1>4, <1>5, AdvancesOK DEF Engine
<1>7. CASE GiveUp(w)
  BY <1>1, <1>3, <1>7, GiveUpKeeps
<1>8. CASE Save(w, new, FALSE, then)
  <2> HIDE DEF then
  <2>1. PICK keep \in BOOLEAN : Save(w, new, keep, then)
    BY <1>8
  <2> QED  BY <1>1, <1>3, <1>4, <1>6, <2>1, SaveKeeps
<1> QED  BY <1>1, <1>7, <1>8

LEMMA ToolFailsKeeps ==
  ASSUME WorkflowInv, NEW w \in Workers, ToolFails(w)
  PROVE  WorkflowInv'
<1> DEFINE st == task[w].copy
           new == FailedStep(st)
<1>1. /\ task[w].pc = "calling"
      /\ \/ task' = [task EXCEPT ![w] = Idle] /\ UNCHANGED <<store, lease>>
         \/ Save(w, new, FALSE, Idle)
      /\ UNCHANGED <<late, up, restarts, called, real>>
  BY DEF ToolFails
<1>2. /\ Loads(st) /\ st.status = "RUNNING" /\ lease \in LeaseType
      /\ real' = real /\ real' \subseteq 1..MaxSteps
  BY <1>1, AdvancingOK, ToolTaken
<1>3. st.question = "none"
  BY <1>2 DEF Loads, WellFormed
<1>4. Engine(st, new, 0)
  BY <1>2, <1>3, FailedStepEngine
<1> HIDE DEF new
<1>5. CASE task' = [task EXCEPT ![w] = Idle] /\ UNCHANGED <<store, lease>>
  <2>1. Goes(w, Idle, 0)
    BY <1>5, IdleOK DEF Goes
  <2> QED  BY <1>1, <1>2, <1>5, <2>1, IdleKeeps
<1>6. CASE Save(w, new, FALSE, Idle)
  <2>1. PICK keep \in BOOLEAN : Save(w, new, keep, Idle)
    BY <1>6
  <2> QED  BY <1>1, <1>2, <1>4, <2>1, IdleOK, SaveKeeps
<1> QED  BY <1>1, <1>5, <1>6

\* Time and a crash leave the store alone.
LEMMA TimeKeeps ==
  ASSUME WorkflowInv, LeaseExpires \/ DeadlinePasses
  PROVE  WorkflowInv'
<1>1. UNCHANGED <<store, task, up, restarts, called, real>>
  BY DEF LeaseExpires, DeadlinePasses
<1>2. Durable' /\ Dispatches' /\ NoSyntheticSuccess'
  BY <1>1 DEF WorkflowInv, Durable, TaskOK, InStep, InRequest, Current, Exists, Dispatches,
              NoSyntheticSuccess
<1>3. Typed'
  BY <1>1 DEF WorkflowInv, Typed, LeaseExpires, DeadlinePasses
<1> QED  BY <1>2, <1>3 DEF WorkflowInv

LEMMA CrashKeeps ==
  ASSUME WorkflowInv, Crash
  PROVE  WorkflowInv'
<1>1. task' = [w \in Workers |-> Idle] /\ up' = FALSE
      /\ UNCHANGED <<store, lease, late, restarts, called, real>>
  BY DEF Crash
<1>2. \A w \in Workers : task'[w] = Idle /\ TaskOK(task'[w]) /\ task'[w].pc = "idle"
  BY <1>1, IdleOK
<1>3. Durable'
  <2>1. task' = [w \in Workers |-> task'[w]]
    BY <1>1
  <2>2. \A w \in Workers : Current(task[w])'
    BY <1>2 DEF Current
  <2> QED  BY <1>1, <1>2, <2>1, <2>2 DEF WorkflowInv, Durable
<1>4. Typed'
  BY <1>1 DEF WorkflowInv, Typed
<1>5. Dispatches' /\ NoSyntheticSuccess'
  BY <1>1, <1>2 DEF WorkflowInv, Dispatches, NoSyntheticSuccess
<1> QED  BY <1>3, <1>4, <1>5 DEF WorkflowInv

\* Startup turns an orphaned step into a question, at the next revision.
LEMMA RestartKeeps ==
  ASSUME WorkflowInv, Restart
  PROVE  WorkflowInv'
<1>1. /\ restarts < MaxRestarts /\ restarts' = restarts + 1
      /\ UNCHANGED <<late, task, called, real>>
      /\ up' \in BOOLEAN /\ lease' \in {lease, NoLease}
      /\ \/ store' = store
         \/ /\ Orphaned
            /\ store' = [Interrupted(store, "crash") EXCEPT !.crashed = TRUE]
  BY DEF Restart, WorkflowInv, Typed
<1>2. Typed'
  <2>1. NoLease \in LeaseType
    BY DEF NoLease, LeaseType
  <2>2. restarts' \in 0..MaxRestarts
    BY <1>1, WorkflowAssumption DEF WorkflowInv, Typed
  <2> QED  BY <1>1, <2>1, <2>2 DEF WorkflowInv, Typed, LeaseType
<1>3. CASE store' = store
  <2>1. Durable' /\ Dispatches' /\ NoSyntheticSuccess'
    BY <1>1, <1>3 DEF WorkflowInv, Durable, TaskOK, InStep, InRequest, Current, Exists,
                      Dispatches, NoSyntheticSuccess
  <2> QED  BY <1>2, <2>1 DEF WorkflowInv
<1>4. CASE Orphaned /\ store' = [Interrupted(store, "crash") EXCEPT !.crashed = TRUE]
  <2>1. Exists /\ store.cur # 0 /\ Loads(store) /\ store \in Workflow
    BY <1>4, StoreLoads DEF Orphaned, WorkflowInv
  <2>2. Engine(store, Interrupted(store, "crash"), 0)
    BY <2>1, InterruptedEngine
  <2>3. Engine(store, store', 0)
    <3> DEFINE n == Interrupted(store, "crash")
    <3>1. Engine(store, n, 0) /\ store' = [n EXCEPT !.crashed = TRUE]
      BY <1>4, <2>2
    <3> HIDE DEF n
    <3> QED  BY <3>1, CrashedEngine
  <2>4. /\ Loads(store') /\ store'.rev = store.rev + 1 /\ store.rev \in Nat
        /\ \A i : Taken(store, i) => Taken(store', i)
    BY <2>1, <2>3 DEF Engine, Follows, Taken, Workflow
  <2>5. Exists'
    BY <2>4 DEF Exists, Loads, WellFormed
  <2>6. ASSUME NEW w \in Workers
        PROVE  TaskOK(task'[w]) /\ Current(task[w])'
    <3>1. TaskOK(task[w]) /\ Current(task[w]) /\ task'[w] = task[w]
      BY <1>1 DEF WorkflowInv, Durable
    <3>2. task[w].pc # "idle" => task[w].copy.rev \in Nat
      BY <3>1 DEF TaskOK, Loads, Workflow
    <3> QED  BY <2>4, <2>5, <3>1, <3>2 DEF Current
  <2>7. Durable'
    BY <1>1, <2>4, <2>6 DEF WorkflowInv, Durable
  <2>8. Dispatches'
    BY <1>1, <2>4 DEF WorkflowInv, Dispatches
  <2>9. NoSyntheticSuccess'
    <3>1. 0 \notin DOMAIN store'.steps
      BY <2>4, StepsTyped DEF Loads
    <3> QED  BY <1>1, <2>3, <3>1 DEF Engine, WorkflowInv, NoSyntheticSuccess
  <2> QED  BY <1>2, <2>7, <2>8, <2>9 DEF WorkflowInv
<1> QED  BY <1>1, <1>3, <1>4

LEMMA InitWorkflow ==
  ASSUME Init
  PROVE  WorkflowInv
<1>1. MaxSteps \in Nat
  BY WorkflowAssumption, FS_CardinalityType DEF MaxSteps
<1> HIDE DEF MaxSteps
<1>2. \A w \in Workers : TaskOK(task[w]) /\ task[w].pc = "idle"
  BY IdleOK DEF Init
<1>3. Durable
  BY <1>2 DEF Init, Durable, Current
<1>4. Typed
  <2>1. restarts \in 0..MaxRestarts
    BY WorkflowAssumption DEF Init
  <2>2. lease \in [owner: Workers \cup {Nobody}, live: BOOLEAN] /\ late \in BOOLEAN /\ up \in BOOLEAN
    BY DEF Init
  <2>3. called \in [1..MaxSteps -> Nat] /\ real \subseteq 1..MaxSteps
    BY DEF Init
  <2> QED  BY <2>1, <2>2, <2>3 DEF Typed
<1>5. Dispatches
  BY <1>2 DEF Init, Dispatches
<1>6. NoSyntheticSuccess
  BY DEF Init, NoSyntheticSuccess, NoWorkflow
<1> QED  BY <1>3, <1>4, <1>5, <1>6 DEF WorkflowInv

LEMMA NextWorkflow ==
  ASSUME WorkflowInv, [Next]_vars
  PROVE  WorkflowInv'
<1>1. ASSUME NEW w \in Workers, Request(w)
      PROVE  WorkflowInv'
  BY <1>1, StartRequestKeeps, PlanRequestKeeps, LeaseRequestKeeps DEF Request
<1>2. ASSUME NEW w \in Workers, Handler(w)
      PROVE  WorkflowInv'
  BY <1>2, TakeLeaseKeeps, SaveRequestKeeps, AnswerKeeps, AdvanceLeaseKeeps, StartWorkflowKeeps,
     BeginStepKeeps, AskOrWaitKeeps, CallToolKeeps, ToolAnswersKeeps, ToolFailsKeeps DEF Handler
<1>3. CASE UNCHANGED vars
  BY <1>3 DEF vars, WorkflowInv, Durable, TaskOK, InStep, InRequest, Current, Exists, Typed,
              Dispatches, NoSyntheticSuccess
<1> QED  BY <1>1, <1>2, <1>3, TimeKeeps, CrashKeeps, RestartKeeps DEF Next

---------------------------------------------------------------------------
(***************************************************************************)
(* The theorems.                                                           *)
(***************************************************************************)
\* _advance saves begin_step before it calls a tool, and never calls one for a
\* step that is RUNNING already: no step's tool is dispatched twice, whatever
\* handlers race, whichever lease expires and whenever the process dies.
THEOREM ToolsDispatchedOnce == Spec => []DispatchedAtMostOnce
<1>1. WorkflowInv => DispatchedAtMostOnce
  BY DEF WorkflowInv, Dispatches, DispatchedAtMostOnce
<1> QED  BY InitWorkflow, NextWorkflow, <1>1, PTL DEF Spec

\* Whatever handlers leave in the checkpoint row is of its type, is loaded
\* again by the next one and accepted by the app, and its SUCCEEDED steps had
\* their observation, answer or receipt.
THEOREM CheckpointsAreReal == Spec => []CheckpointIsReal
<1>1. ASSUME WorkflowInv
      PROVE  CheckpointIsReal
  <2>1. store \in Workflow /\ store.cur <= Len(store.steps) /\ Len(store.steps) <= MaxSteps
    <3>1. CASE store = NoWorkflow
      <4>1. NoWorkflow \in Workflow /\ NoWorkflow.cur = 0 /\ NoWorkflow.steps = <<>>
        BY EmptySeq DEF NoWorkflow, Workflow, Statuses
      <4>2. MaxSteps \in Nat
        BY WorkflowAssumption, FS_CardinalityType DEF MaxSteps
      <4> HIDE DEF MaxSteps
      <4> QED  BY <3>1, <4>1, <4>2
    <3>2. CASE Loads(store)
      BY <3>2, PlanBounded DEF Loads, WellFormed
    <3> QED  BY <1>1, <3>1, <3>2 DEF WorkflowInv, Durable
  <2>2. task \in [Workers -> Tasks]
    BY <1>1 DEF WorkflowInv, Durable, TaskOK
  <2>3. TypeOK
    BY <1>1, <2>1, <2>2 DEF WorkflowInv, Typed, TypeOK, Tasks
  <2>4. CheckpointLoads
    BY <1>1 DEF WorkflowInv, Durable, CheckpointLoads, Exists, NoWorkflow, Loads
  <2> QED  BY <1>1, <2>3, <2>4 DEF WorkflowInv, CheckpointIsReal
<1> QED  BY InitWorkflow, NextWorkflow, <1>1, PTL DEF Spec
=============================================================================
