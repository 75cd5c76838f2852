------------------------- MODULE P2PPlanningProofs -------------------------
(***************************************************************************)
(* One candidate and one draft at a time, whatever the planner requests of *)
(* a Run read before they got its lock.  The argument has three parts:     *)
(*                                                                         *)
(*  - a request whose snapshot holds an Action plans only if no Action was *)
(*    saved since, so what it saw of decisions and drafts is still true;   *)
(*  - a request whose snapshot is empty plans version 0 of the Run, and    *)
(*    the checkpoint takes such a step only if nothing was planned yet or  *)
(*    everything planned is done;                                          *)
(*  - an Action that is still open is the checkpoint's current step, and   *)
(*    drafts come from Actions that were planned when there was none.      *)
(***************************************************************************)
EXTENDS P2PPlanning, FiniteSetTheorems, SequenceTheorems, WellFoundedInduction, TLAPS

PCs == {"idle", "lock", "plan", "insert"}
Operations == {"none", "investigate", "resume", "confirm", "finalize", "cancel"}

\* The Run as a request read it; before that, NoRequest's.
SeenRun == [state: RunStates, ver: Nat, goal: Nat, target: Nat]
Snapshot == [pc: PCs, op: Operations, run: SeenRun, docs: Seq(Doc), actions: Seq(Action),
             stale: BOOLEAN]

Types ==
    /\ run \in [state: RunStates, ver: Nat, goal: 1..MaxGoal, target: Targets]
    /\ docs \in Seq(Doc) /\ actions \in Seq(Action) /\ Len(actions) <= MaxActions
    /\ sidecar \in W!Workflow
    /\ lock \in Requests \cup {NoHolder}
    /\ req \in [Requests -> Snapshot]

Drafts(ds) == {i \in DOMAIN ds : ds[i].governed /\ ~ ds[i].submitted}

\* Who plans holds the lock.
Holds == \A q \in Requests : req[q].pc \in {"plan", "insert"} <=> lock = q

\* A Run moves before its first receipt, and nothing else moves it while it is open.
RunHistory ==
    /\ actions = <<>> => /\ run.state \in {"PROPOSED", "CANCELLED"}
                         /\ run.state = "PROPOSED" => run.ver = 0
    /\ run.state \in {"EXECUTING", "RECONCILIATION_REQUIRED", "SUCCEEDED"} => run.ver >= 1
    /\ \A k \in DOMAIN actions : actions[k].receipt # "none" => run.ver >= 1

----------------------------------------------------------------------------
(* What a request saw                                                      *)

\* A row of the snapshot and the row now: only a decision can have been lost.
Kept(old, new) ==
    /\ new.intent = old.intent /\ new.n = old.n /\ new.receipt = old.receipt
    /\ new.tgt = old.tgt /\ new.step = old.step
    /\ new.state \in OpenStates => old.state \in OpenStates

\* Nobody saved an Action since the snapshot, if it had one.
Current(q) ==
    /\ req[q].actions # <<>>
    /\ req[q].pc \in {"plan", "insert"} \/ (req[q].pc = "lock" /\ ~ req[q].stale)

\* The Actions and documents now, against those of a snapshot.
Match(as, ds, nowAs, nowDs) ==
    /\ Len(nowAs) = Len(as)
    /\ \A k \in DOMAIN nowAs : Kept(as[k], nowAs[k])
    /\ \A i \in Drafts(nowDs) : i \in DOMAIN ds /\ ~ ds[i].submitted /\ ds[i].kind = nowDs[i].kind

Agrees(q) == Match(req[q].actions, req[q].docs, actions, docs)

Seen(q) ==
    req[q].pc # "idle" =>
        /\ req[q].actions = <<>> => req[q].run.ver = 0 /\ req[q].run.state = "PROPOSED"
        /\ req[q].run.state # "PROPOSED" => req[q].run.ver >= 1
        /\ \A k \in DOMAIN req[q].actions :
             req[q].actions[k].receipt # "none" => req[q].run.ver >= 1
        /\ req[q].docs # <<>> /\ Len(req[q].docs) <= Len(docs)

Ahead(q) ==
    req[q].pc = "insert" =>
        /\ NextIntent(req[q].run, req[q].actions, req[q].docs) # {}
        /\ \A k \in DOMAIN req[q].actions : ~ Open(req[q].actions[k])

Snapshots == \A q \in Requests : Seen(q) /\ Ahead(q) /\ (Current(q) => Agrees(q))

----------------------------------------------------------------------------
(* Actions and documents                                                   *)

Landed(a) == a.receipt \in {"ok", "uncertain"}

Books ==
    /\ docs # <<>> /\ ~ docs[1].governed
    /\ \A k \in DOMAIN actions :
         /\ actions[k].intent.src \in DOMAIN docs
         /\ Succeeded(actions[k]) => actions[k].state = "EXECUTED"
         /\ Landed(actions[k]) => actions[k].tgt \in DOMAIN docs
         /\ Landed(actions[k]) /\ actions[k].intent.type \in Submits
              => docs[actions[k].intent.src].submitted
    /\ \A i \in Drafts(docs) : \E k \in DOMAIN actions :
         /\ actions[k].intent.type \in Creates /\ Landed(actions[k]) /\ actions[k].tgt = i
         /\ Kind(actions[k].intent.type) = docs[i].kind

----------------------------------------------------------------------------
(* Actions and the checkpoint                                              *)

Done(s) == /\ s.status = "SUCCEEDED" /\ s.cur = 0 /\ s.steps # <<>>
           /\ \A i \in DOMAIN s.steps : s.steps[i].status = "SUCCEEDED"
Expecting(s) == /\ s.status = "RUNNING" /\ s.steps # <<>> /\ s.cur = Len(s.steps)
                /\ s.steps[s.cur].status = "WAITING"
                /\ \A i \in DOMAIN s.steps : i # s.cur => s.steps[i].status = "SUCCEEDED"

Checkpoint == sidecar = W!NoWorkflow \/ Expecting(sidecar) \/ Done(sidecar)

Steps ==
    /\ \A k \in DOMAIN actions :
         /\ actions[k].step \in DOMAIN sidecar.steps
         /\ sidecar.steps[actions[k].step].intent = actions[k].intent
         /\ Open(actions[k]) => actions[k].step = sidecar.cur
         /\ actions[k].n = 1 => actions[k].intent.ver = 0
    /\ \A i \in DOMAIN sidecar.steps : sidecar.steps[i].intent.ver = 0 =>
         \E k \in DOMAIN actions : actions[k].n = 1 /\ actions[k].intent = sidecar.steps[i].intent

OneOpen == \A k, l \in DOMAIN actions : Open(actions[k]) /\ Open(actions[l]) => k = l

----------------------------------------------------------------------------
(* Drafts                                                                  *)

Drafting ==
    /\ \A i, j \in Drafts(docs) : i = j
    /\ \A k \in DOMAIN actions :
         actions[k].state \in OpenStates /\ actions[k].receipt = "none"
           /\ actions[k].intent.type \in Creates => Drafts(docs) = {}
    /\ Done(sidecar) /\ Drafts(docs) # {} =>
         \E q \in Requests : req[q].pc = "insert" /\ req[q].actions # <<>>

PlanningInv ==
    /\ Types /\ Holds /\ RunHistory /\ Snapshots /\ Books /\ Checkpoint /\ Steps
    /\ SidecarFollowsReceipts /\ OneOpen /\ Drafting

----------------------------------------------------------------------------
(* Numbers, sequences and quantities                                       *)

LEMMA LeastNatural ==
  ASSUME NEW S, S \subseteq Nat, S # {}
  PROVE  \E i \in S : \A j \in S : i <= j
<1>1. PICK i \in S : \A j \in S : ~ (<<j, i>> \in OpToRel(<, Nat))
  BY WFMin, NatLessThanWellFounded
<1>2. \A j \in S : ~ (j < i)
  BY <1>1 DEF OpToRel
<1> QED  BY <1>2

LEMMA GreatestIndex ==
  ASSUME NEW n \in Nat, NEW S, S \subseteq 1..n, S # {}
  PROVE  \E i \in S : \A j \in S : j <= i
<1> DEFINE Left == {n - j : j \in S}
<1>1. Left \subseteq Nat /\ Left # {}
  <2>1. ASSUME NEW m \in Left PROVE m \in Nat
    <3>1. PICK j \in S : m = n - j
      BY <2>1
    <3>2. j \in 1..n
      OBVIOUS
    <3> QED  BY <3>1, <3>2
  <2>2. PICK j \in S : TRUE
    OBVIOUS
  <2>3. n - j \in Left
    OBVIOUS
  <2> QED  BY <2>1, <2>3
<1>2. PICK m \in Left : \A l \in Left : m <= l
  BY <1>1, LeastNatural
<1>3. PICK i \in S : m = n - i
  BY <1>2
<1>4. ASSUME NEW j \in S PROVE j <= i
  <2>1. n - j \in Left
    OBVIOUS
  <2> QED  BY <1>2, <1>3, <2>1
<1> QED  BY <1>4

\* Oldest finds a document of the set.
LEMMA OldestIn ==
  ASSUME NEW S, S \subseteq Nat, S # {}
  PROVE  Oldest(S) \in S
BY LeastNatural DEF Oldest

LEMMA SeqDomain ==
  ASSUME NEW T, NEW s \in Seq(T)
  PROVE  /\ Len(s) \in Nat /\ DOMAIN s = 1..Len(s)
         /\ \A i \in DOMAIN s : s[i] \in T /\ i \in Nat \ {0}
         /\ s = <<>> <=> Len(s) = 0
         /\ s # <<>> <=> 1 \in DOMAIN s
OBVIOUS

LEMMA AppendFields ==
  ASSUME NEW T, NEW s \in Seq(T), NEW e \in T
  PROVE  /\ Append(s, e) \in Seq(T) /\ Len(Append(s, e)) = Len(s) + 1
         /\ DOMAIN Append(s, e) = DOMAIN s \cup {Len(s) + 1} /\ Len(s) + 1 \notin DOMAIN s
         /\ \A i \in DOMAIN s : Append(s, e)[i] = s[i]
         /\ Append(s, e)[Len(s) + 1] = e
         /\ Append(s, e) # <<>>
OBVIOUS

LEMMA UpdateFields ==
  ASSUME NEW T, NEW s \in Seq(T), NEW k \in DOMAIN s, NEW e \in T
  PROVE  /\ [s EXCEPT ![k] = e] \in Seq(T) /\ Len([s EXCEPT ![k] = e]) = Len(s)
         /\ DOMAIN [s EXCEPT ![k] = e] = DOMAIN s
         /\ \A i \in DOMAIN s : [s EXCEPT ![k] = e][i] = IF i = k THEN e ELSE s[i]
OBVIOUS

LEMMA RowsFields ==
  ASSUME NEW T, NEW s \in Seq(T), NEW f, DOMAIN f = DOMAIN s,
         f = [i \in DOMAIN f |-> f[i]], \A i \in DOMAIN s : f[i] \in T
  PROVE  f \in Seq(T) /\ Len(f) = Len(s)
<1>1. f \in [1..Len(s) -> T]
  OBVIOUS
<1> QED  BY <1>1

\* A total is a number.
LEMMA TotalNatural ==
  ASSUME NEW ds \in Seq(Doc), NEW S, S \subseteq DOMAIN ds
  PROVE  Total(ds, S) \in Nat
<1> DEFINE boxes == {{i} \X (1..ds[i].qty) : i \in S}
           box == [i \in S |-> {i} \X (1..ds[i].qty)]
<1>1. IsFiniteSet(S)
  <2>1. DOMAIN ds = 1..Len(ds) /\ Len(ds) \in Int /\ 1 \in Int
    OBVIOUS
  <2>2. IsFiniteSet(1..Len(ds))
    BY <2>1, FS_Interval
  <2> QED  BY <2>1, <2>2, FS_Subset
<1>2. IsFiniteSet(boxes)
  <2>1. box \in Surjection(S, boxes)
    BY DEF Surjection
  <2> HIDE DEF boxes, box
  <2> QED  BY <1>1, <2>1, FS_Surjection
<1>3. \A T \in boxes : IsFiniteSet(T)
  <2>1. ASSUME NEW i \in S PROVE IsFiniteSet({i} \X (1..ds[i].qty))
    <3>1. ds[i] \in Doc /\ 1 \in Int
      OBVIOUS
    <3>4. ds[i].qty \in Int
      BY <3>1, PlanningAssumption DEF Doc
    <3>2. IsFiniteSet({i})
      BY FS_Singleton
    <3>3. IsFiniteSet(1..ds[i].qty)
      BY <3>1, <3>4, FS_Interval
    <3> QED  BY <3>2, <3>3, FS_Product
  <2> QED  BY <2>1
<1>4. IsFiniteSet(UNION boxes)
  <2> HIDE DEF boxes
  <2> QED  BY <1>2, <1>3, FS_UNION
<1> QED  BY <1>4, FS_CardinalityType DEF Total

----------------------------------------------------------------------------
(* What the engine makes of the sidecar's checkpoint                       *)

\* Everything is done but a last step, which may start.
Upcoming(s) ==
  /\ s \in W!Workflow /\ s.status = "RUNNING" /\ s.cur = 0 /\ s.steps # <<>>
  /\ s.steps[Len(s.steps)].status \in {"PENDING", "READY"}
  /\ \A i \in DOMAIN s.steps : i # Len(s.steps) => s.steps[i].status = "SUCCEEDED"

LEMMA MarkFields ==
  ASSUME NEW st \in W!Workflow, NEW i \in DOMAIN st.steps, NEW status \in W!StepStatuses,
         NEW mark \in {"none", "digest", "error"}, NEW m, m = W!Mark(st, i, status, mark)
  PROVE  /\ m \in W!Workflow /\ m.status = st.status /\ m.cur = st.cur
         /\ Len(m.steps) = Len(st.steps) /\ DOMAIN m.steps = DOMAIN st.steps /\ m.steps # <<>>
         /\ \A j \in DOMAIN st.steps :
              /\ m.steps[j].intent = st.steps[j].intent
              /\ m.steps[j].status = IF j = i THEN status ELSE st.steps[j].status
<1> DEFINE row == [st.steps[i] EXCEPT !.status = status, !.mark = mark]
           new == [st.steps EXCEPT ![i] = row]
           r == st.rev + 1
<1>1. st.steps \in Seq(W!Step) /\ st.steps[i] \in W!Step /\ r \in Nat
  BY DEF W!Workflow
<1>2. row \in W!Step /\ row.intent = st.steps[i].intent /\ row.status = status
  BY <1>1 DEF W!Step
<1>3. m = [st EXCEPT !.rev = r, !.steps = new]
  BY DEF W!Mark, W!Workflow
<1> HIDE DEF row, r
<1>4. /\ new \in Seq(W!Step) /\ Len(new) = Len(st.steps) /\ DOMAIN new = DOMAIN st.steps
      /\ \A j \in DOMAIN st.steps : new[j] = IF j = i THEN row ELSE st.steps[j]
  BY <1>1, <1>2, UpdateFields
<1> HIDE DEF new
<1>5. m \in W!Workflow /\ m.status = st.status /\ m.cur = st.cur /\ m.steps = new
  BY <1>1, <1>3, <1>4 DEF W!Workflow
<1>6. new # <<>>
  BY <1>4
<1> QED  BY <1>2, <1>4, <1>5, <1>6

\* The last step is what starts.
LEMMA UpcomingStarts ==
  ASSUME NEW s, Upcoming(s)
  PROVE  W!ReadyStep(s) = Len(s.steps) /\ Len(s.steps) \in DOMAIN s.steps
<1> DEFINE last == Len(s.steps)
<1>1. DOMAIN s.steps = 1..last /\ last \in Nat /\ last # 0
  BY DEF Upcoming, W!Workflow
<1>2. W!Startable(s, last)
  BY <1>1 DEF Upcoming, W!Startable
<1>3. \A i \in DOMAIN s.steps : i # last => ~ W!Startable(s, i)
  BY <1>1 DEF Upcoming, W!Startable
<1>4. W!ReadyStep(s) = CHOOSE i \in DOMAIN s.steps :
                         W!Startable(s, i) /\ \A j \in 1..(i - 1) : ~ W!Startable(s, j)
  BY <1>1, <1>2 DEF Upcoming, W!ReadyStep
<1>5. W!Startable(s, last) /\ \A j \in 1..(last - 1) : ~ W!Startable(s, j)
  BY <1>1, <1>2, <1>3
<1> HIDE DEF last
<1>6. W!ReadyStep(s) = last
  BY <1>1, <1>3, <1>4, <1>5
<1> QED  BY <1>1, <1>6 DEF last

LEMMA UpcomingAwaited ==
  ASSUME NEW s, Upcoming(s)
  PROVE  /\ Awaited(s) \in W!Workflow /\ Expecting(Awaited(s))
         /\ DOMAIN Awaited(s).steps = DOMAIN s.steps
         /\ Len(Awaited(s).steps) = Len(s.steps)
         /\ \A j \in DOMAIN s.steps : Awaited(s).steps[j].intent = s.steps[j].intent
<1> DEFINE last == Len(s.steps)
           a == W!Mark(s, last, "RUNNING", s.steps[last].mark)
           b == W!Begun(s)
           c == W!Waiting(b)
<1>1. s \in W!Workflow /\ W!ReadyStep(s) = last /\ last \in DOMAIN s.steps
      /\ s.steps[last].mark \in {"none", "digest", "error"}
  <2>1. s \in W!Workflow /\ W!ReadyStep(s) = last /\ last \in DOMAIN s.steps
    BY UpcomingStarts DEF Upcoming
  <2> HIDE DEF last
  <2>2. s.steps[last] \in W!Step
    BY <2>1 DEF W!Workflow
  <2> QED  BY <2>1, <2>2 DEF W!Step
<1>2. /\ a \in W!Workflow /\ a.status = s.status /\ Len(a.steps) = last
      /\ DOMAIN a.steps = DOMAIN s.steps
      /\ \A j \in DOMAIN s.steps : /\ a.steps[j].intent = s.steps[j].intent
                                   /\ j # last => a.steps[j].status = s.steps[j].status
  <2>1. "RUNNING" \in W!StepStatuses
    BY DEF W!StepStatuses
  <2>2. PICK m : m = a
    OBVIOUS
  <2> HIDE DEF last, a
  <2>3. m = W!Mark(s, last, "RUNNING", s.steps[last].mark)
    BY <2>2 DEF a
  <2>4. /\ m \in W!Workflow /\ m.status = s.status /\ Len(m.steps) = Len(s.steps)
        /\ DOMAIN m.steps = DOMAIN s.steps
        /\ \A j \in DOMAIN s.steps : /\ m.steps[j].intent = s.steps[j].intent
                                     /\ j # last => m.steps[j].status = s.steps[j].status
    <3>1. s \in W!Workflow /\ last \in DOMAIN s.steps
      BY <1>1
    <3>2. PICK mark \in {"none", "digest", "error"} : mark = s.steps[last].mark
      BY <1>1
    <3>3. m = W!Mark(s, last, "RUNNING", mark)
      BY <2>3, <3>2
    <3> QED  BY <2>1, <3>1, <3>3, MarkFields
  <2> QED  BY <2>2, <2>4 DEF last
<1>3. b = [a EXCEPT !.cur = last]
  BY <1>1 DEF W!Begun
<1> HIDE DEF a, b
<1>4. /\ b \in W!Workflow /\ b.status = s.status /\ b.cur = last /\ b.steps = a.steps
  <2>1. last \in Nat
    BY <1>1 DEF W!Workflow
  <2> HIDE DEF last
  <2> QED  BY <1>2, <1>3, <2>1 DEF W!Workflow
<1>5. b.steps[last].mark \in {"none", "digest", "error"}
  <2> HIDE DEF last
  <2>1. b.steps[last] \in W!Step
    BY <1>1, <1>2, <1>4 DEF W!Workflow
  <2> QED  BY <2>1 DEF W!Step
<1>6. c = W!Mark(b, last, "WAITING", b.steps[last].mark)
  BY <1>4 DEF W!Waiting
<1> HIDE DEF c
<1>7. /\ c \in W!Workflow /\ c.status = b.status /\ c.cur = b.cur
      /\ Len(c.steps) = Len(b.steps) /\ DOMAIN c.steps = DOMAIN b.steps /\ c.steps # <<>>
      /\ \A j \in DOMAIN b.steps : /\ c.steps[j].intent = b.steps[j].intent
                                   /\ c.steps[j].status = IF j = last THEN "WAITING" ELSE b.steps[j].status
  <2>1. "WAITING" \in W!StepStatuses
    BY DEF W!StepStatuses
  <2>2. last \in DOMAIN b.steps
    BY <1>1, <1>2, <1>4
  <2> HIDE DEF last
  <2>3. PICK m : m = c
    OBVIOUS
  <2>4. m = W!Mark(b, last, "WAITING", b.steps[last].mark)
    BY <1>6, <2>3
  <2>5. /\ m \in W!Workflow /\ m.status = b.status /\ m.cur = b.cur
        /\ Len(m.steps) = Len(b.steps) /\ DOMAIN m.steps = DOMAIN b.steps /\ m.steps # <<>>
        /\ \A j \in DOMAIN b.steps :
             /\ m.steps[j].intent = b.steps[j].intent
             /\ m.steps[j].status = IF j = last THEN "WAITING" ELSE b.steps[j].status
    <3>1. b \in W!Workflow
      BY <1>4
    <3>2. PICK mark \in {"none", "digest", "error"} : mark = b.steps[last].mark
      BY <1>5
    <3>3. m = W!Mark(b, last, "WAITING", mark)
      BY <2>4, <3>2
    <3> QED  BY <2>1, <2>2, <3>1, <3>3, MarkFields
  <2> QED  BY <2>3, <2>5
<1>8. c = Awaited(s)
  BY DEF Awaited, b, c
<1>9. Expecting(c)
  <2> HIDE DEF last
  <2> QED  BY <1>1, <1>2, <1>4, <1>7 DEF Expecting, Upcoming, last
<1> QED
  <2> HIDE DEF last
  <2> QED  BY <1>2, <1>4, <1>7, <1>8, <1>9 DEF last

\* A new checkpoint and a replanned one have a last step that may start.
LEMMA StartedUpcoming ==
  ASSUME NEW c \in CandidateIntents,
         NEW s, s = W!Started(W!CreateState(<<W!Fresh("GOVERNED_ACTION", c)>>))
  PROVE  Upcoming(s) /\ Len(s.steps) = 1 /\ s.steps[1].intent = c
<1> DEFINE fresh == W!Fresh("GOVERNED_ACTION", c)
           plan == <<fresh>>
           ready == W!CreateState(plan)
           begun == [ready EXCEPT !.status = "RUNNING"]
           m == W!Mark(ready, W!ReadyStep(begun), "READY", "none")
<1>1. fresh \in W!Step /\ fresh.intent = c /\ fresh.status = "PENDING"
  BY DEF W!Step, W!StepTypes, W!StepStatuses, W!Fresh
<1>2. s = [m EXCEPT !.status = "RUNNING"]
  BY DEF W!Started
<1> HIDE DEF fresh
<1>3. plan \in Seq(W!Step) /\ Len(plan) = 1 /\ plan[1] = fresh /\ plan # <<>> /\ DOMAIN plan = {1}
  BY <1>1
<1> HIDE DEF plan, m
<1>4. ready \in W!Workflow /\ ready.cur = 0 /\ ready.steps = plan
  <2>1. /\ W!NoWorkflow \in W!Workflow /\ W!NoWorkflow.cur = 0
        /\ W!NoWorkflow.steps = <<>>
    BY DEF W!NoWorkflow, W!Workflow, W!Statuses
  <2> QED  BY <1>3, <2>1 DEF W!CreateState, W!Workflow
<1> HIDE DEF ready
<1>5. begun \in W!Workflow /\ begun.status = "RUNNING" /\ begun.cur = 0 /\ begun.steps = plan
  BY <1>4 DEF W!Workflow, W!Statuses
<1> HIDE DEF begun
<1>6. W!ReadyStep(begun) = 1
  <2>1. Upcoming(begun)
    BY <1>1, <1>3, <1>5 DEF Upcoming
  <2> QED  BY <1>3, <1>5, <2>1, UpcomingStarts
<1>7. /\ m \in W!Workflow /\ m.cur = 0 /\ Len(m.steps) = 1 /\ DOMAIN m.steps = {1}
      /\ m.steps # <<>> /\ m.steps[1].intent = c /\ m.steps[1].status = "READY"
  <2>1. "READY" \in W!StepStatuses
    BY DEF W!StepStatuses
  <2>2. m = W!Mark(ready, 1, "READY", "none") /\ 1 \in DOMAIN ready.steps
    BY <1>3, <1>4, <1>6 DEF m
  <2>3. /\ m \in W!Workflow /\ m.cur = ready.cur /\ Len(m.steps) = Len(ready.steps)
        /\ DOMAIN m.steps = DOMAIN ready.steps /\ m.steps # <<>>
        /\ m.steps[1].intent = ready.steps[1].intent /\ m.steps[1].status = "READY"
    BY <1>4, <2>1, <2>2, MarkFields
  <2> QED  BY <1>1, <1>3, <1>4, <2>3
<1>8. s \in W!Workflow /\ s.status = "RUNNING" /\ s.cur = 0 /\ s.steps = m.steps
  BY <1>2, <1>7 DEF W!Workflow, W!Statuses
<1> QED  BY <1>7, <1>8 DEF Upcoming

LEMMA ReplannedUpcoming ==
  ASSUME NEW st \in W!Workflow, Done(st), NEW c \in CandidateIntents,
         NEW s, s = W!Replanned(st, c)
  PROVE  /\ Upcoming(s) /\ Len(s.steps) = Len(st.steps) + 1
         /\ s.steps[Len(s.steps)].intent = c
         /\ \A i \in DOMAIN st.steps : s.steps[i].intent = st.steps[i].intent
<1> DEFINE fresh == W!Fresh("GOVERNED_ACTION", c)
           plan == Append(st.steps, fresh)
           r == st.rev + 1
<1>1. fresh \in W!Step /\ fresh.intent = c /\ fresh.status = "PENDING"
  BY DEF W!Step, W!StepTypes, W!StepStatuses, W!Fresh
<1>2. st.steps \in Seq(W!Step) /\ r \in Nat
  BY DEF W!Workflow
<1>3. s = [st EXCEPT !.rev = r, !.status = "RUNNING", !.cur = 0, !.question = "none",
                     !.stop = FALSE, !.steps = plan]
  BY DEF W!Replanned, W!Workflow
<1> HIDE DEF fresh, r
<1>4. /\ plan \in Seq(W!Step) /\ Len(plan) = Len(st.steps) + 1 /\ plan # <<>>
      /\ DOMAIN plan = DOMAIN st.steps \cup {Len(st.steps) + 1}
      /\ \A i \in DOMAIN st.steps : plan[i] = st.steps[i]
      /\ plan[Len(st.steps) + 1] = fresh
  BY <1>1, <1>2, AppendFields
<1> HIDE DEF plan
<1>5. s \in W!Workflow /\ s.status = "RUNNING" /\ s.cur = 0 /\ s.steps = plan
  <2> DEFINE n == [st EXCEPT !.rev = r, !.status = "RUNNING"]
             o == [n EXCEPT !.cur = 0, !.question = "none"]
  <2>1. s = [o EXCEPT !.stop = FALSE, !.steps = plan]
    BY <1>3
  <2>2. n \in W!Workflow /\ n.status = "RUNNING"
    BY <1>2 DEF W!Workflow, W!Statuses
  <2> HIDE DEF n
  <2>3. o \in W!Workflow /\ o.status = "RUNNING" /\ o.cur = 0
    BY <2>2 DEF W!Workflow
  <2> HIDE DEF o
  <2> QED  BY <1>4, <2>1, <2>3 DEF W!Workflow
<1>6. Upcoming(s)
  <2>1. plan[Len(plan)].status = "PENDING"
    BY <1>1, <1>4
  <2>2. ASSUME NEW i \in DOMAIN plan, i # Len(plan) PROVE plan[i].status = "SUCCEEDED"
    BY <1>4, <2>2 DEF Done
  <2> QED  BY <1>4, <1>5, <2>1, <2>2 DEF Upcoming
<1> QED  BY <1>1, <1>4, <1>5, <1>6

\* A planned intent is the step that waits; a step is added only where
\* nothing was planned or everything is done.
LEMMA PlannedWaits ==
  ASSUME NEW c \in CandidateIntents, sidecar \in W!Workflow, Checkpoint, Accepts(c),
         NEW s, s = Planned(c)
  PROVE  /\ s \in W!Workflow /\ Expecting(s) /\ s.steps[s.cur].intent = c
         /\ \A i \in DOMAIN sidecar.steps : /\ i \in DOMAIN s.steps
                                            /\ s.steps[i].intent = sidecar.steps[i].intent
         /\ \A i \in DOMAIN s.steps : i \in DOMAIN sidecar.steps \/ i = s.cur
         /\ \A i \in DOMAIN s.steps : s.steps[i].status = "SUCCEEDED" =>
              i \in DOMAIN sidecar.steps /\ sidecar.steps[i].status = "SUCCEEDED"
         /\ \/ Awaits(c) /\ s = sidecar
            \/ sidecar.steps = <<>>
            \/ Done(sidecar)
<1>1. W!NoWorkflow.steps = <<>> /\ W!NoWorkflow.cur = 0
  BY DEF W!NoWorkflow
<1>2. CASE sidecar.steps = <<>>
  <2>1. PICK t : t = W!Started(W!CreateState(<<W!Fresh("GOVERNED_ACTION", c)>>))
    OBVIOUS
  <2>2. Upcoming(t) /\ Len(t.steps) = 1 /\ t.steps[1].intent = c
    BY <2>1, StartedUpcoming
  <2>3. s = Awaited(t)
    <3>1. ~ Awaits(c)
      BY <1>1, <1>2 DEF Checkpoint, Expecting, Done, Awaits
    <3> QED  BY <1>2, <2>1, <3>1 DEF Planned
  <2>4. /\ s \in W!Workflow /\ Expecting(s) /\ DOMAIN s.steps = DOMAIN t.steps
        /\ Len(s.steps) = 1 /\ \A j \in DOMAIN t.steps : s.steps[j].intent = t.steps[j].intent
    BY <2>2, <2>3, UpcomingAwaited
  <2>5. DOMAIN t.steps = {1} /\ s.cur = 1
    <3>1. t.steps \in Seq(W!Step)
      BY <2>2 DEF Upcoming, W!Workflow
    <3>2. DOMAIN t.steps = 1..1
      BY <2>2, <3>1
    <3> QED  BY <2>4, <3>2 DEF Expecting
  <2>6. DOMAIN sidecar.steps = {}
    BY <1>2
  <2>7. s.steps[1].status = "WAITING"
    BY <2>4, <2>5 DEF Expecting
  <2> QED  BY <1>2, <2>2, <2>4, <2>5, <2>6, <2>7
<1>3. CASE sidecar.steps # <<>> /\ Awaits(c)
  <2>1. s = sidecar
    BY <1>3 DEF Planned
  <2>2. Expecting(sidecar)
    BY <1>1, <1>3 DEF Checkpoint, Awaits, Done
  <2> QED  BY <1>3, <2>1, <2>2 DEF Awaits
<1>4. CASE sidecar.steps # <<>> /\ ~ Awaits(c)
  <2>1. Done(sidecar)
    BY <1>1, <1>4 DEF Accepts, Checkpoint, Expecting
  <2>2. PICK t : t = W!Replanned(sidecar, c)
    OBVIOUS
  <2>3. /\ Upcoming(t) /\ Len(t.steps) = Len(sidecar.steps) + 1
        /\ t.steps[Len(t.steps)].intent = c
        /\ \A i \in DOMAIN sidecar.steps : t.steps[i].intent = sidecar.steps[i].intent
    BY <2>1, <2>2, ReplannedUpcoming
  <2>4. s = Awaited(t)
    BY <1>4, <2>2 DEF Planned
  <2>5. /\ s \in W!Workflow /\ Expecting(s) /\ DOMAIN s.steps = DOMAIN t.steps
        /\ Len(s.steps) = Len(t.steps)
        /\ \A j \in DOMAIN t.steps : s.steps[j].intent = t.steps[j].intent
    BY <2>3, <2>4, UpcomingAwaited
  <2>6. /\ DOMAIN sidecar.steps = 1..Len(sidecar.steps) /\ Len(sidecar.steps) \in Nat
        /\ DOMAIN t.steps = 1..Len(t.steps)
    BY <2>3 DEF W!Workflow, Upcoming
  <2>7. s.cur = Len(sidecar.steps) + 1 /\ s.steps[s.cur].status = "WAITING"
    BY <2>3, <2>5 DEF Expecting
  <2>8. \A i \in DOMAIN s.steps : i \in DOMAIN sidecar.steps \/ i = s.cur
    BY <2>3, <2>5, <2>6, <2>7
  <2>9. \A i \in DOMAIN sidecar.steps : /\ i \in DOMAIN s.steps
                                        /\ s.steps[i].intent = sidecar.steps[i].intent
    BY <2>3, <2>5, <2>6
  <2>10. \A i \in DOMAIN s.steps : s.steps[i].status = "SUCCEEDED" =>
           i \in DOMAIN sidecar.steps /\ sidecar.steps[i].status = "SUCCEEDED"
    BY <2>1, <2>7, <2>8 DEF Done
  <2>11. s.steps[s.cur].intent = c
    <3>1. Len(t.steps) \in DOMAIN t.steps /\ s.cur = Len(t.steps)
      BY <2>3, <2>6, <2>7
    <3> QED  BY <2>3, <2>5, <3>1
  <2> QED  BY <2>1, <2>5, <2>8, <2>9, <2>10, <2>11
<1> QED  BY <1>2, <1>3, <1>4

\* The step that waits is the last: with its receipt everything is done.
LEMMA CompletedDone ==
  ASSUME NEW st \in W!Workflow, Expecting(st), NEW s, s = W!Completed(st, st.cur)
  PROVE  /\ s \in W!Workflow /\ Done(s) /\ DOMAIN s.steps = DOMAIN st.steps
         /\ \A i \in DOMAIN st.steps : s.steps[i].intent = st.steps[i].intent
<1>1. st.cur \in DOMAIN st.steps /\ "SUCCEEDED" \in W!StepStatuses
  BY DEF Expecting, W!Workflow, W!StepStatuses
<1>2. PICK m : m = W!Mark(st, st.cur, "SUCCEEDED", "digest")
  OBVIOUS
<1>3. /\ m \in W!Workflow /\ DOMAIN m.steps = DOMAIN st.steps /\ m.steps # <<>>
      /\ \A j \in DOMAIN st.steps :
           /\ m.steps[j].intent = st.steps[j].intent
           /\ m.steps[j].status = IF j = st.cur THEN "SUCCEEDED" ELSE st.steps[j].status
  <2>1. PICK i \in DOMAIN st.steps : i = st.cur
    BY <1>1
  <2>2. m = W!Mark(st, i, "SUCCEEDED", "digest")
    BY <1>2, <2>1
  <2> QED  BY <1>1, <2>1, <2>2, MarkFields
<1>4. \A j \in DOMAIN m.steps : m.steps[j].status = "SUCCEEDED"
  BY <1>3 DEF Expecting
<1>5. s = [m EXCEPT !.status = "SUCCEEDED", !.cur = 0, !.stop = TRUE]
  BY <1>2, <1>4 DEF W!Completed
<1>6. s \in W!Workflow /\ s.status = "SUCCEEDED" /\ s.cur = 0 /\ s.steps = m.steps
  <2> DEFINE n == [m EXCEPT !.status = "SUCCEEDED", !.cur = 0]
  <2>1. n \in W!Workflow /\ n.status = "SUCCEEDED" /\ n.cur = 0 /\ n.steps = m.steps
    BY <1>3 DEF W!Workflow, W!Statuses
  <2>2. s = [n EXCEPT !.stop = TRUE]
    BY <1>5
  <2> HIDE DEF n
  <2> QED  BY <2>1, <2>2 DEF W!Workflow
<1> QED  BY <1>3, <1>4, <1>6 DEF Done

----------------------------------------------------------------------------
(* The next candidate                                                      *)

LEMMA StageDomain ==
  /\ DOMAIN Stages = {1, 2, 3} /\ DOMAIN Stages \subseteq Nat
  /\ \A s \in DOMAIN Stages : /\ Stages[s].create \in Creates /\ Stages[s].submit \in Submits
                              /\ Stages[s].kind \in {"PR", "PI", "PE"}
                              /\ Stages[s].submit \notin Creates
  /\ \A type \in Creates : \E s \in DOMAIN Stages : Stages[s].create = type
  /\ Creates \cap Submits = {}
BY DEF Stages, Creates, Submits

LEMMA KindOfStage ==
  ASSUME NEW s \in DOMAIN Stages
  PROVE  Kind(Stages[s].create) = Stages[s].kind
<1>1. \A t \in DOMAIN Stages : Stages[t].create = Stages[s].create => t = s
  BY DEF Stages
<1>2. Stages[s].kind \in {"PR", "PI", "PE"}
  BY StageDomain
<1> QED  BY <1>1, <1>2 DEF Kind

LEMMA KindTyped ==
  ASSUME NEW type \in Creates
  PROVE  Kind(type) \in {"PR", "PI", "PE"}
<1>1. PICK s \in DOMAIN Stages : Stages[s].create = type
  BY StageDomain
<1> QED  BY <1>1, KindOfStage, StageDomain

LEMMA TotalsNatural ==
  ASSUME NEW ds \in Seq(Doc)
  PROVE  /\ \A kind : BookedQty(ds, kind) \in Nat
         /\ \A i : Billed(ds, i) \in Nat
         /\ \A i \in DOMAIN ds : ds[i].qty \in Nat /\ i \in Nat
<1>1. ASSUME NEW kind PROVE BookedQty(ds, kind) \in Nat
  <2>1. Booked(ds, kind) \subseteq DOMAIN ds
    BY DEF Booked
  <2> QED  BY <2>1, TotalNatural DEF BookedQty
<1>2. ASSUME NEW i PROVE Billed(ds, i) \in Nat
  <2>1. {j \in DOMAIN ds : ds[j].from = i /\ ds[j].submitted} \subseteq DOMAIN ds
    OBVIOUS
  <2> QED  BY <2>1, TotalNatural DEF Billed
<1>3. ASSUME NEW i \in DOMAIN ds PROVE ds[i].qty \in Nat /\ i \in Nat
  <2>1. ds[i] \in Doc /\ i \in Nat
    OBVIOUS
  <2> QED  BY <2>1, PlanningAssumption DEF Doc
<1> QED  BY <1>1, <1>2, <1>3

LEMMA IntentTyped ==
  ASSUME NEW r \in SeenRun, NEW type \in Creates \cup Submits, NEW src \in Nat, NEW qty \in Nat,
         NEW c, c = Intent(r, type, src, qty)
  PROVE  c \in CandidateIntents /\ c.goal = r.goal /\ c.ver = r.ver /\ c.type = type
         /\ c.src = src
BY DEF Intent, CandidateIntents, SeenRun

\* An intent is about a document of the facts: it promotes a draft, or no
\* draft is left to promote.
NextOK(r, as, ds, c) ==
  /\ c \in CandidateIntents /\ c.goal = r.goal /\ c.ver = r.ver /\ c.src \in DOMAIN ds
  /\ \/ \A s \in DOMAIN Stages : Unpromoted(as, ds, s) = {}
     \/ \E s \in DOMAIN Stages : c.type = Stages[s].submit /\ c.src \in Unpromoted(as, ds, s)

LEMMA NextIntentOK ==
  ASSUME NEW r \in SeenRun, NEW as, NEW ds \in Seq(Doc), ds # <<>>,
         NEW c \in NextIntent(r, as, ds)
  PROVE  NextOK(r, as, ds, c)
<1> DEFINE drafts == {s \in DOMAIN Stages : Unpromoted(as, ds, s) # {}}
           recv   == BookedQty(ds, "PR")
           bill   == BookedQty(ds, "PI")
<1>1. recv \in Nat /\ bill \in Nat /\ r.target \in Nat /\ 1 \in DOMAIN ds /\ DOMAIN ds \subseteq Nat
  BY TotalsNatural DEF SeenRun
<1>2. CASE drafts # {}
  <2>1. PICK s : s = Oldest(drafts)
    OBVIOUS
  <2>2. drafts \subseteq Nat
    BY StageDomain
  <2>3. s \in drafts
    <3> HIDE DEF drafts
    <3> QED  BY <1>2, <2>1, <2>2, OldestIn
  <2>4. PICK i : i = Oldest(Unpromoted(as, ds, s))
    OBVIOUS
  <2>5. Unpromoted(as, ds, s) \subseteq DOMAIN ds
    BY DEF Unpromoted
  <2>6. i \in Unpromoted(as, ds, s)
    BY <1>1, <2>3, <2>4, <2>5, OldestIn
  <2>7. c = Intent(r, Stages[s].submit, i, 0)
    BY <1>2, <2>1, <2>4 DEF NextIntent
  <2>8. Stages[s].submit \in Creates \cup Submits /\ i \in Nat
    BY <1>1, <2>3, <2>5, <2>6, StageDomain
  <2>9. c \in CandidateIntents /\ c.goal = r.goal /\ c.ver = r.ver /\ c.src = i
        /\ c.type = Stages[s].submit
    BY <2>7, <2>8, IntentTyped
  <2> QED  BY <2>3, <2>5, <2>6, <2>9 DEF NextOK
<1>3. ASSUME NEW type \in Creates \cup Submits, NEW i \in DOMAIN ds, NEW qty \in Nat,
             c = Intent(r, type, i, qty), drafts = {}
      PROVE  NextOK(r, as, ds, c)
  <2>1. c \in CandidateIntents /\ c.goal = r.goal /\ c.ver = r.ver /\ c.src = i
    BY <1>1, <1>3, IntentTyped
  <2> QED  BY <1>3, <2>1 DEF NextOK
<1>4. CASE drafts = {} /\ ~ ds[1].submitted
  <2>1. c = Intent(r, "SUBMIT_PO", 1, 0)
    BY <1>4 DEF NextIntent
  <2> QED  BY <1>1, <1>3, <1>4, <2>1 DEF Submits
<1>5. CASE drafts = {} /\ ds[1].submitted /\ recv < r.target
  <2>1. c = Intent(r, "CREATE_PR_DRAFT", 1, r.target - recv)
    BY <1>5 DEF NextIntent
  <2>2. r.target - recv \in Nat
    BY <1>1, <1>5
  <2> QED  BY <1>1, <1>3, <1>5, <2>1, <2>2 DEF Creates
<1>6. CASE drafts = {} /\ ds[1].submitted /\ ~ (recv < r.target) /\ bill < r.target
  <2>1. PICK i : /\ i \in IF Invoiceable(r, ds) = {} THEN {} ELSE {Oldest(Invoiceable(r, ds))}
                 /\ c = Intent(r, "CREATE_PI_DRAFT", i,
                               Smaller(ds[i].qty - Billed(ds, i), r.target - bill))
    BY <1>6 DEF NextIntent
  <2>2. Invoiceable(r, ds) # {} /\ i = Oldest(Invoiceable(r, ds))
    BY <2>1
  <2>3. Invoiceable(r, ds) \subseteq Nat
    BY <1>1 DEF Invoiceable, Booked
  <2>4. i \in Invoiceable(r, ds)
    BY <2>2, <2>3, OldestIn
  <2>5. i \in DOMAIN ds /\ Billed(ds, i) < ds[i].qty
    BY <2>4 DEF Invoiceable, Booked
  <2>6. ds[i].qty \in Nat /\ Billed(ds, i) \in Nat
    BY <2>5, TotalsNatural
  <2>7. Smaller(ds[i].qty - Billed(ds, i), r.target - bill) \in Nat
    BY <1>1, <1>6, <2>5, <2>6 DEF Smaller
  <2> QED  BY <1>3, <1>6, <2>1, <2>5, <2>7 DEF Creates
<1>7. CASE drafts = {} /\ ds[1].submitted /\ ~ (recv < r.target) /\ ~ (bill < r.target)
  <2>1. PICK i : /\ i \in IF Payable(ds) = {} THEN {} ELSE {Oldest(Payable(ds))}
                 /\ c = Intent(r, "CREATE_PAYMENT_ENTRY_DRAFT", i, ds[i].qty - Billed(ds, i))
    BY <1>7 DEF NextIntent
  <2>2. Payable(ds) # {} /\ i = Oldest(Payable(ds))
    BY <2>1
  <2>3. Payable(ds) \subseteq Nat
    BY <1>1 DEF Payable, Booked
  <2>4. i \in Payable(ds)
    BY <2>2, <2>3, OldestIn
  <2>5. i \in DOMAIN ds /\ Billed(ds, i) < ds[i].qty
    BY <2>4 DEF Payable, Booked
  <2>6. ds[i].qty - Billed(ds, i) \in Nat
    BY <2>5, TotalsNatural
  <2> QED  BY <1>3, <1>7, <2>1, <2>5, <2>6 DEF Creates
<1> HIDE DEF drafts, recv, bill
<1> QED  BY <1>2, <1>4, <1>5, <1>6, <1>7

----------------------------------------------------------------------------
(* What a step does to the requests                                        *)

\* The same request, perhaps out of date by now.
Like(old, new) ==
  /\ new.pc = old.pc /\ new.run = old.run /\ new.docs = old.docs /\ new.actions = old.actions
  /\ new.pc = "lock" /\ ~ new.stale => ~ old.stale

\* A request gets the lock with a snapshot that is not out of date.
Enters(old, new) ==
  /\ old.pc = "lock" /\ new.pc = "plan"
  /\ new.run = old.run /\ new.docs = old.docs /\ new.actions = old.actions
  /\ old.actions # <<>> => ~ old.stale

LEMMA NoRequestTyped == NoRequest \in Snapshot /\ NoRequest.pc = "idle"
<1>1. <<>> \in Seq(Doc) /\ <<>> \in Seq(Action)
  OBVIOUS
<1> QED  BY <1>1 DEF NoRequest, Snapshot, SeenRun, RunStates, PCs, Operations

LEMMA AnsweredFields ==
  ASSUME req \in [Requests -> Snapshot], NEW q \in Requests, NEW rs, rs = Answered(q)
  PROVE  /\ rs \in [Requests -> Snapshot] /\ rs[q].pc = "idle"
         /\ \A p \in Requests : p # q => rs[p] = req[p]
BY NoRequestTyped DEF Answered

LEMMA OutdatedFields ==
  ASSUME NEW rs \in [Requests -> Snapshot], NEW new, new = Outdated(rs)
  PROVE  /\ new \in [Requests -> Snapshot]
         /\ \A p \in Requests : /\ Like(rs[p], new[p])
                                /\ new[p].pc = "lock" => new[p].stale
<1>1. ASSUME NEW p \in Requests
      PROVE  /\ new[p] \in Snapshot /\ new[p].pc = rs[p].pc /\ new[p].run = rs[p].run
             /\ new[p].docs = rs[p].docs /\ new[p].actions = rs[p].actions
             /\ new[p].pc = "lock" => new[p].stale
  <2>1. rs[p] \in Snapshot /\ new[p] = [rs[p] EXCEPT !.stale = rs[p].pc # "idle"]
    BY DEF Outdated
  <2> QED  BY <2>1, Zenon DEF Snapshot, PCs
<1>2. new = [p \in Requests |-> new[p]]
  BY DEF Outdated
<1> QED  BY <1>1, <1>2 DEF Like

LEMMA SyncedFields ==
  ASSUME NEW q \in Requests, NEW rs \in [Requests -> Snapshot], NEW new, new = Synced(q, rs)
  PROVE  /\ new \in [Requests -> Snapshot]
         /\ \A p \in Requests : Like(rs[p], new[p])
<1>1. CASE new = rs
  BY <1>1 DEF Like
<1>2. CASE new = Outdated(rs)
  BY <1>2, OutdatedFields
<1> QED  BY <1>1, <1>2 DEF Synced

\* The lock follows the requests that plan.
LEMMA FinishHolds ==
  ASSUME Types, Holds, NEW q \in Requests, Finish(q)
  PROVE  /\ req' \in [Requests -> Snapshot] /\ lock' \in Requests \cup {NoHolder} /\ Holds'
         /\ \A p \in Requests : req'[p].pc = "idle" \/ Like(req[p], req'[p])
<1>1. /\ req' \in [Requests -> Snapshot] /\ req'[q].pc = "idle"
      /\ \A p \in Requests : p # q => req'[p] = req[p]
  BY AnsweredFields DEF Types, Finish
<1>2. lock' = IF lock = q THEN NoHolder ELSE lock
  BY DEF Finish, Unlock
<1> QED  BY <1>1, <1>2, PlanningAssumption DEF Holds, Like, Types

LEMMA SnapshotsStep ==
  ASSUME Types, Snapshots, Len(docs) <= Len(docs'), Len(docs') \in Nat,
         \A p \in Requests :
           \/ req'[p].pc = "idle" \/ Like(req[p], req'[p]) \/ Enters(req[p], req'[p])
           \/ Seen(p)' /\ Ahead(p)' /\ (Current(p)' => Agrees(p)'),
         \A p \in Requests : Agrees(p) => Match(req[p].actions, req[p].docs, actions', docs')
  PROVE  Snapshots'
<1> SUFFICES ASSUME NEW p \in Requests
             PROVE  Seen(p)' /\ Ahead(p)' /\ (Current(p)' => Agrees(p)')
  BY DEF Snapshots
<1>1. CASE req'[p].pc = "idle"
  BY <1>1 DEF Seen, Ahead, Current
<1>2. Seen(p) /\ Ahead(p) /\ (Current(p) => Agrees(p)) /\ Len(req[p].docs) \in Nat /\ Len(docs) \in Nat
  BY DEF Snapshots, Types, Snapshot
<1>3. CASE Like(req[p], req'[p])
  <2>1. Seen(p)' /\ Ahead(p)'
    BY <1>2, <1>3 DEF Seen, Ahead, Like
  <2>2. Current(p)' => Current(p)
    BY <1>3 DEF Current, Like
  <2> QED  BY <1>2, <1>3, <2>1, <2>2 DEF Agrees, Like
<1>4. CASE Enters(req[p], req'[p])
  <2>1. Seen(p)' /\ Ahead(p)'
    BY <1>2, <1>4 DEF Seen, Ahead, Enters
  <2>2. Current(p)' => Current(p)
    BY <1>4 DEF Current, Enters
  <2> QED  BY <1>2, <1>4, <2>1, <2>2 DEF Agrees, Enters
<1> QED  BY <1>1, <1>3, <1>4

----------------------------------------------------------------------------
(* Steps that move only requests and the Run                               *)

RunTyped == [state: RunStates, ver: Nat, goal: 1..MaxGoal, target: Targets]

Stands ==
  Books /\ Checkpoint /\ Steps /\ SidecarFollowsReceipts /\ OneOpen

LEMMA QuietStep ==
  ASSUME PlanningInv, UNCHANGED <<docs, actions, sidecar>>,
         run' \in RunTyped, lock' \in Requests \cup {NoHolder},
         req' \in [Requests -> Snapshot], Holds', RunHistory', Snapshots',
         \A p \in Requests : req[p].pc = "insert" => Like(req[p], req'[p])
  PROVE  PlanningInv'
<1>1. Types' /\ Books' /\ Checkpoint' /\ Steps' /\ OneOpen'
  BY DEF PlanningInv, Types, RunTyped, Books, Checkpoint, Steps, OneOpen
<1>2. SidecarFollowsReceipts'
  BY DEF PlanningInv, SidecarFollowsReceipts
<1>3. Drafting'
  <2>1. \A p \in Requests : req[p].pc = "insert" /\ req[p].actions # <<>> =>
                              req'[p].pc = "insert" /\ req'[p].actions # <<>>
    BY DEF Like
  <2> QED  BY <2>1 DEF PlanningInv, Drafting
<1> QED  BY <1>1, <1>2, <1>3 DEF PlanningInv

\* A request that ends without a write.
LEMMA FinishStep ==
  ASSUME PlanningInv, UNCHANGED <<docs, actions, sidecar>>, NEW q \in Requests,
         req[q].pc # "insert", Finish(q), run' \in RunTyped, RunHistory'
  PROVE  PlanningInv'
<1>1. Types /\ Holds /\ Snapshots
  BY DEF PlanningInv
<1>2. /\ req' \in [Requests -> Snapshot] /\ lock' \in Requests \cup {NoHolder} /\ Holds'
      /\ \A p \in Requests : req'[p].pc = "idle" \/ Like(req[p], req'[p])
  BY <1>1, FinishHolds
<1>3. Snapshots'
  <2>1. Len(docs) <= Len(docs') /\ Len(docs') \in Nat
    BY <1>1 DEF Types
  <2>2. \A p \in Requests : Agrees(p) => Match(req[p].actions, req[p].docs, actions', docs')
    BY DEF Agrees
  <2> QED  BY <1>1, <1>2, <2>1, <2>2, SnapshotsStep
<1>4. \A p \in Requests : req[p].pc = "insert" => Like(req[p], req'[p])
  BY <1>1, AnsweredFields DEF Finish, Like, Types
<1> QED  BY <1>2, <1>3, <1>4, QuietStep

LEMMA MatchSelf ==
  ASSUME Types
  PROVE  Match(actions, docs, actions, docs)
BY DEF Match, Kept, Drafts, Types

LEMMA BeginStep ==
  ASSUME PlanningInv, NEW q \in Requests,
         NEW op \in {"investigate", "resume", "confirm", "finalize", "cancel"}, Begin(q, op)
  PROVE  PlanningInv'
<1> DEFINE new == [pc |-> "lock", op |-> op, run |-> run, docs |-> docs, actions |-> actions,
                   stale |-> FALSE]
<1>1. Types /\ Holds /\ Snapshots /\ RunHistory /\ Books
  BY DEF PlanningInv
<1>2. /\ req' = [req EXCEPT ![q] = new] /\ UNCHANGED <<run, docs, actions, sidecar, lock>>
      /\ req[q].pc = "idle" /\ run.state \notin {"SUCCEEDED", "CANCELLED"}
  BY DEF Begin
<1>3. new \in Snapshot
  <2>1. run \in SeenRun
    <3>1. 1..MaxGoal \subseteq Nat /\ Targets \subseteq Nat
      BY PlanningAssumption
    <3> QED  BY <1>1, <3>1 DEF Types, SeenRun
  <2> QED  BY <1>1, <2>1 DEF Types, Snapshot, PCs, Operations
<1>4. req' \in [Requests -> Snapshot] /\ req'[q] = new /\ \A p \in Requests : p # q => req'[p] = req[p]
  BY <1>1, <1>2, <1>3 DEF Types
<1>5. Holds'
  <2>1. lock # q
    BY <1>1, <1>2 DEF Holds
  <2> QED  BY <1>1, <1>2, <1>4, <2>1 DEF Holds
<1>6. RunHistory' /\ run' \in RunTyped
  BY <1>1, <1>2 DEF RunHistory, RunTyped, Types
<1>7. Seen(q)' /\ Ahead(q)' /\ Agrees(q)'
  <2>1. Seen(q)'
    <3>1. actions = <<>> => run.ver = 0 /\ run.state = "PROPOSED"
      BY <1>1, <1>2 DEF RunHistory
    <3>2. run.state # "PROPOSED" => run.ver >= 1
      BY <1>1, <1>2 DEF RunHistory, Types, RunStates
    <3>3. docs # <<>> /\ Len(docs) <= Len(docs)
      BY <1>1 DEF Books, Types
    <3> QED  BY <1>1, <1>2, <1>4, <3>1, <3>2, <3>3 DEF Seen, RunHistory
  <2>2. Ahead(q)'
    BY <1>4 DEF Ahead
  <2>3. Agrees(q)'
    BY <1>1, <1>2, <1>4, MatchSelf DEF Agrees
  <2> QED  BY <2>1, <2>2, <2>3
<1>8. Snapshots'
  <2>1. Len(docs) <= Len(docs') /\ Len(docs') \in Nat
    BY <1>1, <1>2 DEF Types
  <2>2. \A p \in Requests : Agrees(p) => Match(req[p].actions, req[p].docs, actions', docs')
    BY <1>2 DEF Agrees
  <2>3. \A p \in Requests : p # q => Like(req[p], req'[p])
    BY <1>4 DEF Like
  <2>4. \A p \in Requests :
           \/ req'[p].pc = "idle" \/ Like(req[p], req'[p]) \/ Enters(req[p], req'[p])
           \/ Seen(p)' /\ Ahead(p)' /\ (Current(p)' => Agrees(p)')
    BY <1>7, <2>3
  <2> QED  BY <1>1, <2>1, <2>2, <2>4, SnapshotsStep
<1>9. \A p \in Requests : req[p].pc = "insert" => Like(req[p], req'[p])
  BY <1>2, <1>4 DEF Like
<1> QED  BY <1>1, <1>2, <1>4, <1>5, <1>6, <1>8, <1>9, QuietStep DEF Types

\* investigate, and resume without drift: the request gets the lock.
LEMMA EnterStep ==
  ASSUME PlanningInv, NEW q \in Requests, req[q].pc = "lock", lock = NoHolder,
         ~ StepsAreStale(q), lock' = q, req' = Synced(q, [req EXCEPT ![q].pc = "plan"]),
         UNCHANGED <<run, docs, actions, sidecar>>
  PROVE  PlanningInv'
<1>1. Types /\ Holds /\ Snapshots /\ RunHistory
  BY DEF PlanningInv
<1> DEFINE rs == [req EXCEPT ![q].pc = "plan"]
<1>2. /\ rs \in [Requests -> Snapshot] /\ Enters(req[q], rs[q])
      /\ \A p \in Requests : p # q => rs[p] = req[p]
  <2>1. req[q] \in Snapshot
    BY <1>1 DEF Types
  <2>2. PICK new : new = [req[q] EXCEPT !.pc = "plan"]
    OBVIOUS
  <2>3. /\ new \in Snapshot /\ new.pc = "plan" /\ new.run = req[q].run
        /\ new.docs = req[q].docs /\ new.actions = req[q].actions
    BY <2>1, <2>2 DEF Snapshot, PCs
  <2>4. rs = [req EXCEPT ![q] = new]
    BY <1>1, <2>2 DEF Types
  <2>5. Enters(req[q], new)
    BY <2>3 DEF Enters, StepsAreStale
  <2> HIDE DEF rs
  <2> QED  BY <1>1, <2>3, <2>4, <2>5 DEF Types
<1> HIDE DEF rs
<1>3. /\ req' \in [Requests -> Snapshot]
      /\ \A p \in Requests : Like(rs[p], req'[p])
  <2>1. req' = Synced(q, rs)
    BY DEF rs
  <2> QED  BY <1>2, <2>1, SyncedFields
<1>4. Enters(req[q], req'[q]) /\ \A p \in Requests : p # q => Like(req[p], req'[p])
  BY <1>2, <1>3 DEF Like, Enters
<1>5. Holds'
  BY <1>1, <1>4, PlanningAssumption DEF Holds, Like, Enters
<1>6. RunHistory' /\ run' \in RunTyped
  BY <1>1 DEF RunHistory, RunTyped, Types
<1>7. Snapshots'
  <2>1. Len(docs) <= Len(docs') /\ Len(docs') \in Nat
    BY <1>1 DEF Types
  <2>2. \A p \in Requests : Agrees(p) => Match(req[p].actions, req[p].docs, actions', docs')
    BY DEF Agrees
  <2>3. \A p \in Requests :
           \/ req'[p].pc = "idle" \/ Like(req[p], req'[p]) \/ Enters(req[p], req'[p])
           \/ Seen(p)' /\ Ahead(p)' /\ (Current(p)' => Agrees(p)')
    BY <1>4
  <2> QED  BY <1>1, <2>1, <2>2, <2>3, SnapshotsStep
<1>8. \A p \in Requests : req[p].pc = "insert" => Like(req[p], req'[p])
  BY <1>4
<1> QED  BY <1>3, <1>5, <1>6, <1>7, <1>8, QuietStep

LEMMA InvestigateStep ==
  ASSUME PlanningInv, NEW q \in Requests, Investigate(q)
  PROVE  PlanningInv'
<1>1. req[q].pc = "lock" /\ lock = NoHolder /\ UNCHANGED <<run, docs, actions, sidecar>>
  BY DEF Investigate
<1>2. CASE Finish(q)
  <2>1. RunHistory' /\ run' \in RunTyped
    BY <1>1 DEF PlanningInv, RunHistory, RunTyped, Types
  <2> QED  BY <1>1, <1>2, <2>1, FinishStep
<1>3. CASE /\ ~ StepsAreStale(q) /\ lock' = q
           /\ req' = Synced(q, [req EXCEPT ![q].pc = "plan"])
  BY <1>1, <1>3, EnterStep
<1> QED  BY <1>2, <1>3 DEF Investigate

\* The Run is saved as the request read it: it is closed or frozen, never reopened.
LEMMA SaveRunHistory ==
  ASSUME Types, RunHistory, UNCHANGED actions, NEW q, NEW s \in RunStates,
         \/ s = "CANCELLED"
         \/ s \in {"SUCCEEDED", "RECONCILIATION_REQUIRED"}
              /\ req[q].run.state \in {"EXECUTING", "RECONCILIATION_REQUIRED"},
         SaveRun(q, [run EXCEPT !.state = s, !.ver = @ + 1])
  PROVE  run' \in RunTyped /\ RunHistory'
<1>1. CASE run' = run
  BY <1>1 DEF Types, RunTyped, RunHistory
<1>2. CASE req[q].run = run /\ run' = [run EXCEPT !.state = s, !.ver = @ + 1]
  <2> DEFINE v == run.ver + 1
  <2>1. v \in Nat /\ v >= 1
    BY DEF Types
  <2>2. run' = [run EXCEPT !.state = s, !.ver = v]
    BY <1>2
  <2> HIDE DEF v
  <2>3. run' \in RunTyped /\ run'.state = s /\ run'.ver = v
    BY <2>1, <2>2 DEF Types, RunTyped
  <2> QED  BY <1>2, <2>1, <2>3 DEF RunHistory
<1> QED  BY <1>1, <1>2 DEF SaveRun

LEMMA SameRunHistory ==
  ASSUME Types, RunHistory, UNCHANGED <<run, actions>>
  PROVE  run' \in RunTyped /\ RunHistory'
BY DEF Types, RunTyped, RunHistory

\* A request that leaves the lock's queue, whatever it does with the projection.
LEMMA ResumeStep ==
  ASSUME PlanningInv, NEW q \in Requests, Resume(q)
  PROVE  PlanningInv'
<1>1. /\ req[q].pc = "lock" /\ lock = NoHolder /\ UNCHANGED <<docs, actions, sidecar>>
      /\ Types /\ Holds /\ Snapshots /\ RunHistory
  BY DEF PlanningInv, Resume
<1>2. CASE Finish(q) /\ UNCHANGED run
  <2>1. RunHistory' /\ run' \in RunTyped
    BY <1>1, <1>2, SameRunHistory
  <2> QED  BY <1>1, <1>2, <2>1, FinishStep
<1>3. CASE /\ ~ StepsAreStale(q) /\ lock' = q /\ UNCHANGED run
           /\ req' = Synced(q, [req EXCEPT ![q].pc = "plan"])
  BY <1>1, <1>3, EnterStep
<1>4. CASE /\ req' = Synced(q, Answered(q)) /\ Unlock(q)
           /\ IF req[q].run.state = "EXECUTING"
              THEN SaveRun(q, [run EXCEPT !.state = "RECONCILIATION_REQUIRED", !.ver = @ + 1])
              ELSE UNCHANGED run
  <2>1. run' \in RunTyped /\ RunHistory'
    <3>1. CASE UNCHANGED run
      BY <1>1, <3>1, SameRunHistory
    <3>2. CASE req[q].run.state = "EXECUTING"
      <4>1. SaveRun(q, [run EXCEPT !.state = "RECONCILIATION_REQUIRED", !.ver = @ + 1])
        BY <1>4, <3>2
      <4>2. "RECONCILIATION_REQUIRED" \in RunStates
        BY DEF RunStates
      <4> QED  BY <1>1, <3>2, <4>1, <4>2, SaveRunHistory
    <3> QED  BY <1>4, <3>1, <3>2
  <2>2. PICK rs : rs = Answered(q)
    OBVIOUS
  <2>3. rs \in [Requests -> Snapshot] /\ rs[q].pc = "idle" /\ \A p \in Requests : p # q => rs[p] = req[p]
    BY <1>1, <2>2, AnsweredFields DEF Types
  <2>4. req' = Synced(q, rs)
    BY <1>4, <2>2
  <2>5. req' \in [Requests -> Snapshot] /\ \A p \in Requests : Like(rs[p], req'[p])
    BY <2>3, <2>4, SyncedFields
  <2>6. req'[q].pc = "idle" /\ \A p \in Requests : p # q => Like(req[p], req'[p])
    BY <2>3, <2>5 DEF Like
  <2>7. lock' = NoHolder
    BY <1>1, <1>4 DEF Unlock
  <2>8. Holds'
    BY <1>1, <2>6, <2>7, PlanningAssumption DEF Holds, Like
  <2>9. Snapshots'
    <3>1. Len(docs) <= Len(docs') /\ Len(docs') \in Nat
      BY <1>1 DEF Types
    <3>2. \A p \in Requests : Agrees(p) => Match(req[p].actions, req[p].docs, actions', docs')
      BY <1>1 DEF Agrees
    <3>3. \A p \in Requests : req'[p].pc = "idle" \/ Like(req[p], req'[p])
      BY <2>6
    <3> QED  BY <1>1, <3>1, <3>2, <3>3, SnapshotsStep
  <2>10. \A p \in Requests : req[p].pc = "insert" => Like(req[p], req'[p])
    BY <1>1, <2>6
  <2> QED  BY <1>1, <2>1, <2>5, <2>7, <2>8, <2>9, <2>10, QuietStep
<1> QED  BY <1>2, <1>3, <1>4 DEF Resume

LEMMA FinalizeStep ==
  ASSUME PlanningInv, NEW q \in Requests, Finalize(q)
  PROVE  PlanningInv'
<1>1. /\ req[q].pc = "lock" /\ Finish(q) /\ UNCHANGED <<docs, actions, sidecar>>
      /\ Types /\ RunHistory
  BY DEF PlanningInv, Finalize
<1>2. run' \in RunTyped /\ RunHistory'
  <2>1. CASE UNCHANGED run
    BY <1>1, <2>1, SameRunHistory
  <2>2. CASE /\ req[q].run.state \in {"EXECUTING", "RECONCILIATION_REQUIRED"}
             /\ SaveRun(q, [run EXCEPT !.state = "SUCCEEDED", !.ver = @ + 1])
    <3>1. "SUCCEEDED" \in RunStates
      BY DEF RunStates
    <3> QED  BY <1>1, <2>2, <3>1, SaveRunHistory
  <2> QED  BY <2>1, <2>2 DEF Finalize
<1> QED  BY <1>1, <1>2, FinishStep

LEMMA CancelStep ==
  ASSUME PlanningInv, NEW q \in Requests, Cancel(q)
  PROVE  PlanningInv'
<1>1. /\ req[q].pc = "lock" /\ Finish(q) /\ UNCHANGED <<docs, actions, sidecar>>
      /\ Types /\ RunHistory
  BY DEF PlanningInv, Cancel
<1>2. run' \in RunTyped /\ RunHistory'
  <2>1. CASE UNCHANGED run
    BY <1>1, <2>1, SameRunHistory
  <2>2. CASE SaveRun(q, [run EXCEPT !.state = "CANCELLED", !.ver = @ + 1])
    <3>1. "CANCELLED" \in RunStates
      BY DEF RunStates
    <3> QED  BY <1>1, <2>2, <3>1, SaveRunHistory
  <2> QED  BY <2>1, <2>2 DEF Cancel
<1> QED  BY <1>1, <1>2, FinishStep

----------------------------------------------------------------------------
(* Planning from the snapshot                                              *)

\* What was closed when the request looked is closed.
LEMMA NothingOpen ==
  ASSUME NEW q \in Requests, Types, Agrees(q), \A k \in DOMAIN req[q].actions : ~ Open(req[q].actions[k])
  PROVE  \A k \in DOMAIN actions : ~ Open(actions[k])
<1>1. DOMAIN actions = DOMAIN req[q].actions
  BY DEF Agrees, Match, Types, Snapshot
<1> QED  BY <1>1 DEF Agrees, Match, Kept, Open

\* A draft of the chain that is still unsubmitted is promoted first.
LEMMA NoDraftLeft ==
  ASSUME NEW q \in Requests, Types, Books, Agrees(q),
         \A k \in DOMAIN req[q].actions : ~ Open(req[q].actions[k]),
         \A s \in DOMAIN Stages : Unpromoted(req[q].actions, req[q].docs, s) = {}
  PROVE  Drafts(docs) = {}
<1> SUFFICES ASSUME NEW i \in Drafts(docs) PROVE FALSE
  OBVIOUS
<1> DEFINE as == req[q].actions
           ds == req[q].docs
<1>1. DOMAIN actions = DOMAIN as /\ \A k \in DOMAIN actions : Kept(as[k], actions[k])
  BY DEF Agrees, Match, Types, Snapshot
<1>2. i \in DOMAIN ds /\ ~ ds[i].submitted /\ ds[i].kind = docs[i].kind
  BY DEF Agrees, Match
<1>3. PICK k \in DOMAIN actions : /\ actions[k].intent.type \in Creates /\ Landed(actions[k])
                                  /\ actions[k].tgt = i /\ Kind(actions[k].intent.type) = docs[i].kind
  BY DEF Books
<1>4. as[k].intent = actions[k].intent /\ as[k].tgt = i /\ Succeeded(as[k])
  BY <1>1, <1>3 DEF Kept, Landed, Open, Succeeded
<1>5. PICK s \in DOMAIN Stages : Stages[s].create = actions[k].intent.type
  BY <1>3, StageDomain
<1>6. Stages[s].kind = ds[i].kind
  BY <1>2, <1>3, <1>5, KindOfStage
<1>7. PICK l \in DOMAIN as : as[l].intent.type = Stages[s].submit /\ Succeeded(as[l]) /\ as[l].intent.src = i
  <2>1. i \notin Unpromoted(as, ds, s)
    OBVIOUS
  <2> HIDE DEF as, ds
  <2> QED  BY <1>1, <1>2, <1>4, <1>5, <1>6, <2>1 DEF Unpromoted
<1>8. /\ actions[l].intent.type \in Submits /\ Landed(actions[l]) /\ actions[l].intent.src = i
  BY <1>1, <1>7, StageDomain DEF Kept, Landed, Succeeded
<1>9. docs[i].submitted
  BY <1>1, <1>7, <1>8 DEF Books
<1> QED  BY <1>9 DEF Drafts

\* A receipt the request saw completes the step that waits, or nothing.
LEMMA ReportedCompletes ==
  ASSUME PlanningInv, NEW q \in Requests, req[q].pc = "plan",
         \A k \in DOMAIN req[q].actions : ~ Open(req[q].actions[k]),
         NEW s, s = Reported(req[q].actions), s # sidecar
  PROVE  /\ Expecting(sidecar) /\ s = W!Completed(sidecar, sidecar.cur)
         /\ req[q].actions # <<>> /\ Agrees(q)
         /\ \E k \in DOMAIN actions : actions[k].step = sidecar.cur /\ Succeeded(actions[k])
<1> DEFINE as == req[q].actions
           done == {k \in DOMAIN as : Succeeded(as[k]) /\ as[k].step # 0}
           newest == CHOOSE j \in done : \A i \in done : i <= j
<1>1. Types /\ Snapshots /\ Steps /\ Checkpoint
  BY DEF PlanningInv
<1>2. UseSidecar /\ done # {} /\ sidecar.steps[as[newest].step].status # "SUCCEEDED"
      /\ s = W!Completed(sidecar, as[newest].step)
  BY DEF Reported
<1>3. as \in Seq(Action) /\ DOMAIN as = 1..Len(as) /\ Len(as) \in Nat
  BY <1>1 DEF Types, Snapshot
<1>4. newest \in done
  <2>1. done \subseteq 1..Len(as)
    BY <1>3
  <2> HIDE DEF done
  <2>2. \E j \in done : \A i \in done : i <= j
    BY <1>2, <1>3, <2>1, GreatestIndex
  <2> QED  BY <2>2
<1>5. PICK k : k = newest
  OBVIOUS
<1> HIDE DEF newest
<1>6. k \in DOMAIN as /\ Succeeded(as[k]) /\ as # <<>>
  <2>1. k \in done
    BY <1>4, <1>5
  <2>2. k \in DOMAIN as /\ Succeeded(as[k])
    BY <2>1, Zenon
  <2> QED  BY <1>3, <2>2
<1> HIDE DEF done
<1>7. Agrees(q)
  BY <1>1, <1>6 DEF Snapshots, Current
<1>8. k \in DOMAIN actions /\ actions[k].step = as[k].step /\ Succeeded(actions[k])
  BY <1>1, <1>3, <1>6, <1>7 DEF Agrees, Match, Kept, Succeeded, Types
<1>9. as[k].step \in DOMAIN sidecar.steps /\ sidecar.steps[as[k].step].status # "SUCCEEDED"
  BY <1>1, <1>2, <1>5, <1>8 DEF Steps
<1>10. Expecting(sidecar) /\ as[k].step = sidecar.cur
  <2>1. DOMAIN W!NoWorkflow.steps = {}
    BY DEF W!NoWorkflow
  <2> QED  BY <1>1, <1>9, <2>1 DEF Checkpoint, Expecting, Done
<1> QED  BY <1>2, <1>5, <1>6, <1>7, <1>8, <1>10

\* The checkpoint advances from a receipt; the request goes on or ends.
LEMMA AdvanceStep ==
  ASSUME PlanningInv, UNCHANGED <<run, docs, actions>>, NEW q \in Requests, req[q].pc = "plan",
         \A k \in DOMAIN req[q].actions : ~ Open(req[q].actions[k]),
         sidecar' = Reported(req[q].actions), lock' \in Requests \cup {NoHolder},
         req' \in [Requests -> Snapshot], Holds', Snapshots',
         \A p \in Requests : p # q => req'[p] = req[p],
         \/ NextIntent(req[q].run, req[q].actions, req[q].docs) = {}
         \/ req'[q].pc = "insert" /\ req'[q].actions = req[q].actions
  PROVE  PlanningInv'
<1>1. Types /\ Snapshots /\ Steps /\ Checkpoint /\ Books /\ RunHistory /\ OneOpen /\ Drafting
      /\ SidecarFollowsReceipts
  BY DEF PlanningInv
<1>2. RunHistory' /\ run' \in RunTyped
  BY <1>1, SameRunHistory
<1>3. CASE sidecar' = sidecar
  <2>1. \A p \in Requests : req[p].pc = "insert" => Like(req[p], req'[p])
    BY DEF Like
  <2> QED  BY <1>2, <1>3, <2>1, QuietStep
<1>4. CASE sidecar' # sidecar
  <2>1. PICK s : s = sidecar'
    OBVIOUS
  <2>2. /\ Expecting(sidecar) /\ s = W!Completed(sidecar, sidecar.cur)
        /\ req[q].actions # <<>> /\ Agrees(q)
        /\ \E k \in DOMAIN actions : actions[k].step = sidecar.cur /\ Succeeded(actions[k])
    BY <1>4, <2>1, ReportedCompletes
  <2>3. /\ s \in W!Workflow /\ Done(s) /\ DOMAIN s.steps = DOMAIN sidecar.steps
        /\ \A i \in DOMAIN sidecar.steps : s.steps[i].intent = sidecar.steps[i].intent
    <3>1. PICK st \in W!Workflow : st = sidecar
      BY <1>1 DEF Types
    <3>2. Expecting(st) /\ s = W!Completed(st, st.cur)
      BY <2>2, <3>1
    <3> QED  BY <3>1, <3>2, CompletedDone
  <2>4. Types' /\ Books' /\ OneOpen'
    BY <1>1, <2>1, <2>3 DEF Types, Books, OneOpen
  <2>5. Checkpoint'
    BY <2>1, <2>3 DEF Checkpoint
  <2>6. Steps'
    <3>1. \A k \in DOMAIN actions : ~ Open(actions[k])
      BY <1>1, <2>2, NothingOpen
    <3> QED  BY <1>1, <2>1, <2>3, <3>1 DEF Steps
  <2>7. SidecarFollowsReceipts'
    <3>1. ASSUME NEW i \in DOMAIN s.steps
          PROVE  \E k \in DOMAIN actions : actions[k].step = i /\ Succeeded(actions[k])
      <4>1. CASE i = sidecar.cur
        BY <2>2, <4>1
      <4>2. CASE i # sidecar.cur
        BY <1>1, <2>2, <2>3, <4>2 DEF Expecting, SidecarFollowsReceipts
      <4> QED  BY <4>1, <4>2
    <3> QED  BY <2>1, <3>1 DEF SidecarFollowsReceipts
  <2>8. Drafting'
    <3>1. Drafts(docs) = {} \/ (req'[q].pc = "insert" /\ req'[q].actions # <<>>)
      <4>1. CASE NextIntent(req[q].run, req[q].actions, req[q].docs) = {}
        <5>1. \A t \in DOMAIN Stages : Unpromoted(req[q].actions, req[q].docs, t) = {}
          BY <4>1 DEF NextIntent
        <5> QED  BY <1>1, <2>2, <5>1, NoDraftLeft
      <4> QED  BY <2>2, <4>1
    <3> QED  BY <1>1, <3>1 DEF Drafting
  <2> QED  BY <1>2, <2>4, <2>5, <2>6, <2>7, <2>8 DEF PlanningInv
<1> QED  BY <1>3, <1>4

LEMMA PlanStep ==
  ASSUME PlanningInv, NEW q \in Requests, Plan(q)
  PROVE  PlanningInv'
<1>1. req[q].pc = "plan" /\ UNCHANGED <<run, docs, actions>> /\ Types /\ Holds /\ Snapshots /\ RunHistory
  BY DEF PlanningInv, Plan
<1>2. Len(docs) <= Len(docs') /\ Len(docs') \in Nat
  BY <1>1 DEF Types
<1>3. \A p \in Requests : Agrees(p) => Match(req[p].actions, req[p].docs, actions', docs')
  BY <1>1 DEF Agrees
<1>4. CASE Finish(q) /\ UNCHANGED sidecar
  <2>1. run' \in RunTyped /\ RunHistory'
    BY <1>1, SameRunHistory
  <2> QED  BY <1>1, <1>4, <2>1, FinishStep
<1>5. CASE /\ \A k \in DOMAIN req[q].actions : ~ Open(req[q].actions[k])
           /\ NextIntent(req[q].run, req[q].actions, req[q].docs) = {}
           /\ sidecar' = Reported(req[q].actions) /\ Finish(q)
  <2>1. /\ req' \in [Requests -> Snapshot] /\ lock' \in Requests \cup {NoHolder} /\ Holds'
        /\ \A p \in Requests : req'[p].pc = "idle" \/ Like(req[p], req'[p])
    BY <1>1, <1>5, FinishHolds
  <2>2. Snapshots'
    BY <1>1, <1>2, <1>3, <2>1, SnapshotsStep
  <2>3. \A p \in Requests : p # q => req'[p] = req[p]
    BY <1>1, <1>5, AnsweredFields DEF Finish, Types
  <2> QED  BY <1>1, <1>5, <2>1, <2>2, <2>3, AdvanceStep
<1>6. CASE /\ \A k \in DOMAIN req[q].actions : ~ Open(req[q].actions[k])
           /\ NextIntent(req[q].run, req[q].actions, req[q].docs) # {}
           /\ sidecar' = Reported(req[q].actions)
           /\ req' = [req EXCEPT ![q].pc = "insert"] /\ UNCHANGED lock
  <2>1. /\ req' \in [Requests -> Snapshot] /\ req'[q].pc = "insert"
        /\ req'[q].run = req[q].run /\ req'[q].docs = req[q].docs
        /\ req'[q].actions = req[q].actions
        /\ \A p \in Requests : p # q => req'[p] = req[p]
    <3>1. PICK new : new = [req[q] EXCEPT !.pc = "insert"]
      OBVIOUS
    <3>2. req' = [req EXCEPT ![q] = new]
      BY <1>1, <1>6, <3>1 DEF Types
    <3>3. /\ new \in Snapshot /\ new.pc = "insert" /\ new.run = req[q].run
          /\ new.docs = req[q].docs /\ new.actions = req[q].actions
      BY <1>1, <3>1 DEF Types, Snapshot, PCs
    <3> QED  BY <1>1, <3>2, <3>3 DEF Types
  <2>2. Holds' /\ lock' \in Requests \cup {NoHolder}
    BY <1>1, <1>6, <2>1 DEF Holds, Types
  <2>3. Seen(q)' /\ Ahead(q)' /\ (Current(q)' => Agrees(q)')
    <3>1. Seen(q) /\ (Current(q) => Agrees(q))
      BY <1>1 DEF Snapshots
    <3>2. Seen(q)'
      BY <1>1, <2>1, <3>1 DEF Seen
    <3>3. Ahead(q)'
      BY <1>6, <2>1 DEF Ahead
    <3>4. Current(q)' => Current(q)
      BY <1>1, <2>1 DEF Current
    <3>5. Agrees(q) => Agrees(q)'
      BY <1>1, <2>1 DEF Agrees
    <3> QED  BY <3>1, <3>2, <3>3, <3>4, <3>5
  <2>4. \A p \in Requests :
           \/ req'[p].pc = "idle" \/ Like(req[p], req'[p]) \/ Enters(req[p], req'[p])
           \/ Seen(p)' /\ Ahead(p)' /\ (Current(p)' => Agrees(p)')
    BY <2>1, <2>3 DEF Like
  <2>5. Snapshots'
    BY <1>1, <1>2, <1>3, <2>4, SnapshotsStep
  <2> QED  BY <1>1, <1>6, <2>1, <2>2, <2>5, AdvanceStep
<1> QED  BY <1>4, <1>5, <1>6 DEF Plan

----------------------------------------------------------------------------
(* A candidate is inserted, or refused                                     *)

\* An Action is saved while nobody plans: no snapshot with an Action is current.
LEMMA OutdatedStep ==
  ASSUME Types, Snapshots, Len(docs) <= Len(docs'), Len(docs') \in Nat,
         NEW rs \in [Requests -> Snapshot],
         \A p \in Requests : rs[p].pc = "idle" \/ rs[p] = req[p],
         \A p \in Requests : rs[p].pc \notin {"plan", "insert"},
         req' = Outdated(rs), lock' = NoHolder
  PROVE  req' \in [Requests -> Snapshot] /\ Snapshots' /\ Holds'
<1>1. /\ req' \in [Requests -> Snapshot]
      /\ \A p \in Requests : /\ Like(rs[p], req'[p])
                             /\ req'[p].pc = "lock" => req'[p].stale
  BY OutdatedFields
<1>2. \A p \in Requests : req'[p].pc \in {"idle", "lock"}
  BY <1>1 DEF Like, Snapshot, PCs
<1>3. Holds'
  BY <1>2, PlanningAssumption DEF Holds
<1>4. ASSUME NEW p \in Requests
      PROVE  Seen(p)' /\ Ahead(p)' /\ (Current(p)' => Agrees(p)')
  <2>1. Seen(p) /\ Len(req[p].docs) \in Nat /\ Len(docs) \in Nat
    BY DEF Snapshots, Types, Snapshot
  <2>2. req'[p].pc # "idle" => Like(req[p], req'[p])
    BY <1>1 DEF Like
  <2>3. Seen(p)'
    BY <2>1, <2>2 DEF Seen, Like
  <2>4. Ahead(p)' /\ ~ Current(p)'
    BY <1>1, <1>2 DEF Ahead, Current
  <2> QED  BY <2>3, <2>4
<1> QED  BY <1>1, <1>3, <1>4 DEF Snapshots

\* What Insert knows of the intent it has planned.
Inserting(q, c) ==
  /\ req[q].pc = "insert" /\ c \in CandidateIntents
  /\ c.ver = req[q].run.ver /\ c.src \in DOMAIN docs
  /\ NextOK(req[q].run, req[q].actions, req[q].docs, c)
  /\ \A k \in DOMAIN req[q].actions : ~ Open(req[q].actions[k])
  /\ req[q].actions # <<>> => Agrees(q)
  /\ req[q].actions = <<>> => c.ver = 0 /\ req[q].run.state = "PROPOSED"

LEMMA InsertKnows ==
  ASSUME PlanningInv, NEW q \in Requests, req[q].pc = "insert",
         NEW c, c = CHOOSE i \in NextIntent(req[q].run, req[q].actions, req[q].docs) : TRUE
  PROVE  Inserting(q, c)
<1>1. Types /\ Seen(q) /\ Ahead(q) /\ (Current(q) => Agrees(q))
  BY DEF PlanningInv, Snapshots
<1>2. c \in NextIntent(req[q].run, req[q].actions, req[q].docs)
  BY <1>1 DEF Ahead
<1>3. req[q].run \in SeenRun /\ req[q].docs \in Seq(Doc) /\ req[q].docs # <<>>
  BY <1>1 DEF Types, Snapshot, Seen
<1>4. NextOK(req[q].run, req[q].actions, req[q].docs, c)
  BY <1>2, <1>3, NextIntentOK
<1>5. c.src \in DOMAIN docs
  <2>1. Len(req[q].docs) <= Len(docs) /\ docs \in Seq(Doc)
    BY <1>1 DEF Types, Seen
  <2> QED  BY <1>3, <1>4, <2>1 DEF NextOK
<1>6. req[q].actions # <<>> => Agrees(q)
  BY <1>1 DEF Current
<1>7. req[q].actions = <<>> => c.ver = 0 /\ req[q].run.state = "PROPOSED"
  BY <1>1, <1>4 DEF Seen, NextOK
<1> QED  BY <1>1, <1>4, <1>5, <1>6, <1>7 DEF Inserting, NextOK, Ahead

\* Nothing is open where the checkpoint has no step that waits.
LEMMA NoneWaits ==
  ASSUME Types, Steps, sidecar.steps = <<>> \/ Done(sidecar)
  PROVE  \A k \in DOMAIN actions : sidecar.steps # <<>> /\ ~ Open(actions[k])
<1>1. \A k \in DOMAIN actions : actions[k].step \in DOMAIN sidecar.steps
                                /\ (Open(actions[k]) => actions[k].step = sidecar.cur)
  BY DEF Steps
<1>2. sidecar.steps \in Seq(W!Step)
  BY DEF Types, W!Workflow
<1> QED  BY <1>1, <1>2 DEF Done

\* A snapshot of version 0 with an Action in it saw no receipt.
LEMMA NothingDone ==
  ASSUME PlanningInv, NEW q \in Requests, NEW c, Inserting(q, c), c.ver = 0,
         req[q].actions # <<>>
  PROVE  sidecar.steps # <<>> /\ ~ Done(sidecar)
<1>1. Types /\ Seen(q) /\ Steps /\ SidecarFollowsReceipts /\ Agrees(q)
  BY DEF PlanningInv, Snapshots, Inserting
<1>2. DOMAIN actions = DOMAIN req[q].actions /\ 1 \in DOMAIN actions
  BY <1>1 DEF Agrees, Match, Types, Snapshot
<1>3. \A k \in DOMAIN actions : actions[k].receipt = "none"
  <2>1. \A k \in DOMAIN actions : actions[k].receipt = req[q].actions[k].receipt
    BY <1>1 DEF Agrees, Match, Kept
  <2>2. req[q].run.ver = 0 /\ req[q].pc = "insert"
    BY DEF Inserting
  <2> QED  BY <1>1, <1>2, <2>1, <2>2 DEF Seen
<1>4. sidecar.steps # <<>>
  BY <1>1, <1>2 DEF Steps
<1>5. 1 \in DOMAIN sidecar.steps
  BY <1>1, <1>4 DEF Types, W!Workflow
<1>6. ~ Done(sidecar)
  BY <1>1, <1>3, <1>5 DEF Done, SidecarFollowsReceipts, Succeeded
<1> QED  BY <1>4, <1>6

\* The checkpoint refuses an intent that is done already: it promotes no draft.
LEMMA RefusedNoDraft ==
  ASSUME PlanningInv, NEW q \in Requests, NEW c, Inserting(q, c), ~ Accepts(c), Done(sidecar),
         req[q].actions # <<>>
  PROVE  Drafts(docs) = {}
<1>1. Types /\ Books /\ Steps /\ SidecarFollowsReceipts /\ Agrees(q)
  BY DEF PlanningInv, Inserting
<1>2. PICK i \in DOMAIN sidecar.steps : sidecar.steps[i].intent = c
  BY DEF Accepts, Done
<1>3. PICK k \in DOMAIN actions : actions[k].step = i /\ Succeeded(actions[k])
  BY <1>1, <1>2 DEF Done, SidecarFollowsReceipts
<1>4. actions[k].intent = c
  BY <1>1, <1>2, <1>3 DEF Steps
<1>5. /\ k \in DOMAIN req[q].actions /\ req[q].actions[k].intent = c /\ Succeeded(req[q].actions[k])
  BY <1>1, <1>3, <1>4 DEF Agrees, Match, Kept, Succeeded, Types, Snapshot
<1>6. \A s \in DOMAIN Stages : c.type = Stages[s].submit =>
        c.src \notin Unpromoted(req[q].actions, req[q].docs, s)
  BY <1>5 DEF Unpromoted
<1>7. \A s \in DOMAIN Stages : Unpromoted(req[q].actions, req[q].docs, s) = {}
  BY <1>6 DEF Inserting, NextOK
<1>8. \A l \in DOMAIN req[q].actions : ~ Open(req[q].actions[l])
  BY DEF Inserting
<1> QED  BY <1>1, <1>7, <1>8, NoDraftLeft

Duplicate(c, n) ==
  \E k \in DOMAIN actions : /\ actions[k].n = n /\ actions[k].intent.goal = c.goal
                            /\ [actions[k].intent EXCEPT !.ver = c.ver] = c

\* Of a first candidate the checkpoint knows, the Action is there.
LEMMA FirstDuplicate ==
  ASSUME Types, Steps, NEW c \in CandidateIntents, c.ver = 0,
         NEW k \in DOMAIN actions, actions[k].n = 1
  PROVE  actions[k].intent = c <=> /\ actions[k].intent.goal = c.goal
                                   /\ [actions[k].intent EXCEPT !.ver = c.ver] = c
<1>1. actions[k].intent \in CandidateIntents /\ actions[k].intent.ver = 0
  <2>1. actions[k] \in Action
    BY DEF Types
  <2>2. actions[k].intent.ver = 0
    BY DEF Steps
  <2> QED  BY <2>1, <2>2 DEF Action
<1>2. ASSUME NEW a \in CandidateIntents, a.ver = 0
      PROVE  [a EXCEPT !.ver = c.ver] = a
  BY <1>2 DEF CandidateIntents
<1> QED  BY <1>1, <1>2

\* Where a candidate was refused after the checkpoint took it, it was there.
LEMMA PlannedSteps ==
  ASSUME PlanningInv, NEW q \in Requests, NEW c, Inserting(q, c), Accepts(c),
         NEW s, s = Planned(c)
  PROVE  /\ s \in W!Workflow /\ Expecting(s) /\ s.cur \in DOMAIN s.steps
         /\ s.steps[s.cur].intent = c
         /\ \A k \in DOMAIN actions :
              /\ actions[k].step \in DOMAIN s.steps
              /\ s.steps[actions[k].step].intent = actions[k].intent
              /\ Open(actions[k]) => actions[k].step = s.cur
              /\ actions[k].n = 1 => actions[k].intent.ver = 0
         /\ \A i \in DOMAIN s.steps : i # s.cur /\ s.steps[i].intent.ver = 0 =>
              \E k \in DOMAIN actions : actions[k].n = 1 /\ actions[k].intent = s.steps[i].intent
         /\ c.ver = 0 => \/ \E k \in DOMAIN actions : actions[k].n = 1 /\ actions[k].intent = c
                         \/ req[q].actions = <<>>
         /\ \A i \in DOMAIN s.steps : s.steps[i].status = "SUCCEEDED" =>
              \E k \in DOMAIN actions : actions[k].step = i /\ Succeeded(actions[k])
<1>1. Types /\ Steps /\ Checkpoint /\ SidecarFollowsReceipts /\ c \in CandidateIntents
  BY DEF PlanningInv, Inserting
<1>2. /\ s \in W!Workflow /\ Expecting(s) /\ s.steps[s.cur].intent = c
      /\ \A i \in DOMAIN sidecar.steps : i \in DOMAIN s.steps /\ s.steps[i].intent = sidecar.steps[i].intent
      /\ \A i \in DOMAIN s.steps : i \in DOMAIN sidecar.steps \/ i = s.cur
      /\ \A i \in DOMAIN s.steps : s.steps[i].status = "SUCCEEDED" =>
           i \in DOMAIN sidecar.steps /\ sidecar.steps[i].status = "SUCCEEDED"
      /\ \/ Awaits(c) /\ s = sidecar
         \/ sidecar.steps = <<>>
         \/ Done(sidecar)
  <2>1. sidecar \in W!Workflow
    BY <1>1 DEF Types
  <2> QED  BY <1>1, <2>1, PlannedWaits
<1>3. s.cur \in DOMAIN s.steps
  BY <1>2 DEF Expecting, W!Workflow
<1>4. ASSUME NEW k \in DOMAIN actions
      PROVE  /\ actions[k].step \in DOMAIN s.steps
             /\ s.steps[actions[k].step].intent = actions[k].intent
             /\ Open(actions[k]) => actions[k].step = s.cur
             /\ actions[k].n = 1 => actions[k].intent.ver = 0
  <2>1. /\ actions[k].step \in DOMAIN sidecar.steps
        /\ sidecar.steps[actions[k].step].intent = actions[k].intent
        /\ Open(actions[k]) => actions[k].step = sidecar.cur
        /\ actions[k].n = 1 => actions[k].intent.ver = 0
    BY <1>1 DEF Steps
  <2>2. s = sidecar \/ ~ Open(actions[k])
    BY <1>1, <1>2, NoneWaits
  <2> QED  BY <1>2, <2>1, <2>2
<1>5. ASSUME NEW i \in DOMAIN s.steps, i # s.cur, s.steps[i].intent.ver = 0
      PROVE  \E k \in DOMAIN actions : actions[k].n = 1 /\ actions[k].intent = s.steps[i].intent
  BY <1>1, <1>2, <1>5 DEF Steps
<1>6. ASSUME c.ver = 0, req[q].actions # <<>>
      PROVE  \E k \in DOMAIN actions : actions[k].n = 1 /\ actions[k].intent = c
  <2>1. s = sidecar
    BY <1>2, <1>6, NothingDone
  <2> QED  BY <1>1, <1>2, <1>3, <1>6, <2>1 DEF Steps
<1>7. ASSUME NEW i \in DOMAIN s.steps, s.steps[i].status = "SUCCEEDED"
      PROVE  \E k \in DOMAIN actions : actions[k].step = i /\ Succeeded(actions[k])
  BY <1>1, <1>2, <1>7 DEF SidecarFollowsReceipts
<1> QED  BY <1>2, <1>3, <1>4, <1>5, <1>6, <1>7

LEMMA RefusedStep ==
  ASSUME PlanningInv, NEW q \in Requests, NEW c, Inserting(q, c), UseSidecar,
         sidecar' = IF Accepts(c) THEN Planned(c) ELSE sidecar,
         Accepts(c) => \/ Duplicate(c, Len(req[q].actions) + 1)
                       \/ req[q].run.state \notin {"PROPOSED", "EXECUTING"},
         Finish(q), UNCHANGED <<run, docs, actions>>
  PROVE  PlanningInv'
<1>1. Types /\ Holds /\ Snapshots /\ RunHistory /\ Books /\ Steps /\ Checkpoint /\ OneOpen /\ Drafting
      /\ SidecarFollowsReceipts /\ req[q].pc = "insert"
  BY DEF PlanningInv, Inserting
<1>2. /\ req' \in [Requests -> Snapshot] /\ lock' \in Requests \cup {NoHolder} /\ Holds'
      /\ \A p \in Requests : req'[p].pc = "idle" \/ Like(req[p], req'[p])
  BY <1>1, FinishHolds
<1>3. Snapshots'
  <2>1. Len(docs) <= Len(docs') /\ Len(docs') \in Nat
    BY <1>1 DEF Types
  <2>2. \A p \in Requests : Agrees(p) => Match(req[p].actions, req[p].docs, actions', docs')
    BY DEF Agrees
  <2> QED  BY <1>1, <1>2, <2>1, <2>2, SnapshotsStep
<1>4. RunHistory' /\ run' \in RunTyped
  BY <1>1, SameRunHistory
<1>5. \A p \in Requests : req[p].pc = "insert" => p = q
  BY <1>1 DEF Holds
<1>6. CASE ~ Accepts(c)
  <2>1. Types' /\ Books' /\ Checkpoint' /\ Steps' /\ OneOpen'
    BY <1>1, <1>2, <1>6 DEF Types, Books, Checkpoint, Steps, OneOpen
  <2>2. SidecarFollowsReceipts'
    BY <1>1, <1>6 DEF SidecarFollowsReceipts
  <2>3. Drafting'
    <3>1. Done(sidecar) => Drafts(docs) = {}
      BY <1>1, <1>5, <1>6, RefusedNoDraft DEF Drafting
    <3> QED  BY <1>1, <1>6, <3>1 DEF Drafting
  <2> QED  BY <1>2, <1>3, <1>4, <2>1, <2>2, <2>3 DEF PlanningInv
<1>7. CASE Accepts(c)
  <2>1. PICK s : s = sidecar'
    OBVIOUS
  <2>2. s = Planned(c)
    BY <1>7, <2>1
  <2>3. /\ s \in W!Workflow /\ Expecting(s) /\ s.cur \in DOMAIN s.steps
        /\ s.steps[s.cur].intent = c
        /\ \A k \in DOMAIN actions :
             /\ actions[k].step \in DOMAIN s.steps
             /\ s.steps[actions[k].step].intent = actions[k].intent
             /\ Open(actions[k]) => actions[k].step = s.cur
             /\ actions[k].n = 1 => actions[k].intent.ver = 0
        /\ \A i \in DOMAIN s.steps : i # s.cur /\ s.steps[i].intent.ver = 0 =>
             \E k \in DOMAIN actions : actions[k].n = 1 /\ actions[k].intent = s.steps[i].intent
        /\ c.ver = 0 => \/ \E k \in DOMAIN actions : actions[k].n = 1 /\ actions[k].intent = c
                        \/ req[q].actions = <<>>
        /\ \A i \in DOMAIN s.steps : s.steps[i].status = "SUCCEEDED" =>
             \E k \in DOMAIN actions : actions[k].step = i /\ Succeeded(actions[k])
    BY <1>7, <2>2, PlannedSteps
  <2>4. c.ver = 0 => \E k \in DOMAIN actions : actions[k].n = 1 /\ actions[k].intent = c
    <3>1. ASSUME c.ver = 0, req[q].actions = <<>>
          PROVE  \E k \in DOMAIN actions : actions[k].n = 1 /\ actions[k].intent = c
      <4>1. req[q].run.state = "PROPOSED" /\ c \in CandidateIntents
        BY <3>1 DEF Inserting
      <4>2. Duplicate(c, 1)
        <5>1. Len(req[q].actions) + 1 = 1
          BY <3>1
        <5> QED  BY <1>7, <4>1, <5>1
      <4>3. PICK k \in DOMAIN actions : /\ actions[k].n = 1 /\ actions[k].intent.goal = c.goal
                                        /\ [actions[k].intent EXCEPT !.ver = c.ver] = c
        BY <4>2 DEF Duplicate
      <4>4. actions[k].intent = c
        BY <1>1, <3>1, <4>1, <4>3, FirstDuplicate
      <4> QED  BY <4>3, <4>4
    <3> QED  BY <2>3, <3>1
  <2>5. Types' /\ Books' /\ OneOpen'
    BY <1>1, <1>2, <2>1, <2>3 DEF Types, Books, OneOpen
  <2>6. Checkpoint' /\ ~ Done(sidecar')
    BY <2>1, <2>3 DEF Checkpoint, Expecting, Done
  <2>7. Steps'
    <3>1. \A i \in DOMAIN s.steps : s.steps[i].intent.ver = 0 =>
            \E k \in DOMAIN actions : actions[k].n = 1 /\ actions[k].intent = s.steps[i].intent
      BY <2>3, <2>4
    <3> QED  BY <2>1, <2>3, <3>1 DEF Steps
  <2>8. SidecarFollowsReceipts'
    BY <2>1, <2>3 DEF SidecarFollowsReceipts
  <2>9. Drafting'
    BY <1>1, <2>6 DEF Drafting
  <2> QED  BY <1>2, <1>3, <1>4, <2>5, <2>6, <2>7, <2>8, <2>9 DEF PlanningInv
<1> QED  BY <1>6, <1>7

\* Nothing is open when a candidate is inserted, and none is a draft it would follow.
LEMMA InsertAlone ==
  ASSUME PlanningInv, NEW q \in Requests, NEW c, Inserting(q, c), Accepts(c),
         ~ Duplicate(c, Len(req[q].actions) + 1)
  PROVE  /\ \A k \in DOMAIN actions : ~ Open(actions[k])
         /\ c.type \in Creates => Drafts(docs) = {}
<1>1. Types /\ Holds /\ Books /\ Steps /\ Checkpoint /\ Drafting /\ c \in CandidateIntents
      /\ req[q].pc = "insert"
  BY DEF PlanningInv, Inserting
<1>2. CASE req[q].actions # <<>>
  <2>1. Agrees(q) /\ \A k \in DOMAIN req[q].actions : ~ Open(req[q].actions[k])
    BY <1>2 DEF Inserting
  <2>2. \A k \in DOMAIN actions : ~ Open(actions[k])
    BY <1>1, <2>1, NothingOpen
  <2>3. ASSUME c.type \in Creates PROVE Drafts(docs) = {}
    <3>1. \A s \in DOMAIN Stages : c.type # Stages[s].submit
      BY <2>3, StageDomain
    <3>2. \A s \in DOMAIN Stages : Unpromoted(req[q].actions, req[q].docs, s) = {}
      BY <3>1 DEF Inserting, NextOK
    <3> QED  BY <1>1, <2>1, <3>2, NoDraftLeft
  <2> QED  BY <2>2, <2>3
<1>3. CASE req[q].actions = <<>>
  <2>1. c.ver = 0
    BY <1>3 DEF Inserting
  <2>2. sidecar.steps = <<>> \/ Done(sidecar)
    <3>1. SUFFICES ASSUME Awaits(c), sidecar.steps # <<>>, ~ Done(sidecar) PROVE FALSE
      <4>1. W!NoWorkflow.steps = <<>>
        BY DEF W!NoWorkflow
      <4> QED  BY <1>1, <4>1 DEF Accepts, Checkpoint, Expecting
    <3>2. sidecar.cur \in DOMAIN sidecar.steps /\ sidecar.steps[sidecar.cur].intent = c
      <4>1. Expecting(sidecar)
        <5>1. W!NoWorkflow.steps = <<>>
          BY DEF W!NoWorkflow
        <5> QED  BY <1>1, <3>1, <5>1 DEF Checkpoint
      <4> QED  BY <1>1, <3>1, <4>1 DEF Expecting, Awaits, Types, W!Workflow
    <3>3. PICK k \in DOMAIN actions : actions[k].n = 1 /\ actions[k].intent = c
      BY <1>1, <2>1, <3>2 DEF Steps
    <3>4. actions[k].intent.goal = c.goal /\ [actions[k].intent EXCEPT !.ver = c.ver] = c
      BY <1>1, <2>1, <3>3, FirstDuplicate
    <3>5. Len(req[q].actions) + 1 = 1
      BY <1>3
    <3> QED  BY <3>3, <3>4, <3>5 DEF Duplicate
  <2>3. \A k \in DOMAIN actions : sidecar.steps # <<>> /\ ~ Open(actions[k])
    BY <1>1, <2>2, NoneWaits
  <2>4. Drafts(docs) = {}
    <3>1. CASE sidecar.steps = <<>>
      <4>1. DOMAIN actions = {}
        BY <2>3, <3>1
      <4> QED  BY <1>1, <4>1 DEF Books
    <3>2. CASE Done(sidecar)
      <4>1. \A p \in Requests : req[p].pc = "insert" => p = q
        BY <1>1 DEF Holds
      <4> QED  BY <1>1, <1>3, <3>2, <4>1 DEF Drafting
    <3> QED  BY <2>2, <3>1, <3>2
  <2> QED  BY <2>3, <2>4
<1> QED  BY <1>2, <1>3

LEMMA InsertedStep ==
  ASSUME PlanningInv, NEW q \in Requests, NEW c, Inserting(q, c), UseSidecar, Accepts(c),
         ~ Duplicate(c, Len(req[q].actions) + 1), Len(actions) < MaxActions,
         NEW s, s = Planned(c), sidecar' = s,
         NEW state \in {"AWAITING_APPROVAL", "POLICY_REJECTED"},
         NEW new, new = [intent |-> c, n |-> Len(req[q].actions) + 1, state |-> state,
                         receipt |-> "none", tgt |-> 0, step |-> s.cur],
         actions' = Append(actions, new),
         req' = Outdated(Answered(q)), Unlock(q), UNCHANGED <<run, docs>>
  PROVE  PlanningInv'
<1>1. Types /\ Holds /\ Snapshots /\ RunHistory /\ Books /\ Steps /\ Checkpoint /\ OneOpen /\ Drafting
      /\ SidecarFollowsReceipts /\ req[q].pc = "insert" /\ c \in CandidateIntents
      /\ c.src \in DOMAIN docs
  BY DEF PlanningInv, Inserting
<1>2. /\ s \in W!Workflow /\ Expecting(s) /\ s.cur \in DOMAIN s.steps
      /\ s.steps[s.cur].intent = c
      /\ \A k \in DOMAIN actions :
           /\ actions[k].step \in DOMAIN s.steps
           /\ s.steps[actions[k].step].intent = actions[k].intent
           /\ Open(actions[k]) => actions[k].step = s.cur
           /\ actions[k].n = 1 => actions[k].intent.ver = 0
      /\ \A i \in DOMAIN s.steps : i # s.cur /\ s.steps[i].intent.ver = 0 =>
           \E k \in DOMAIN actions : actions[k].n = 1 /\ actions[k].intent = s.steps[i].intent
      /\ c.ver = 0 => \/ \E k \in DOMAIN actions : actions[k].n = 1 /\ actions[k].intent = c
                      \/ req[q].actions = <<>>
      /\ \A i \in DOMAIN s.steps : s.steps[i].status = "SUCCEEDED" =>
           \E k \in DOMAIN actions : actions[k].step = i /\ Succeeded(actions[k])
  BY PlannedSteps
<1>3. /\ \A k \in DOMAIN actions : ~ Open(actions[k])
      /\ c.type \in Creates => Drafts(docs) = {}
  BY InsertAlone
<1> DEFINE m == Len(actions) + 1
<1>4. /\ new \in Action /\ new.intent = c /\ new.receipt = "none" /\ new.step = s.cur
      /\ new.n = 1 <=> req[q].actions = <<>>
      /\ ~ Landed(new) /\ ~ Succeeded(new)
  <2>1. Len(req[q].actions) \in Nat /\ (Len(req[q].actions) = 0 <=> req[q].actions = <<>>)
    BY <1>1 DEF Types, Snapshot
  <2>2. s.cur \in Nat
    BY <1>2 DEF W!Workflow
  <2>3. new \in Action
    BY <1>1, <2>1, <2>2 DEF Action, OpenStates
  <2> QED  BY <2>1, <2>3 DEF Landed, Succeeded
<1>5. /\ actions' \in Seq(Action) /\ Len(actions') = Len(actions) + 1
      /\ DOMAIN actions' = DOMAIN actions \cup {m} /\ m \notin DOMAIN actions
      /\ \A k \in DOMAIN actions : actions'[k] = actions[k]
      /\ actions'[m] = new /\ actions' # <<>>
  BY <1>1, <1>4, AppendFields DEF Types
<1> HIDE DEF m
<1>6. /\ req' \in [Requests -> Snapshot] /\ Snapshots' /\ Holds'
      /\ lock' = NoHolder
  <2>1. PICK rs : rs = Answered(q)
    OBVIOUS
  <2>2. rs \in [Requests -> Snapshot] /\ rs[q].pc = "idle" /\ \A p \in Requests : p # q => rs[p] = req[p]
    BY <1>1, <2>1, AnsweredFields DEF Types
  <2>3. \A p \in Requests : rs[p].pc \notin {"plan", "insert"}
    BY <1>1, <2>2 DEF Holds
  <2>4. lock' = NoHolder
    BY <1>1 DEF Unlock, Holds
  <2>5. Len(docs) <= Len(docs') /\ Len(docs') \in Nat
    BY <1>1 DEF Types
  <2>6. \A p \in Requests : rs[p].pc = "idle" \/ rs[p] = req[p]
    BY <2>2
  <2>7. req' = Outdated(rs)
    BY <2>1
  <2> QED  BY <1>1, <2>2, <2>3, <2>4, <2>5, <2>6, <2>7, OutdatedStep
<1>7. Types'
  <2>1. Len(actions') <= MaxActions
    BY <1>1, <1>5, PlanningAssumption DEF Types
  <2> QED  BY <1>1, <1>2, <1>5, <1>6, <2>1 DEF Types
<1>8. RunHistory'
  BY <1>1, <1>4, <1>5 DEF RunHistory
<1>9. Books'
  <2>1. ASSUME NEW k \in DOMAIN actions'
        PROVE  /\ actions'[k].intent.src \in DOMAIN docs
               /\ Succeeded(actions'[k]) => actions'[k].state = "EXECUTED"
               /\ Landed(actions'[k]) => actions'[k].tgt \in DOMAIN docs
               /\ Landed(actions'[k]) /\ actions'[k].intent.type \in Submits
                    => docs[actions'[k].intent.src].submitted
    BY <1>1, <1>4, <1>5 DEF Books
  <2>2. ASSUME NEW i \in Drafts(docs)
        PROVE  \E k \in DOMAIN actions' :
                 /\ actions'[k].intent.type \in Creates /\ Landed(actions'[k]) /\ actions'[k].tgt = i
                 /\ Kind(actions'[k].intent.type) = docs[i].kind
    BY <1>1, <1>5 DEF Books
  <2> QED  BY <1>1, <2>1, <2>2 DEF Books
<1>10. Checkpoint' /\ ~ Done(sidecar')
  BY <1>2 DEF Checkpoint, Expecting, Done
<1>11. Steps'
  <2>1. ASSUME NEW k \in DOMAIN actions'
        PROVE  /\ actions'[k].step \in DOMAIN s.steps
               /\ s.steps[actions'[k].step].intent = actions'[k].intent
               /\ Open(actions'[k]) => actions'[k].step = s.cur
               /\ actions'[k].n = 1 => actions'[k].intent.ver = 0
    <3>1. CASE k \in DOMAIN actions
      BY <1>2, <1>5, <3>1
    <3>2. CASE k = m
      BY <1>2, <1>4, <1>5, <3>2 DEF Inserting
    <3> QED  BY <1>5, <3>1, <3>2
  <2>2. ASSUME NEW i \in DOMAIN s.steps, s.steps[i].intent.ver = 0
        PROVE  \E k \in DOMAIN actions' : actions'[k].n = 1 /\ actions'[k].intent = s.steps[i].intent
    <3>1. CASE i # s.cur
      BY <1>2, <1>5, <2>2, <3>1
    <3>2. CASE i = s.cur
      BY <1>2, <1>4, <1>5, <2>2, <3>2
    <3> QED  BY <3>1, <3>2
  <2> QED  BY <2>1, <2>2 DEF Steps
<1>12. SidecarFollowsReceipts'
  BY <1>2, <1>5 DEF SidecarFollowsReceipts
<1>13. OneOpen'
  BY <1>3, <1>5 DEF OneOpen
<1>14. Drafting'
  <2>1. \A i, j \in Drafts(docs) : i = j
    BY <1>1 DEF Drafting
  <2>2. ASSUME NEW k \in DOMAIN actions', actions'[k].state \in OpenStates,
               actions'[k].intent.type \in Creates
        PROVE  Drafts(docs) = {}
    <3>1. CASE k \in DOMAIN actions
      BY <1>3, <1>5, <2>2, <3>1 DEF Open
    <3>2. CASE k = m
      BY <1>3, <1>4, <1>5, <2>2, <3>2
    <3> QED  BY <1>5, <3>1, <3>2
  <2> QED  BY <1>10, <2>1, <2>2 DEF Drafting
<1> QED  BY <1>6, <1>7, <1>8, <1>9, <1>10, <1>11, <1>12, <1>13, <1>14 DEF PlanningInv

LEMMA InsertStep ==
  ASSUME PlanningInv, NEW q \in Requests, Insert(q), UseSidecar
  PROVE  PlanningInv'
<1>1. PICK c : c = CHOOSE i \in NextIntent(req[q].run, req[q].actions, req[q].docs) : TRUE
  OBVIOUS
<1>2. req[q].pc = "insert" /\ Len(actions) < MaxActions /\ Unlock(q) /\ UNCHANGED <<run, docs>>
  BY DEF Insert
<1>3. Inserting(q, c)
  BY <1>1, <1>2, InsertKnows
<1>4. sidecar' = IF Accepts(c) THEN Planned(c) ELSE sidecar
  BY <1>1 DEF Insert
<1>5. CASE /\ Accepts(c) /\ ~ Duplicate(c, Len(req[q].actions) + 1)
           /\ req[q].run.state \in {"PROPOSED", "EXECUTING"}
  <2>1. PICK s : s = Planned(c)
    OBVIOUS
  <2>2. sidecar' = s
    BY <1>4, <1>5, <2>1
  <2>3. PICK state \in {"AWAITING_APPROVAL", "POLICY_REJECTED"} :
          /\ actions' = Append(actions,
               [intent |-> c, n |-> Len(req[q].actions) + 1, state |-> state,
                receipt |-> "none", tgt |-> 0, step |-> s.cur])
          /\ req' = Outdated(Answered(q))
    BY <1>1, <1>5, <2>2 DEF Insert, Duplicate
  <2> QED  BY <1>2, <1>3, <1>5, <2>1, <2>2, <2>3, InsertedStep
<1>6. CASE \/ ~ Accepts(c) \/ Duplicate(c, Len(req[q].actions) + 1)
           \/ req[q].run.state \notin {"PROPOSED", "EXECUTING"}
  <2>1. req' = Answered(q) /\ UNCHANGED actions
    BY <1>1, <1>6 DEF Insert, Duplicate
  <2> QED  BY <1>2, <1>3, <1>4, <1>6, <2>1, RefusedStep DEF Finish
<1> QED  BY <1>5, <1>6

----------------------------------------------------------------------------
(* Decisions                                                               *)

\* A decision, or the expiry of a candidate of an old goal.
Restated(old, new) ==
  /\ new \in Action /\ new.intent = old.intent /\ new.n = old.n /\ new.receipt = old.receipt
  /\ new.tgt = old.tgt /\ new.step = old.step
  /\ \/ new.state = old.state
     \/ old.state \in OpenStates /\ new.state \in {"APPROVED", "DECLINED", "EXPIRED"}

LEMMA RestatedRow ==
  ASSUME NEW old, NEW new, Restated(old, new), Succeeded(old) => old.state = "EXECUTED"
  PROVE  /\ Open(new) => Open(old)
         /\ new.state \in OpenStates => old.state \in OpenStates
         /\ Landed(new) <=> Landed(old)
         /\ Succeeded(new) <=> Succeeded(old)
         /\ Succeeded(new) => new.state = "EXECUTED"
BY DEF Restated, Open, OpenStates, Landed, Succeeded

LEMMA RestatedStep ==
  ASSUME PlanningInv, UNCHANGED <<docs, sidecar>>, run' \in RunTyped,
         run'.state = run.state, run'.ver = run.ver,
         actions' \in Seq(Action), Len(actions') = Len(actions),
         \A k \in DOMAIN actions : Restated(actions[k], actions'[k]),
         lock' \in Requests \cup {NoHolder}, req' \in [Requests -> Snapshot], Holds', Snapshots',
         \A p \in Requests : req[p].pc = "insert" => Like(req[p], req'[p])
  PROVE  PlanningInv'
<1>1. Types /\ RunHistory /\ Books /\ Checkpoint /\ Steps /\ SidecarFollowsReceipts /\ OneOpen /\ Drafting
  BY DEF PlanningInv
<1>2. /\ DOMAIN actions' = DOMAIN actions
      /\ actions = <<>> <=> actions' = <<>>
  BY <1>1 DEF Types
<1>3. \A k \in DOMAIN actions :
        /\ Open(actions'[k]) => Open(actions[k])
        /\ actions'[k].state \in OpenStates => actions[k].state \in OpenStates
        /\ Landed(actions'[k]) <=> Landed(actions[k])
        /\ Succeeded(actions'[k]) <=> Succeeded(actions[k])
        /\ Succeeded(actions'[k]) => actions'[k].state = "EXECUTED"
  BY <1>1, RestatedRow DEF Books
<1>4. \A k \in DOMAIN actions :
        /\ actions'[k].intent = actions[k].intent /\ actions'[k].n = actions[k].n
        /\ actions'[k].receipt = actions[k].receipt /\ actions'[k].tgt = actions[k].tgt
        /\ actions'[k].step = actions[k].step
  BY DEF Restated
<1>5. Types' /\ Checkpoint'
  BY <1>1, <1>2 DEF Types, Checkpoint, RunTyped
<1>6. RunHistory'
  BY <1>1, <1>2, <1>4 DEF RunHistory
<1>7. Books'
  BY <1>1, <1>2, <1>3, <1>4 DEF Books
<1>8. Steps'
  BY <1>1, <1>2, <1>3, <1>4 DEF Steps
<1>9. SidecarFollowsReceipts' /\ OneOpen'
  BY <1>1, <1>2, <1>3, <1>4 DEF SidecarFollowsReceipts, OneOpen
<1>10. Drafting'
  <2>1. \A p \in Requests : req[p].pc = "insert" /\ req[p].actions # <<>> =>
                              req'[p].pc = "insert" /\ req'[p].actions # <<>>
    BY DEF Like
  <2> QED  BY <1>1, <1>2, <1>3, <1>4, <2>1 DEF Drafting
<1> QED  BY <1>5, <1>6, <1>7, <1>8, <1>9, <1>10 DEF PlanningInv

LEMMA ConfirmGoalStep ==
  ASSUME PlanningInv, NEW q \in Requests, NEW t \in Targets, ConfirmGoal(q, t)
  PROVE  PlanningInv'
<1>1. /\ req[q].pc = "lock" /\ Finish(q) /\ UNCHANGED <<docs, sidecar>>
      /\ Types /\ Holds /\ Snapshots /\ RunHistory
  BY DEF PlanningInv, ConfirmGoal
<1>2. CASE UNCHANGED <<run, actions>>
  <2>1. run' \in RunTyped /\ RunHistory'
    BY <1>1, <1>2, SameRunHistory
  <2> QED  BY <1>1, <1>2, <2>1, FinishStep
<1>3. CASE /\ run.goal < MaxGoal
           /\ run' = [run EXCEPT !.goal = @ + 1, !.target = t]
           /\ actions' = [k \in DOMAIN actions |->
                 IF k \in DOMAIN req[q].actions /\ req[q].actions[k].state \in OpenStates
                    /\ actions[k].state \in OpenStates
                 THEN [actions[k] EXCEPT !.state = "EXPIRED"] ELSE actions[k]]
  <2>1. run' \in RunTyped /\ run'.state = run.state /\ run'.ver = run.ver
    <3> DEFINE g == run.goal + 1
    <3>1. g \in 1..MaxGoal
      BY <1>1, <1>3, PlanningAssumption DEF Types
    <3>2. run' = [run EXCEPT !.goal = g, !.target = t]
      BY <1>3
    <3> HIDE DEF g
    <3> QED  BY <1>1, <3>1, <3>2 DEF Types, RunTyped
  <2>2. ASSUME NEW k \in DOMAIN actions PROVE Restated(actions[k], actions'[k])
    <3>1. actions[k] \in Action
      BY <1>1 DEF Types
    <3>2. \/ actions'[k] = actions[k]
          \/ actions[k].state \in OpenStates /\ actions'[k] = [actions[k] EXCEPT !.state = "EXPIRED"]
      BY <1>3
    <3> QED  BY <3>1, <3>2 DEF Restated, Action
  <2>3. actions' \in Seq(Action) /\ Len(actions') = Len(actions)
    <3>1. \A k \in DOMAIN actions : actions'[k] \in Action
      BY <2>2 DEF Restated
    <3>2. DOMAIN actions' = DOMAIN actions /\ actions' = [k \in DOMAIN actions' |-> actions'[k]]
      BY <1>3
    <3> QED  BY <1>1, <3>1, <3>2, RowsFields DEF Types
  <2>4. /\ req' \in [Requests -> Snapshot] /\ lock' \in Requests \cup {NoHolder} /\ Holds'
        /\ \A p \in Requests : req'[p].pc = "idle" \/ Like(req[p], req'[p])
    BY <1>1, FinishHolds
  <2>5. Snapshots'
    <3>1. Len(docs) <= Len(docs') /\ Len(docs') \in Nat
      BY <1>1 DEF Types
    <3>2. DOMAIN actions' = DOMAIN actions
      BY <1>3
    <3>3. \A k \in DOMAIN actions : \A a : Kept(a, actions[k]) => Kept(a, actions'[k])
      BY <2>2 DEF Kept, Restated, OpenStates
    <3>4. \A p \in Requests : Agrees(p) => Match(req[p].actions, req[p].docs, actions', docs')
      BY <1>1, <2>3, <3>2, <3>3 DEF Agrees, Match
    <3> QED  BY <1>1, <2>4, <3>1, <3>4, SnapshotsStep
  <2>6. \A p \in Requests : req[p].pc = "insert" => Like(req[p], req'[p])
    BY <1>1, AnsweredFields DEF Finish, Like, Types
  <2> QED  BY <1>1, <2>1, <2>2, <2>3, <2>4, <2>5, <2>6, RestatedStep
<1> QED  BY <1>2, <1>3 DEF ConfirmGoal

\* An Action is saved by an approver or an executor.
LEMMA SavedStep ==
  ASSUME Types, Holds, Snapshots, lock = NoHolder, UNCHANGED lock, req' = Outdated(req),
         Len(docs) <= Len(docs'), Len(docs') \in Nat
  PROVE  /\ req' \in [Requests -> Snapshot] /\ Snapshots' /\ Holds'
         /\ \A p \in Requests : req[p].pc # "insert"
<1>1. \A p \in Requests : req[p].pc \notin {"plan", "insert"}
  BY PlanningAssumption DEF Holds
<1>2. PICK rs : rs = req
  OBVIOUS
<1>3. rs \in [Requests -> Snapshot] /\ req' = Outdated(rs) /\ lock' = NoHolder
      /\ (\A p \in Requests : rs[p].pc = "idle" \/ rs[p] = req[p])
      /\ (\A p \in Requests : rs[p].pc \notin {"plan", "insert"})
  BY <1>1, <1>2 DEF Types
<1> QED  BY <1>1, <1>3, OutdatedStep

LEMMA DecideStep ==
  ASSUME PlanningInv, NEW k \in 1..MaxActions, NEW s \in {"APPROVED", "DECLINED", "EXPIRED"},
         Decide(k, s)
  PROVE  PlanningInv'
<1>1. /\ Types /\ Holds /\ Snapshots /\ lock = NoHolder /\ k \in DOMAIN actions
      /\ actions[k].state \in OpenStates /\ req' = Outdated(req)
      /\ UNCHANGED <<run, docs, sidecar, lock>>
  BY DEF PlanningInv, Decide, OpenStates
<1>2. PICK new : new = [actions[k] EXCEPT !.state = s]
  OBVIOUS
<1>3. actions' = [actions EXCEPT ![k] = new] /\ actions[k] \in Action
  BY <1>1, <1>2 DEF Types, Decide
<1>4. Restated(actions[k], new)
  BY <1>1, <1>2, <1>3 DEF Restated, Action, OpenStates
<1>5. /\ actions' \in Seq(Action) /\ Len(actions') = Len(actions)
      /\ \A j \in DOMAIN actions : actions'[j] = IF j = k THEN new ELSE actions[j]
  <2>1. new \in Action /\ actions \in Seq(Action)
    BY <1>1, <1>4 DEF Restated, Types
  <2> QED  BY <1>1, <1>3, <2>1, UpdateFields
<1>6. \A j \in DOMAIN actions : Restated(actions[j], actions'[j])
  <2>1. ASSUME NEW j \in DOMAIN actions PROVE Restated(actions[j], actions[j])
    BY <1>1 DEF Restated, Types
  <2> QED  BY <1>4, <1>5, <2>1
<1>7. Len(docs) <= Len(docs') /\ Len(docs') \in Nat /\ lock' \in Requests \cup {NoHolder}
      /\ run' \in RunTyped /\ run' = run
  BY <1>1 DEF Types, RunTyped
<1>8. /\ req' \in [Requests -> Snapshot] /\ Snapshots' /\ Holds'
      /\ \A p \in Requests : req[p].pc # "insert"
  BY <1>1, <1>7, SavedStep
<1> QED  BY <1>1, <1>5, <1>6, <1>7, <1>8, RestatedStep

----------------------------------------------------------------------------
(* Executions                                                              *)

\* The receipt of the one Action that was open.
LEMMA ReceiptStep ==
  ASSUME PlanningInv, NEW k \in DOMAIN actions, Open(actions[k]),
         NEW new \in Action, new.intent = actions[k].intent, new.n = actions[k].n,
         new.step = actions[k].step, new.receipt # "none",
         actions' = [actions EXCEPT ![k] = new],
         docs' \in Seq(Doc), Len(docs) <= Len(docs'), Books', \A i, j \in Drafts(docs') : i = j,
         run' \in RunTyped, run'.ver >= 1,
         lock = NoHolder, UNCHANGED <<sidecar, lock>>, req' = Outdated(req)
  PROVE  PlanningInv'
<1>1. Types /\ Holds /\ Snapshots /\ Books /\ Checkpoint /\ Steps /\ SidecarFollowsReceipts /\ OneOpen
      /\ Drafting /\ RunHistory
  BY DEF PlanningInv
<1>2. /\ actions' \in Seq(Action) /\ Len(actions') = Len(actions)
      /\ DOMAIN actions' = DOMAIN actions
      /\ \A j \in DOMAIN actions : actions'[j] = IF j = k THEN new ELSE actions[j]
  <2>1. actions \in Seq(Action)
    BY <1>1 DEF Types
  <2> QED  BY <2>1, UpdateFields
<1>3. /\ req' \in [Requests -> Snapshot] /\ Snapshots' /\ Holds'
      /\ \A p \in Requests : req[p].pc # "insert"
  <2>1. Len(docs') \in Nat
    OBVIOUS
  <2> QED  BY <1>1, <2>1, SavedStep
<1>4. \A j \in DOMAIN actions : j # k => ~ Open(actions[j])
  BY <1>1 DEF OneOpen
<1>5. Types'
  BY <1>1, <1>2, <1>3 DEF Types, RunTyped
<1>6. RunHistory'
  <2>1. actions' # <<>>
    BY <1>2
  <2> QED  BY <2>1 DEF RunHistory
<1>7. actions[k].step = sidecar.cur /\ ~ Done(sidecar)
  <2>1. actions[k].step = sidecar.cur /\ actions[k].step \in DOMAIN sidecar.steps
    BY <1>1 DEF Steps
  <2>2. 0 \notin DOMAIN sidecar.steps
    BY <1>1 DEF Types, W!Workflow
  <2> QED  BY <2>1, <2>2 DEF Done
<1>8. Checkpoint'
  BY <1>1 DEF Checkpoint
<1>9. Steps'
  <2>1. ASSUME NEW j \in DOMAIN actions'
        PROVE  /\ actions'[j].step \in DOMAIN sidecar.steps
               /\ sidecar.steps[actions'[j].step].intent = actions'[j].intent
               /\ Open(actions'[j]) => actions'[j].step = sidecar.cur
               /\ actions'[j].n = 1 => actions'[j].intent.ver = 0
    BY <1>1, <1>2, <1>7 DEF Steps
  <2>2. ASSUME NEW i \in DOMAIN sidecar.steps, sidecar.steps[i].intent.ver = 0
        PROVE  \E j \in DOMAIN actions' : actions'[j].n = 1 /\ actions'[j].intent = sidecar.steps[i].intent
    BY <1>1, <1>2, <2>2 DEF Steps
  <2> QED  BY <2>1, <2>2 DEF Steps
<1>10. SidecarFollowsReceipts'
  <2>1. ~ Succeeded(actions[k])
    BY <1>1 DEF Books, Open, OpenStates, Succeeded
  <2> QED  BY <1>1, <1>2, <2>1 DEF SidecarFollowsReceipts
<1>11. OneOpen'
  BY <1>2, <1>4 DEF OneOpen
<1>12. Drafting'
  <2>1. ASSUME NEW j \in DOMAIN actions', actions'[j].state \in OpenStates, actions'[j].receipt = "none"
        PROVE  FALSE
    BY <1>2, <1>4, <2>1 DEF Open
  <2> QED  BY <1>7, <2>1 DEF Drafting
<1> QED  BY <1>3, <1>5, <1>6, <1>8, <1>9, <1>10, <1>11, <1>12 DEF PlanningInv

LEMMA ReconcileStep ==
  ASSUME PlanningInv, NEW k \in 1..MaxActions, Reconcile(k)
  PROVE  PlanningInv'
<1>1. /\ Types /\ Books /\ RunHistory /\ Drafting /\ lock = NoHolder /\ k \in DOMAIN actions
      /\ actions[k].receipt = "uncertain" /\ req' = Outdated(req)
      /\ UNCHANGED <<run, docs, sidecar, lock>>
  BY DEF PlanningInv, Reconcile
<1>2. PICK new : new = [actions[k] EXCEPT !.state = "EXECUTED", !.receipt = "ok"]
  OBVIOUS
<1>3. actions[k] \in Action
  BY <1>1 DEF Types
<1>4. /\ new \in Action /\ new.intent = actions[k].intent /\ new.n = actions[k].n
      /\ new.step = actions[k].step /\ new.tgt = actions[k].tgt
      /\ new.receipt = "ok" /\ new.state = "EXECUTED"
  BY <1>2, <1>3 DEF Action
<1>5. actions' = [actions EXCEPT ![k] = new]
  BY <1>1, <1>2 DEF Types, Reconcile
<1>6. /\ DOMAIN actions' = DOMAIN actions
      /\ \A j \in DOMAIN actions : actions'[j] = IF j = k THEN new ELSE actions[j]
  BY <1>1, <1>4, <1>5, UpdateFields DEF Types
<1>7. Books'
  <2>1. \A j \in DOMAIN actions :
          /\ actions'[j].intent = actions[j].intent /\ actions'[j].tgt = actions[j].tgt
          /\ Landed(actions'[j]) <=> Landed(actions[j])
          /\ Succeeded(actions'[j]) => actions'[j].state = "EXECUTED"
    BY <1>1, <1>4, <1>6 DEF Books, Landed, Succeeded
  <2> QED  BY <1>1, <1>6, <2>1 DEF Books
<1>8. docs' \in Seq(Doc) /\ Len(docs) <= Len(docs') /\ run' \in RunTyped /\ run'.ver >= 1
      /\ \A i, j \in Drafts(docs') : i = j
  BY <1>1 DEF Types, RunTyped, RunHistory, Drafting
<1>9. Open(actions[k]) /\ new.receipt # "none"
  BY <1>1, <1>4 DEF Open
<1> QED  BY <1>1, <1>4, <1>5, <1>7, <1>8, <1>9, ReceiptStep

\* What the executor's effect does to the documents.
LEMMA SubmitBooks ==
  ASSUME PlanningInv, NEW k \in DOMAIN actions, actions[k].receipt = "none",
         actions[k].intent.type \in Submits,
         NEW new, new.intent = actions[k].intent, new.tgt = actions[k].intent.src,
         Landed(new), Succeeded(new) => new.state = "EXECUTED",
         DOMAIN actions' = DOMAIN actions,
         \A j \in DOMAIN actions : actions'[j] = IF j = k THEN new ELSE actions[j],
         docs' = [docs EXCEPT ![actions[k].intent.src].submitted = TRUE]
  PROVE  Books' /\ docs' \in Seq(Doc) /\ Len(docs') = Len(docs) /\ \A i, j \in Drafts(docs') : i = j
<1>1. Types /\ Books /\ Drafting
  BY DEF PlanningInv
<1>2. PICK src : src = actions[k].intent.src
  OBVIOUS
<1>3. PICK d : d = [docs[src] EXCEPT !.submitted = TRUE]
  OBVIOUS
<1>4. src \in DOMAIN docs /\ docs[src] \in Doc
  BY <1>1, <1>2 DEF Books, Types
<1>5. d \in Doc /\ d.kind = docs[src].kind /\ d.governed = docs[src].governed /\ d.submitted
  BY <1>3, <1>4, Zenon DEF Doc
<1>6. docs' = [docs EXCEPT ![src] = d]
  BY <1>1, <1>2, <1>3 DEF Types
<1>7. /\ docs' \in Seq(Doc) /\ Len(docs') = Len(docs) /\ DOMAIN docs' = DOMAIN docs
      /\ \A i \in DOMAIN docs : docs'[i] = IF i = src THEN d ELSE docs[i]
  <2>1. docs \in Seq(Doc)
    BY <1>1 DEF Types
  <2>2. d \in Doc
    BY <1>5, Zenon
  <2>3. /\ [docs EXCEPT ![src] = d] \in Seq(Doc) /\ Len([docs EXCEPT ![src] = d]) = Len(docs)
        /\ DOMAIN [docs EXCEPT ![src] = d] = DOMAIN docs
        /\ \A i \in DOMAIN docs : [docs EXCEPT ![src] = d][i] = IF i = src THEN d ELSE docs[i]
    BY <1>4, <2>1, <2>2, UpdateFields, Zenon
  <2> QED  BY <1>6, <2>3, Zenon
<1>8. /\ \A i \in DOMAIN docs : docs'[i].kind = docs[i].kind
      /\ \A i \in DOMAIN docs : docs'[i].governed <=> docs[i].governed
      /\ \A i \in DOMAIN docs : docs'[i].submitted <=> (i = src \/ docs[i].submitted)
  BY <1>5, <1>7
<1>9. Drafts(docs') = Drafts(docs) \ {src}
  BY <1>7, <1>8 DEF Drafts
<1>10. ASSUME NEW j \in DOMAIN actions
       PROVE  /\ actions'[j].intent.src \in DOMAIN docs
              /\ Succeeded(actions'[j]) => actions'[j].state = "EXECUTED"
              /\ Landed(actions'[j]) => actions'[j].tgt \in DOMAIN docs
              /\ Landed(actions'[j]) /\ actions'[j].intent.type \in Submits
                   => actions'[j].intent.src = src \/ docs[actions'[j].intent.src].submitted
  BY <1>1, <1>2, <1>4 DEF Books
<1>11. ASSUME NEW i \in Drafts(docs)
       PROVE  \E j \in DOMAIN actions :
                /\ actions'[j].intent.type \in Creates /\ Landed(actions'[j]) /\ actions'[j].tgt = i
                /\ Kind(actions'[j].intent.type) = docs[i].kind
  <2>1. ~ Landed(actions[k])
    BY DEF Landed
  <2> QED  BY <1>1, <2>1 DEF Books
<1>12. docs' # <<>> /\ ~ docs'[1].governed
  <2>1. 1 \in DOMAIN docs /\ ~ docs[1].governed
    BY <1>1 DEF Books, Types
  <2> QED  BY <1>7, <1>8, <2>1
<1>13. Books'
  <2>1. \A j \in DOMAIN actions : actions'[j].intent.src \in DOMAIN docs' /\
           (Landed(actions'[j]) /\ actions'[j].intent.type \in Submits
               => docs'[actions'[j].intent.src].submitted)
    BY <1>4, <1>7, <1>8, <1>10
  <2>2. \A i \in Drafts(docs') : i \in Drafts(docs) /\ docs'[i].kind = docs[i].kind
    BY <1>8, <1>9 DEF Drafts
  <2>3. \A i \in Drafts(docs') : \E j \in DOMAIN actions' :
          /\ actions'[j].intent.type \in Creates /\ Landed(actions'[j]) /\ actions'[j].tgt = i
          /\ Kind(actions'[j].intent.type) = docs'[i].kind
    BY <1>11, <2>2
  <2>4. \A j \in DOMAIN actions' :
          /\ Succeeded(actions'[j]) => actions'[j].state = "EXECUTED"
          /\ Landed(actions'[j]) => actions'[j].tgt \in DOMAIN docs'
    BY <1>7, <1>10
  <2> QED  BY <1>12, <2>1, <2>3, <2>4 DEF Books
<1> QED  BY <1>1, <1>7, <1>9, <1>13 DEF Drafting


\* A created draft is no larger than the order.
LEMMA CreatedDoc ==
  ASSUME Types, NEW a \in Action, a.intent.type \in Creates, Executable(a),
         a.intent.src \in DOMAIN docs,
         NEW d, d = [kind |-> Kind(a.intent.type), qty |-> a.intent.qty, from |-> a.intent.src,
                     submitted |-> FALSE, governed |-> TRUE]
  PROVE  d \in Doc
<1>1. docs \in Seq(Doc) /\ docs[a.intent.src] \in Doc
  BY DEF Types
<1>2. PICK qty \in Nat, src \in Nat : qty = a.intent.qty /\ src = a.intent.src
  BY DEF Action, CandidateIntents
<1>3. Kind(a.intent.type) \in {"PR", "PI", "PE"}
  BY KindTyped
<1>4. \A i : Billed(docs, i) \in Nat
  BY <1>1, TotalsNatural
<1>5. docs[src].qty \in Nat /\ docs[src].qty <= Ordered /\ Ordered \in Nat
  <2>1. docs[src].qty \in 0..Ordered
    BY <1>1, <1>2, Zenon DEF Doc
  <2> QED  BY <2>1, PlanningAssumption
<1>6. \E i : qty + Billed(docs, i) <= Ordered \/ qty + Billed(docs, i) <= docs[src].qty
  <2>1. a.intent.type \notin Submits
    BY DEF Creates, Submits
  <2>2. CASE a.intent.type = "CREATE_PR_DRAFT"
    BY <1>2, <2>1, <2>2 DEF Executable
  <2>3. CASE a.intent.type # "CREATE_PR_DRAFT"
    BY <1>2, <2>1, <2>3 DEF Executable
  <2> QED  BY <2>2, <2>3
<1>7. qty \in 0..Ordered
  <2>1. PICK b \in Nat : qty + b <= Ordered \/ qty + b <= docs[src].qty
    BY <1>4, <1>6
  <2> QED  BY <1>5, <2>1
<1> QED  BY <1>2, <1>3, <1>7, Zenon DEF Doc

LEMMA CreateBooks ==
  ASSUME PlanningInv, NEW k \in DOMAIN actions, actions[k].receipt = "none",
         actions[k].state \in OpenStates, actions[k].intent.type \in Creates,
         Executable(actions[k]),
         NEW new, new.intent = actions[k].intent, new.tgt = Len(docs) + 1,
         Landed(new), Succeeded(new) => new.state = "EXECUTED",
         DOMAIN actions' = DOMAIN actions,
         \A j \in DOMAIN actions : actions'[j] = IF j = k THEN new ELSE actions[j],
         docs' = Append(docs, [kind |-> Kind(actions[k].intent.type), qty |-> actions[k].intent.qty,
                               from |-> actions[k].intent.src, submitted |-> FALSE,
                               governed |-> TRUE])
  PROVE  /\ Books' /\ docs' \in Seq(Doc) /\ Len(docs') = Len(docs) + 1
         /\ \A i, j \in Drafts(docs') : i = j
<1>1. Types /\ Books /\ Drafting
  BY DEF PlanningInv
<1>2. PICK d : d = [kind |-> Kind(actions[k].intent.type), qty |-> actions[k].intent.qty,
                    from |-> actions[k].intent.src, submitted |-> FALSE, governed |-> TRUE]
  OBVIOUS
<1>3. d \in Doc /\ d.kind = Kind(actions[k].intent.type) /\ d.governed /\ ~ d.submitted
  <2>1. actions[k] \in Action /\ actions[k].intent.src \in DOMAIN docs
    BY <1>1 DEF Types, Books
  <2>2. d \in Doc
    BY <1>1, <1>2, <2>1, CreatedDoc
  <2> QED  BY <1>2, <2>2
<1>4. PICK m : m = Len(docs) + 1
  OBVIOUS
<1>5. /\ docs' \in Seq(Doc) /\ Len(docs') = Len(docs) + 1 /\ docs' # <<>>
      /\ DOMAIN docs' = DOMAIN docs \cup {m} /\ m \notin DOMAIN docs
      /\ \A i \in DOMAIN docs : docs'[i] = docs[i]
      /\ docs'[m] = d
  <2>1. docs \in Seq(Doc)
    BY <1>1 DEF Types
  <2>2. d \in Doc
    BY <1>3, Zenon
  <2>3. docs' = Append(docs, d)
    BY <1>2
  <2>4. /\ Append(docs, d) \in Seq(Doc) /\ Len(Append(docs, d)) = Len(docs) + 1
        /\ DOMAIN Append(docs, d) = DOMAIN docs \cup {Len(docs) + 1} /\ Len(docs) + 1 \notin DOMAIN docs
        /\ \A i \in DOMAIN docs : Append(docs, d)[i] = docs[i]
        /\ Append(docs, d)[Len(docs) + 1] = d
        /\ Append(docs, d) # <<>>
    BY <2>1, <2>2, AppendFields
  <2> QED  BY <1>4, <2>3, <2>4, Zenon
<1>6. Drafts(docs) = {}
  BY <1>1 DEF Drafting
<1>7. Drafts(docs') = {m}
  BY <1>3, <1>5, <1>6 DEF Drafts
<1>8. docs'[1] = docs[1]
  <2>1. 1 \in DOMAIN docs
    BY <1>1 DEF Books, Types
  <2> QED  BY <1>5, <2>1
<1>9. ASSUME NEW j \in DOMAIN actions'
      PROVE  /\ actions'[j].intent.src \in DOMAIN docs'
             /\ Succeeded(actions'[j]) => actions'[j].state = "EXECUTED"
             /\ Landed(actions'[j]) => actions'[j].tgt \in DOMAIN docs'
             /\ Landed(actions'[j]) /\ actions'[j].intent.type \in Submits
                  => docs'[actions'[j].intent.src].submitted
  <2>1. CASE j = k
    <3>1. actions'[j] = new /\ new.intent.type \notin Submits
      BY <2>1 DEF Creates, Submits
    <3>2. new.intent.src \in DOMAIN docs /\ new.tgt = m
      BY <1>1, <1>4 DEF Books
    <3> QED  BY <1>5, <3>1, <3>2
  <2>2. CASE j # k
    <3>1. j \in DOMAIN actions /\ actions'[j] = actions[j]
      BY <2>2
    <3> QED  BY <1>1, <1>5, <3>1 DEF Books
  <2> QED  BY <2>1, <2>2
<1>10. ASSUME NEW i \in Drafts(docs')
       PROVE  \E j \in DOMAIN actions' :
                /\ actions'[j].intent.type \in Creates /\ Landed(actions'[j]) /\ actions'[j].tgt = i
                /\ Kind(actions'[j].intent.type) = docs'[i].kind
  <2>1. actions'[k] = new /\ k \in DOMAIN actions' /\ i = m
    BY <1>7
  <2>2. new.intent.type \in Creates /\ new.tgt = m /\ Kind(new.intent.type) = d.kind
    BY <1>3, <1>4
  <2>3. docs'[i] = d
    BY <1>5, <2>1
  <2> QED  BY <2>1, <2>2, <2>3
<1> QED  BY <1>1, <1>5, <1>7, <1>8, <1>9, <1>10 DEF Books

\* The Run of an execution has moved.
LEMMA MovedRun ==
  ASSUME Types, RunHistory, Active, NEW r,
         r = Moved \/ r = [Moved EXCEPT !.state = "RECONCILIATION_REQUIRED", !.ver = @ + 1]
  PROVE  r \in RunTyped /\ r.ver >= 1
<1>1. run.ver \in Nat /\ run \in RunTyped
  BY DEF Types, RunTyped
<1>2. PICK v : v = run.ver + (IF run.state = "EXECUTING" THEN 0 ELSE 2)
  OBVIOUS
<1>3. v \in Nat /\ v >= 1 /\ v + 1 \in Nat /\ v + 1 >= 1
  BY <1>1, <1>2 DEF RunHistory
<1>4. Moved = [run EXCEPT !.ver = v, !.state = "EXECUTING"]
  BY <1>1, <1>2 DEF Moved, RunTyped
<1>5. Moved \in RunTyped /\ Moved.ver = v
  BY <1>1, <1>3, <1>4 DEF RunTyped, RunStates
<1>6. CASE r = [Moved EXCEPT !.state = "RECONCILIATION_REQUIRED", !.ver = @ + 1]
  <2>1. PICK w : w = v + 1
    OBVIOUS
  <2>2. r = [Moved EXCEPT !.state = "RECONCILIATION_REQUIRED", !.ver = w]
    BY <1>5, <1>6, <2>1 DEF RunTyped
  <2>3. w \in Nat /\ w >= 1
    BY <1>3, <2>1
  <2> QED  BY <1>5, <2>2, <2>3 DEF RunTyped, RunStates
<1> QED  BY <1>3, <1>5, <1>6

\* An execution that took effect, whether its read-back answered or not.
LEMMA EffectStep ==
  ASSUME PlanningInv, NEW k \in DOMAIN actions, actions[k].receipt = "none",
         actions[k].state = "APPROVED", Executable(actions[k]),
         NEW new \in Action, new.intent = actions[k].intent, new.n = actions[k].n,
         new.step = actions[k].step, new.tgt = Target(actions[k]),
         Landed(new), Succeeded(new) => new.state = "EXECUTED",
         actions' = [actions EXCEPT ![k] = new], docs' = Effect(actions[k]),
         run' \in RunTyped, run'.ver >= 1,
         lock = NoHolder, UNCHANGED <<sidecar, lock>>, req' = Outdated(req)
  PROVE  PlanningInv'
<1>1. Types /\ actions[k] \in Action /\ actions[k].state \in OpenStates
  BY DEF PlanningInv, Types, OpenStates
<1>2. /\ DOMAIN actions' = DOMAIN actions
      /\ \A j \in DOMAIN actions : actions'[j] = IF j = k THEN new ELSE actions[j]
  BY <1>1, UpdateFields DEF Types
<1>3. actions[k].intent.type \in Creates \/ actions[k].intent.type \in Submits
  BY <1>1 DEF Action, CandidateIntents
<1>4. Books' /\ docs' \in Seq(Doc) /\ Len(docs') >= Len(docs) /\ \A i, j \in Drafts(docs') : i = j
  <2>1. Len(docs) \in Nat
    BY <1>1 DEF Types
  <2>2. CASE actions[k].intent.type \in Submits
    <3>1. /\ docs' = [docs EXCEPT ![actions[k].intent.src].submitted = TRUE]
          /\ new.tgt = actions[k].intent.src
      BY <2>2 DEF Effect, Target
    <3>2. Books' /\ docs' \in Seq(Doc) /\ Len(docs') = Len(docs) /\ \A i, j \in Drafts(docs') : i = j
      BY <1>2, <2>2, <3>1, SubmitBooks
    <3> QED  BY <2>1, <3>2
  <2>3. CASE actions[k].intent.type \in Creates
    <3>1. actions[k].intent.type \notin Submits
      BY <2>3 DEF Creates, Submits
    <3>2. /\ docs' = Append(docs, [kind |-> Kind(actions[k].intent.type),
                                   qty |-> actions[k].intent.qty, from |-> actions[k].intent.src,
                                   submitted |-> FALSE, governed |-> TRUE])
          /\ new.tgt = Len(docs) + 1
      BY <3>1 DEF Effect, Target
    <3>3. /\ Books' /\ docs' \in Seq(Doc) /\ Len(docs') = Len(docs) + 1
          /\ \A i, j \in Drafts(docs') : i = j
      BY <1>1, <1>2, <2>3, <3>2, CreateBooks
    <3> QED  BY <2>1, <3>3
  <2> QED  BY <1>3, <2>2, <2>3
<1>5. Open(actions[k]) /\ new.receipt # "none" /\ Len(docs) <= Len(docs')
  <2>1. Len(docs) \in Nat /\ Len(docs') \in Nat
    BY <1>1, <1>4 DEF Types
  <2> QED  BY <1>1, <1>4, <2>1 DEF Open, Landed
<1> QED  BY <1>4, <1>5, ReceiptStep

\* An execution that was refused before it wrote anything.
LEMMA RefusalStep ==
  ASSUME PlanningInv, NEW k \in DOMAIN actions, actions[k].receipt = "none",
         actions[k].state = "APPROVED",
         NEW new \in Action, new.intent = actions[k].intent, new.n = actions[k].n,
         new.step = actions[k].step, new.receipt = "failed",
         actions' = [actions EXCEPT ![k] = new], UNCHANGED docs,
         run' \in RunTyped, run'.ver >= 1,
         lock = NoHolder, UNCHANGED <<sidecar, lock>>, req' = Outdated(req)
  PROVE  PlanningInv'
<1>1. Types /\ Books /\ Drafting /\ Open(actions[k])
  BY DEF PlanningInv, Open, OpenStates
<1>2. /\ DOMAIN actions' = DOMAIN actions
      /\ \A j \in DOMAIN actions : actions'[j] = IF j = k THEN new ELSE actions[j]
  BY <1>1, UpdateFields DEF Types
<1>3. ~ Landed(actions[k]) /\ ~ Landed(new) /\ ~ Succeeded(new)
  BY DEF Landed, Succeeded
<1>4. Books'
  BY <1>1, <1>2, <1>3 DEF Books
<1>5. docs' \in Seq(Doc) /\ Len(docs) <= Len(docs') /\ \A i, j \in Drafts(docs') : i = j
  BY <1>1 DEF Types, Drafting
<1> QED  BY <1>1, <1>4, <1>5, ReceiptStep

LEMMA ExecuteStep ==
  ASSUME PlanningInv, NEW k \in 1..MaxActions, Execute(k)
  PROVE  PlanningInv'
<1>1. /\ Types /\ RunHistory /\ MayExecute(k) /\ req' = Outdated(req) /\ UNCHANGED <<sidecar, lock>>
  BY DEF PlanningInv, Execute
<1>2. /\ k \in DOMAIN actions /\ actions[k].state = "APPROVED" /\ lock = NoHolder /\ Active
      /\ actions[k].receipt = "none" /\ Executable(actions[k])
  BY <1>1 DEF MayExecute
<1>3. actions[k] \in Action
  BY <1>1, <1>2 DEF Types
<1>4. Target(actions[k]) \in Nat
  <2>1. actions[k].intent.src \in Nat
    BY <1>3 DEF Action, CandidateIntents
  <2>2. Len(docs) + 1 \in Nat
    BY <1>1 DEF Types
  <2> QED  BY <2>1, <2>2 DEF Target
<1>5. CASE /\ docs' = Effect(actions[k]) /\ run' = Moved
           /\ actions' = [actions EXCEPT ![k].state = "EXECUTED", ![k].receipt = "ok",
                                         ![k].tgt = Target(actions[k])]
  <2>1. PICK t : t = Target(actions[k])
    OBVIOUS
  <2>2. PICK new : new = [actions[k] EXCEPT !.state = "EXECUTED", !.receipt = "ok", !.tgt = t]
    OBVIOUS
  <2>3. /\ new \in Action /\ new.intent = actions[k].intent /\ new.n = actions[k].n
        /\ new.step = actions[k].step /\ new.tgt = t /\ new.receipt = "ok" /\ new.state = "EXECUTED"
    BY <1>3, <1>4, <2>1, <2>2 DEF Action
  <2>4. actions' = [actions EXCEPT ![k] = new]
    BY <1>1, <1>2, <1>5, <2>1, <2>2 DEF Types
  <2>5. Landed(new) /\ (Succeeded(new) => new.state = "EXECUTED")
    BY <2>3 DEF Landed, Succeeded
  <2>6. run' \in RunTyped /\ run'.ver >= 1
    BY <1>1, <1>2, <1>5, MovedRun
  <2> QED  BY <1>1, <1>2, <1>5, <2>1, <2>3, <2>4, <2>5, <2>6, EffectStep
<1>6. CASE /\ UNCHANGED docs /\ run' = Moved
           /\ actions' = [actions EXCEPT ![k].state = "EXPIRED", ![k].receipt = "failed"]
  <2>1. PICK new : new = [actions[k] EXCEPT !.state = "EXPIRED", !.receipt = "failed"]
    OBVIOUS
  <2>2. /\ new \in Action /\ new.intent = actions[k].intent /\ new.n = actions[k].n
        /\ new.step = actions[k].step /\ new.receipt = "failed"
    BY <1>3, <2>1 DEF Action
  <2>3. actions' = [actions EXCEPT ![k] = new]
    BY <1>1, <1>2, <1>6, <2>1 DEF Types
  <2>4. run' \in RunTyped /\ run'.ver >= 1
    BY <1>1, <1>2, <1>6, MovedRun
  <2> QED  BY <1>1, <1>2, <1>6, <2>2, <2>3, <2>4, RefusalStep
<1>7. CASE /\ docs' = Effect(actions[k])
           /\ run' = [Moved EXCEPT !.state = "RECONCILIATION_REQUIRED", !.ver = @ + 1]
           /\ actions' = [actions EXCEPT ![k].receipt = "uncertain",
                                         ![k].tgt = Target(actions[k])]
  <2>1. PICK t : t = Target(actions[k])
    OBVIOUS
  <2>2. PICK new : new = [actions[k] EXCEPT !.receipt = "uncertain", !.tgt = t]
    OBVIOUS
  <2>3. /\ new \in Action /\ new.intent = actions[k].intent /\ new.n = actions[k].n
        /\ new.step = actions[k].step /\ new.tgt = t /\ new.receipt = "uncertain"
    BY <1>3, <1>4, <2>1, <2>2 DEF Action
  <2>4. actions' = [actions EXCEPT ![k] = new]
    BY <1>1, <1>2, <1>7, <2>1, <2>2 DEF Types
  <2>5. Landed(new) /\ (Succeeded(new) => new.state = "EXECUTED")
    BY <2>3 DEF Landed, Succeeded
  <2>6. run' \in RunTyped /\ run'.ver >= 1
    BY <1>1, <1>2, <1>7, MovedRun
  <2> QED  BY <1>1, <1>2, <1>7, <2>1, <2>3, <2>4, <2>5, <2>6, EffectStep
<1> QED  BY <1>5, <1>6, <1>7 DEF Execute

----------------------------------------------------------------------------
(* Desk users                                                              *)

\* A document of a Desk user, or its submission, changes no governed draft.
LEMMA DeskStep ==
  ASSUME PlanningInv, UNCHANGED <<run, actions, sidecar, lock, req>>,
         docs' \in Seq(Doc), Len(docs) <= Len(docs'), Drafts(docs') = Drafts(docs),
         \A i \in DOMAIN docs : /\ docs'[i].kind = docs[i].kind
                                /\ docs'[i].governed <=> docs[i].governed
                                /\ docs[i].submitted => docs'[i].submitted
  PROVE  PlanningInv'
<1>1. /\ Types /\ Holds /\ RunHistory /\ Snapshots /\ Books /\ Checkpoint /\ Steps
      /\ SidecarFollowsReceipts /\ OneOpen /\ Drafting
  BY DEF PlanningInv
<1>2. /\ Len(docs') \in Nat /\ docs \in Seq(Doc) /\ Len(docs) \in Nat
      /\ DOMAIN docs = 1..Len(docs) /\ DOMAIN docs' = 1..Len(docs')
      /\ DOMAIN docs \subseteq DOMAIN docs'
  BY <1>1 DEF Types
<1>3. Snapshots'
  <2>1. \A p \in Requests : Like(req[p], req'[p])
    BY DEF Like
  <2>2. ASSUME NEW i \in Drafts(docs) PROVE docs'[i].kind = docs[i].kind
    BY DEF Drafts
  <2>3. \A p \in Requests : Agrees(p) => Match(req[p].actions, req[p].docs, actions', docs')
    BY <2>2 DEF Agrees, Match
  <2> QED  BY <1>1, <1>2, <2>1, <2>3, SnapshotsStep
<1>4. Books'
  <2>1. docs' # <<>> /\ ~ docs'[1].governed
    <3>1. 1 \in DOMAIN docs /\ ~ docs[1].governed
      BY <1>1, <1>2 DEF Books
    <3>2. 1 \in DOMAIN docs' /\ ~ docs'[1].governed
      BY <1>2, <3>1
    <3> QED  BY <3>2
  <2>2. ASSUME NEW k \in DOMAIN actions
        PROVE  /\ actions[k].intent.src \in DOMAIN docs'
               /\ Succeeded(actions[k]) => actions[k].state = "EXECUTED"
               /\ Landed(actions[k]) => actions[k].tgt \in DOMAIN docs'
               /\ Landed(actions[k]) /\ actions[k].intent.type \in Submits
                    => docs'[actions[k].intent.src].submitted
    BY <1>1, <1>2 DEF Books
  <2>3. ASSUME NEW i \in Drafts(docs')
        PROVE  \E k \in DOMAIN actions :
                 /\ actions[k].intent.type \in Creates /\ Landed(actions[k]) /\ actions[k].tgt = i
                 /\ Kind(actions[k].intent.type) = docs'[i].kind
    <3>1. i \in Drafts(docs) /\ docs'[i].kind = docs[i].kind
      BY DEF Drafts
    <3> QED  BY <1>1, <3>1 DEF Books
  <2> QED  BY <2>1, <2>2, <2>3 DEF Books
<1>5. Types' /\ Holds' /\ RunHistory' /\ Checkpoint' /\ Steps'
  BY <1>1 DEF Types, Holds, RunHistory, Checkpoint, Steps
<1>6. SidecarFollowsReceipts' /\ OneOpen'
  BY <1>1 DEF SidecarFollowsReceipts, OneOpen
<1>7. Drafting'
  BY <1>1 DEF Drafting
<1> QED  BY <1>3, <1>4, <1>5, <1>6, <1>7 DEF PlanningInv

LEMMA DeskBooksStep ==
  ASSUME PlanningInv, DeskBooks
  PROVE  PlanningInv'
<1>1. Types /\ docs \in Seq(Doc) /\ 1 \in DOMAIN docs /\ docs[1] \in Doc /\ ~ docs[1].governed
      /\ UNCHANGED <<run, actions, sidecar, lock, req>> /\ Len(docs) \in Nat
  BY DEF PlanningInv, Types, Books, DeskBooks
<1>2. CASE docs' = [docs EXCEPT ![1].submitted = TRUE]
  <2>1. PICK d : d = [docs[1] EXCEPT !.submitted = TRUE]
    OBVIOUS
  <2>2. d \in Doc /\ d.kind = docs[1].kind /\ d.governed = docs[1].governed /\ d.submitted
    BY <1>1, <2>1, Zenon DEF Doc
  <2>3. docs' = [docs EXCEPT ![1] = d]
    BY <1>1, <1>2, <2>1
  <2>4. /\ docs' \in Seq(Doc) /\ Len(docs') = Len(docs) /\ DOMAIN docs' = DOMAIN docs
        /\ \A i \in DOMAIN docs : docs'[i] = IF i = 1 THEN d ELSE docs[i]
    <3>1. d \in Doc /\ docs \in Seq(Doc) /\ 1 \in DOMAIN docs
      BY <1>1, <2>2, Zenon
    <3>2. /\ [docs EXCEPT ![1] = d] \in Seq(Doc) /\ Len([docs EXCEPT ![1] = d]) = Len(docs)
          /\ DOMAIN [docs EXCEPT ![1] = d] = DOMAIN docs
          /\ \A i \in DOMAIN docs : [docs EXCEPT ![1] = d][i] = IF i = 1 THEN d ELSE docs[i]
      BY <3>1, UpdateFields, Zenon
    <3> QED  BY <2>3, <3>2, Zenon
  <2>5. \A i \in DOMAIN docs : /\ docs'[i].kind = docs[i].kind
                               /\ docs'[i].governed <=> docs[i].governed
                               /\ docs[i].submitted => docs'[i].submitted
    BY <2>2, <2>4
  <2>6. Drafts(docs') = Drafts(docs)
    <3>1. \A i \in DOMAIN docs : i # 1 => docs'[i] = docs[i]
      BY <2>4
    <3>2. ~ docs'[1].governed
      BY <1>1, <2>5
    <3> QED  BY <1>1, <2>4, <3>1, <3>2 DEF Drafts
  <2>7. Len(docs) <= Len(docs')
    BY <1>1, <2>4
  <2> QED  BY <1>1, <2>4, <2>5, <2>6, <2>7, DeskStep
<1>3. CASE /\ Billed(docs, 1) < Ordered
           /\ docs' = Append(docs, [kind |-> "PR", qty |-> 1, from |-> 1, submitted |-> TRUE,
                                    governed |-> FALSE])
  <2>1. PICK d : d = [kind |-> "PR", qty |-> 1, from |-> 1, submitted |-> TRUE, governed |-> FALSE]
    OBVIOUS
  <2>2. d \in Doc /\ ~ d.governed
    <3>1. Billed(docs, 1) \in Nat
      BY <1>1, TotalsNatural
    <3>2. 1 \in 0..Ordered
      BY <1>3, <3>1, PlanningAssumption
    <3>3. d \in Doc
      BY <2>1, <3>2, Zenon DEF Doc
    <3> QED  BY <2>1, <3>3
  <2>3. PICK m : m = Len(docs) + 1
    OBVIOUS
  <2>4. /\ docs' \in Seq(Doc) /\ Len(docs') = Len(docs) + 1
        /\ DOMAIN docs' = DOMAIN docs \cup {m}
        /\ \A i \in DOMAIN docs : docs'[i] = docs[i]
        /\ docs'[m] = d
    <3>1. d \in Doc /\ docs \in Seq(Doc)
      BY <1>1, <2>2, Zenon
    <3>2. /\ Append(docs, d) \in Seq(Doc) /\ Len(Append(docs, d)) = Len(docs) + 1
          /\ DOMAIN Append(docs, d) = DOMAIN docs \cup {Len(docs) + 1}
          /\ \A i \in DOMAIN docs : Append(docs, d)[i] = docs[i]
          /\ Append(docs, d)[Len(docs) + 1] = d
      BY <3>1, AppendFields
    <3>3. docs' = Append(docs, d)
      BY <1>3, <2>1
    <3> QED  BY <2>3, <3>2, <3>3, Zenon
  <2>5. Drafts(docs') = Drafts(docs)
    BY <2>2, <2>4 DEF Drafts
  <2>6. Len(docs) <= Len(docs')
    BY <1>1, <2>4
  <2>7. \A i \in DOMAIN docs : /\ docs'[i].kind = docs[i].kind
                               /\ docs'[i].governed <=> docs[i].governed
                               /\ docs[i].submitted => docs'[i].submitted
    BY <2>4
  <2> QED  BY <1>1, <2>4, <2>5, <2>6, <2>7, DeskStep
<1> QED  BY <1>2, <1>3 DEF DeskBooks

----------------------------------------------------------------------------
(* The invariant                                                           *)

LEMMA InitInv ==
  ASSUME PlanInit
  PROVE  PlanningInv
<1>1. PICK t \in Targets : run = [state |-> "PROPOSED", ver |-> 0, goal |-> 1, target |-> t]
  BY DEF PlanInit
<1>2. PICK d : d = [kind |-> "PO", qty |-> Ordered, from |-> 0, submitted |-> FALSE, governed |-> FALSE]
  OBVIOUS
<1>3. d \in Doc /\ ~ d.governed
  <2>1. Ordered \in 0..Ordered /\ 0 \in Nat
    BY PlanningAssumption
  <2>2. d \in Doc
    BY <1>2, <2>1, Zenon DEF Doc
  <2> QED  BY <1>2, <2>2
<1>4. docs = <<d>> /\ actions = <<>> /\ sidecar = W!NoWorkflow /\ lock = NoHolder
      /\ req = [q \in Requests |-> NoRequest]
  BY <1>2 DEF PlanInit
<1>5. docs \in Seq(Doc) /\ DOMAIN docs = {1} /\ docs[1] = d /\ docs # <<>>
  <2>1. d \in Doc
    BY <1>3, Zenon
  <2> QED  BY <1>4, <2>1
<1>6. actions \in Seq(Action) /\ Len(actions) = 0 /\ DOMAIN actions = {}
  BY <1>4
<1>7. sidecar \in W!Workflow /\ sidecar.steps = <<>> /\ DOMAIN sidecar.steps = {}
  BY <1>4 DEF W!NoWorkflow, W!Workflow, W!Statuses
<1>8. Types
  <2>1. run \in [state: RunStates, ver: Nat, goal: 1..MaxGoal, target: Targets]
    <3>1. 1 \in 1..MaxGoal /\ 0 \in Nat
      BY PlanningAssumption
    <3> QED  BY <1>1, <3>1 DEF RunStates
  <2>2. req \in [Requests -> Snapshot]
    BY <1>4, NoRequestTyped
  <2>3. Len(actions) <= MaxActions
    BY <1>6, PlanningAssumption
  <2> QED  BY <1>4, <1>5, <1>6, <1>7, <2>1, <2>2, <2>3 DEF Types
<1>9. Holds /\ Snapshots
  <2>1. \A q \in Requests : req[q].pc = "idle"
    BY <1>4, NoRequestTyped
  <2> QED  BY <1>4, <2>1, PlanningAssumption DEF Holds, Snapshots, Seen, Ahead, Current
<1>10. RunHistory
  BY <1>1, <1>6 DEF RunHistory
<1>11. Drafts(docs) = {}
  BY <1>3, <1>5 DEF Drafts
<1>12. Books /\ Drafting
  BY <1>3, <1>5, <1>6, <1>11 DEF Books, Drafting
<1>13. Checkpoint /\ Steps /\ SidecarFollowsReceipts /\ OneOpen
  BY <1>4, <1>6, <1>7 DEF Checkpoint, Steps, SidecarFollowsReceipts, OneOpen
<1> QED  BY <1>8, <1>9, <1>10, <1>12, <1>13 DEF PlanningInv

LEMMA StutterStep ==
  ASSUME PlanningInv, UNCHANGED planVars
  PROVE  PlanningInv'
<1>1. UNCHANGED <<run, docs, actions, sidecar, lock, req>>
  BY DEF planVars
<1>2. Types' /\ Holds' /\ RunHistory' /\ Books' /\ Checkpoint' /\ Steps' /\ OneOpen'
  BY <1>1 DEF PlanningInv, Types, Holds, RunHistory, Books, Checkpoint, Steps, OneOpen
<1>3. Snapshots'
  BY <1>1 DEF PlanningInv, Snapshots, Seen, Ahead, Current, Agrees
<1>4. SidecarFollowsReceipts' /\ Drafting'
  BY <1>1 DEF PlanningInv, SidecarFollowsReceipts, Drafting
<1> QED  BY <1>2, <1>3, <1>4 DEF PlanningInv

\* The whole invariant, for requests that plan through the Runtime's checkpoint: it is the
\* inductive strengthening from which OneAtATime and PlanFollowsReceipts follow.
LEMMA PlanningInvariance ==
  ASSUME UseSidecar
  PROVE  PlanSpec => []PlanningInv
<1>1. PlanInit => PlanningInv
  BY InitInv
<1>2. PlanningInv /\ [PlanNext]_planVars => PlanningInv'
  <2> SUFFICES ASSUME PlanningInv, [PlanNext]_planVars
               PROVE  PlanningInv'
    OBVIOUS
  <2>1. ASSUME NEW q \in Requests, PlannerStep(q) PROVE PlanningInv'
    <3>1. ASSUME NEW op \in {"investigate", "resume", "confirm", "finalize", "cancel"}, Begin(q, op)
          PROVE  PlanningInv'
      BY <3>1, BeginStep
    <3>2. CASE Investigate(q)
      BY <3>2, InvestigateStep
    <3>3. CASE Resume(q)
      BY <3>3, ResumeStep
    <3>4. CASE Plan(q)
      BY <3>4, PlanStep
    <3>5. CASE Insert(q)
      BY <3>5, InsertStep
    <3>6. ASSUME NEW t \in Targets, ConfirmGoal(q, t) PROVE PlanningInv'
      BY <3>6, ConfirmGoalStep
    <3>7. CASE Finalize(q)
      BY <3>7, FinalizeStep
    <3>8. CASE Cancel(q)
      BY <3>8, CancelStep
    <3> QED  BY <2>1, <3>1, <3>2, <3>3, <3>4, <3>5, <3>6, <3>7, <3>8 DEF PlannerStep
  <2>2. ASSUME NEW k \in 1..MaxActions, NEW s \in {"APPROVED", "DECLINED", "EXPIRED"}, Decide(k, s)
        PROVE  PlanningInv'
    BY <2>2, DecideStep
  <2>3. ASSUME NEW k \in 1..MaxActions, Execute(k) PROVE PlanningInv'
    BY <2>3, ExecuteStep
  <2>4. ASSUME NEW k \in 1..MaxActions, Reconcile(k) PROVE PlanningInv'
    BY <2>4, ReconcileStep
  <2>5. CASE DeskBooks
    BY <2>5, DeskBooksStep
  <2>6. CASE UNCHANGED planVars
    BY <2>6, StutterStep
  <2> QED  BY <2>1, <2>2, <2>3, <2>4, <2>5, <2>6 DEF PlanNext
<1> QED  BY <1>1, <1>2, PTL DEF PlanSpec

----------------------------------------------------------------------------
(* The theorems                                                            *)

LEMMA AtMostOne ==
  ASSUME NEW S, \A x, y \in S : x = y
  PROVE  Cardinality(S) <= 1
<1>1. CASE S = {}
  BY <1>1, FS_EmptySet
<1>2. CASE S # {}
  <2>1. PICK x \in S : S = {x}
    BY <1>2
  <2> QED  BY <2>1, FS_Singleton
<1> QED  BY <1>1, <1>2

\* However the planner requests of a Run interleave (investigate, resume, goal confirmation,
\* insertion of the candidate), and whatever approvers, executors and Desk users do in between,
\* a Run whose planner goes through the Runtime's checkpoint never has two Actions that await a
\* decision or a recovery, nor two governed drafts that nobody submitted.
THEOREM PlansOneAtATime ==
  ASSUME UseSidecar
  PROVE  PlanSpec => []OneAtATime
<1>1. PlanningInv => OneAtATime
  <2> SUFFICES ASSUME PlanningInv
               PROVE  OneAtATime
    OBVIOUS
  <2>1. OneCandidate
    <3>1. \A k, l \in {j \in DOMAIN actions : Open(actions[j])} : k = l
      BY DEF PlanningInv, OneOpen
    <3> QED  BY <3>1, AtMostOne DEF OneCandidate
  <2>2. OneDraft
    <3>1. \A i, j \in Drafts(docs) : i = j
      BY DEF PlanningInv, Drafting
    <3> QED  BY <3>1, AtMostOne DEF OneDraft, Drafts
  <2> QED  BY <2>1, <2>2 DEF OneAtATime
<1> QED  BY <1>1, PlanningInvariance, PTL

\* What derive_step_views calls ready is what pre_execute_recheck lets through.
LEMMA ReadyAgrees ==
  ASSUME Books, actions \in Seq(Action)
  PROVE  ReadyMeansExecutable
<1> SUFFICES ASSUME NEW k \in DOMAIN actions
             PROVE  /\ MayExecute(k) => StepView(actions, docs, k) = "READY"
                    /\ StepView(actions, docs, k) = "READY" =>
                         \A j \in Dependencies(actions, docs, k) : actions[j].state = "EXECUTED"
  BY DEF ReadyMeansExecutable
<1> DEFINE before == {Projected(actions[j]) : j \in Dependencies(actions, docs, k)}
           own == Projected(actions[k])
<1>1. \A j \in Dependencies(actions, docs, k) : j \in DOMAIN actions
  BY DEF Dependencies
<1>2. ASSUME NEW a, Succeeded(a), a.state = "EXECUTED" PROVE Projected(a) = "SUCCEEDED"
  BY <1>2 DEF Projected, Succeeded
<1>3. ASSUME NEW a \in Action, Projected(a) = "SUCCEEDED" PROVE Succeeded(a)
  BY <1>3 DEF Projected, Succeeded, Action, OpenStates
<1>4. ASSUME MayExecute(k) PROVE StepView(actions, docs, k) = "READY"
  <2>1. actions[k].receipt = "none" /\ actions[k].state = "APPROVED"
    BY <1>4 DEF MayExecute
  <2>2. own = "READY"
    BY <2>1 DEF Projected, Succeeded
  <2>3. before \subseteq {"SUCCEEDED"}
    BY <1>2, <1>4 DEF MayExecute
  <2> QED  BY <2>2, <2>3 DEF StepView
<1>5. ASSUME StepView(actions, docs, k) = "READY", NEW j \in Dependencies(actions, docs, k)
      PROVE  actions[j].state = "EXECUTED"
  <2>1. before \subseteq {"SUCCEEDED"}
    BY <1>5 DEF StepView
  <2>2. Projected(actions[j]) = "SUCCEEDED"
    BY <2>1
  <2>3. j \in DOMAIN actions /\ actions[j] \in Action
    BY <1>1
  <2>4. Succeeded(actions[j])
    BY <1>3, <2>2, <2>3
  <2> QED  BY <2>3, <2>4 DEF Books
<1> QED  BY <1>4, <1>5

\* Through the same races (stale snapshots, two requests at the sidecar, a goal confirmed again,
\* an execution left uncertain and reconciled), the rows of the planner keep their types and a
\* receipt that took effect names a document; a step of the Runtime's checkpoint is done only if an
\* Action planned as that step has a successful Receipt; and derive_step_views, which the chain page
\* shows, agrees with pre_execute_recheck: what the executor takes is READY, and what is READY
\* depends on executed Actions only.
THEOREM PlansFollowReceipts ==
  ASSUME UseSidecar
  PROVE  PlanSpec => []PlanFollowsReceipts
<1>1. PlanningInv => PlanFollowsReceipts
  <2> SUFFICES ASSUME PlanningInv
               PROVE  PlanFollowsReceipts
    OBVIOUS
  <2>1. Types /\ Books /\ Checkpoint /\ SidecarFollowsReceipts
    BY DEF PlanningInv
  <2>2. \A k \in DOMAIN actions :
          actions[k].receipt \in {"ok", "uncertain"} => actions[k].tgt \in DOMAIN docs
    BY <2>1 DEF Books, Landed
  <2>3. sidecar.cur <= Len(sidecar.steps)
    <3>1. sidecar.cur \in Nat /\ Len(sidecar.steps) \in Nat
      BY <2>1 DEF Types, W!Workflow
    <3>2. sidecar.cur = 0 \/ sidecar.cur = Len(sidecar.steps)
      BY <2>1 DEF Checkpoint, Expecting, Done, W!NoWorkflow
    <3> QED  BY <3>1, <3>2
  <2>4. \A q \in Requests : req[q].pc \in {"idle", "lock", "plan", "insert"}
    BY <2>1 DEF Types, Snapshot, PCs
  <2>5. PlanTypeOK
    BY <2>1, <2>2, <2>3, <2>4 DEF PlanTypeOK, Types
  <2>6. ReadyMeansExecutable
    BY <2>1, ReadyAgrees DEF Types
  <2> QED  BY <2>1, <2>5, <2>6 DEF PlanFollowsReceipts
<1> QED  BY <1>1, PlanningInvariance, PTL
=============================================================================
