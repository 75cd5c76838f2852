------------------------ MODULE PolicyApprovalProofs ------------------------
(***************************************************************************)
(* What PolicyApproval and the pages in front of it promise for any users, *)
(* actions, documents and requests: the verdict on an action stands,       *)
(* whoever asks what in which order (VerdictsStand), and the pages show    *)
(* what happened and can be used again (PagesAreHonest).                   *)
(*                                                                         *)
(* VerdictsStand is not inductive: a decision is recorded before the state *)
(* moves, and a refused transition would leave the record behind.  It is   *)
(* never refused, because an action that awaits its approval has been      *)
(* written exactly twice, so that a snapshot which saw it at all saw its   *)
(* last version (ActionSound, SnapshotSound).                              *)
(*                                                                         *)
(* A page shows what the server once was, so that PagesAreHonest rests on  *)
(* what does not change any more there (MovesOn); and a button that is     *)
(* disabled on requests that stay under way until they give it back        *)
(* (BusyMovesOn).  AskingInv is the same for the pages a Run is asked for. *)
(***************************************************************************)
EXTENDS Pages, FiniteSetTheorems, TLAPS

\* f is a function on S, or a record with the fields S
IsFunOn(f, S) == f = [x \in S |-> f[x]]

CallFields ==
  {"phase", "user", "op", "action", "arg", "content", "view", "version", "from", "attached", "ok"}
ViewFields == {"cards", "row", "form", "loading", "busy", "asked", "answers"}

\* An action is written twice when it is proposed, and once for each transition after
ActionSound(a) ==
  /\ IsFunOn(actions[a], {"state", "version", "content"})
  /\ actions[a].version \in Nat
  /\ IF actions[a].state = "NONE" THEN actions[a].version = 0 ELSE actions[a].version >= 2
  /\ actions[a].state = "AWAITING_APPROVAL" => actions[a].version = 2
\* The verdict on an action, if it has one, and what its state says of it
VerdictSound(a) ==
  /\ approvals[a] \in Seq([actor : Users, decision : Decisions])
  /\ \A i, j \in Verdicts(a) : i = j
  /\ actions[a].state \in {"NONE", "AWAITING_APPROVAL"} => Verdicts(a) = {}
  /\ actions[a].state = "DECLINED" <=> \E i \in DOMAIN approvals[a] : approvals[a][i].decision = "DECLINE"
  /\ actions[a].state \in {"APPROVED", "EXECUTED"} => Allows(a) # {}
\* Who gave it, and who started the execution
DutySound(a) ==
  /\ \A i \in DOMAIN approvals[a] : P2P(a) <=> approvals[a][i].actor # Initiator
  /\ IsFunOn(reservations[a], {"by", "status"})
  /\ reservations[a] # Unreserved => reservations[a].by \in Users /\ reservations[a].by = Allowing(a)
RecordsSound ==
  /\ IsFunOn(actions, Actions) /\ IsFunOn(approvals, Actions) /\ IsFunOn(reservations, Actions)
  /\ \A a \in Actions : ActionSound(a) /\ VerdictSound(a) /\ DutySound(a)
  /\ KeysAreOwned

\* A request names a user, an action and, to decide, a decision
CallSound(q) ==
  /\ IsFunOn(q, CallFields)
  /\ q.phase \in {"sent", "open"} /\ q.op # "run" =>
       q.user \in Users /\ q.action \in Actions /\ (q.op = "decide" => q.arg \in Decisions)
\* The version a snapshot saw is one the action has had
SnapshotSound(q) ==
  q.phase = "open" =>
    /\ q.op # "run" /\ q.version \in Nat /\ q.version # 1
    /\ q.version <= actions[q.action].version
RequestsSound(f) == IsFunOn(f, Calls) /\ \A c \in Calls : CallSound(f[c]) /\ SnapshotSound(f[c])
CallsSound == RequestsSound(calls)

\* What the page shows, or is about to, are cards of actions
CardsSound(cards) == \A card \in cards : card.action \in Actions
ViewSound(v) ==
  /\ IsFunOn(v, ViewFields)
  /\ CardsSound(v.cards)
  /\ \A answer \in v.answers : CardsSound(answer.cards)
PageSound == seat \in Users /\ IsFunOn(views, Kinds) /\ \A p \in Kinds : ViewSound(views[p])

GovernanceInv == RecordsSound /\ CallsSound /\ PageSound

---------------------------------------------------------------------------
(***************************************************************************)
(* Requests.                                                               *)
(***************************************************************************)
\* A transition and a proposal only raise the version of an action
VersionsGrow ==
  \A a \in Actions :
    /\ actions[a].version \in Nat /\ actions'[a].version \in Nat
    /\ actions[a].version <= actions'[a].version

LEMMA IdleSound == CallSound(Idle)
BY DEF CallSound, IsFunOn, CallFields, Idle

\* An answered request and a request that is over hold no snapshot
LEMMA AnsweredSound ==
  ASSUME NEW q, CallSound(q), NEW ok
  PROVE  LET r == [q EXCEPT !.phase = "answered", !.ok = ok, !.view = {}, !.version = 0]
         IN CallSound(r) /\ r.phase = "answered"
BY DEF CallSound, IsFunOn, CallFields

LEMMA AnswerKeepsCalls ==
  ASSUME CallsSound, VersionsGrow, NEW c \in Calls, NEW ok, Answer(c, ok)
  PROVE  CallsSound'
<1> DEFINE r == IF calls[c].from = "api" THEN Idle
                ELSE [calls[c] EXCEPT !.phase = "answered", !.ok = ok, !.view = {}, !.version = 0]
<1>1. calls' = [calls EXCEPT ![c] = r] BY DEF Answer
<1>2. CallSound(calls[c]) BY DEF CallsSound, RequestsSound
<1>3. CallSound(r) /\ r.phase # "open"
  <2>1. CASE calls[c].from = "api"
    <3>1. r = Idle BY <2>1
    <3>2. Idle.phase # "open" BY DEF Idle
    <3> QED BY <3>1, <3>2, IdleSound
  <2>2. CASE calls[c].from # "api"
    BY <2>2, <1>2, AnsweredSound
  <2> QED BY <2>1, <2>2
<1> HIDE DEF r
<1>4. IsFunOn(calls', Calls) /\ \A d \in Calls : calls'[d] = IF d = c THEN r ELSE calls[d]
  BY <1>1 DEF CallsSound, RequestsSound, IsFunOn
<1>5. ASSUME NEW d \in Calls, d # c PROVE CallSound(calls'[d]) /\ SnapshotSound(calls[d])'
  <2>1. calls'[d] = calls[d] BY <1>4, <1>5
  <2>2. CallSound(calls[d]) /\ SnapshotSound(calls[d]) BY DEF CallsSound, RequestsSound
  <2>3. SnapshotSound(calls[d])'
    <3>1. CASE calls[d].phase # "open" BY <3>1, <2>1 DEF SnapshotSound
    <3>2. CASE calls[d].phase = "open"
      <4>1. calls[d].action \in Actions BY <3>2, <2>2 DEF CallSound, SnapshotSound
      <4> QED BY <4>1, <3>2, <2>1, <2>2 DEF SnapshotSound, VersionsGrow
    <3> QED BY <3>1, <3>2
  <2> QED BY <2>1, <2>2, <2>3
<1>6. CallSound(calls'[c]) /\ SnapshotSound(calls[c])'
  <2>1. calls'[c] = r BY <1>4
  <2> QED BY <2>1, <1>3 DEF SnapshotSound
<1>7. \A d \in Calls : CallSound(calls'[d]) /\ SnapshotSound(calls[d])'
  BY <1>5, <1>6
<1>8. \A d \in Calls : CallSound(calls[d])'
  BY <1>7 DEF CallSound
<1> QED BY <1>4, <1>7, <1>8 DEF CallsSound, RequestsSound

\* A change of one request that leaves the records alone
LEMMA OneCallSound ==
  ASSUME CallsSound, UNCHANGED actions, NEW c \in Calls, NEW r, calls' = [calls EXCEPT ![c] = r],
         CallSound(r), SnapshotSound(r)
  PROVE  CallsSound'
<1>1. IsFunOn(calls', Calls) /\ \A d \in Calls : calls'[d] = IF d = c THEN r ELSE calls[d]
  BY DEF CallsSound, RequestsSound, IsFunOn
<1>2. \A d \in Calls : CallSound(calls'[d]) /\ SnapshotSound(calls'[d])
  BY <1>1 DEF CallsSound, RequestsSound
<1>3. \A d \in Calls : CallSound(calls[d])' /\ SnapshotSound(calls[d])'
  BY <1>2 DEF CallSound, SnapshotSound
<1> QED BY <1>1, <1>3 DEF CallsSound, RequestsSound

LEMMA SentSound ==
  ASSUME NEW u \in Users, NEW op, NEW a \in Actions, NEW arg, op = "decide" => arg \in Decisions, NEW content, NEW from
  PROVE  CallSound(Sent(u, op, a, arg, content, from)) /\ SnapshotSound(Sent(u, op, a, arg, content, from))
BY DEF CallSound, SnapshotSound, IsFunOn, CallFields, Sent

LEMMA ApiCallKeeps ==
  ASSUME CallsSound, NEW c \in Calls, NEW u \in Users, NEW op, NEW a \in Actions, NEW arg,
         op = "decide" => arg \in Decisions, NEW content, ApiCall(c, u, op, a, arg, content)
  PROVE  CallsSound'
<1> DEFINE r == Sent(u, op, a, arg, content, "api")
<1>1. CallSound(r) /\ SnapshotSound(r) BY SentSound
<1>2. calls' = [calls EXCEPT ![c] = r] /\ UNCHANGED actions BY DEF ApiCall
<1> HIDE DEF r
<1> QED BY <1>1, <1>2, OneCallSound

LEMMA OpenKeeps ==
  ASSUME RecordsSound, CallsSound, NEW c \in Calls, Open(c)
  PROVE  CallsSound'
<1> DEFINE q == calls[c]
           v == actions[q.action].version
           r == [q EXCEPT !.phase = "open", !.view = held, !.version = v]
<1>1. CallSound(q) BY DEF CallsSound, RequestsSound
<1>2. q.phase = "sent" /\ q.op # "run" BY DEF Open
<1>3. q.action \in Actions BY <1>1, <1>2 DEF CallSound
<1>4. v \in Nat /\ v # 1 BY <1>3 DEF RecordsSound, ActionSound
<1>5. calls' = [calls EXCEPT ![c] = r] /\ UNCHANGED actions
  <2>1. calls' = [calls EXCEPT ![c].phase = "open", ![c].view = held, ![c].version = v] BY DEF Open
  <2>2. IsFunOn(calls, Calls) BY DEF CallsSound, RequestsSound
  <2>3. UNCHANGED actions BY DEF Open
  <2> QED BY <2>1, <2>2, <2>3 DEF IsFunOn
<1> HIDE DEF v
<1>6. CallSound(r) /\ r.phase = "open" /\ r.op = q.op /\ r.action = q.action /\ r.version = v
  BY <1>1, <1>2 DEF CallSound, IsFunOn, CallFields
<1>7. actions[r.action].version = v BY <1>6 DEF v
<1> HIDE DEF r
<1>8. SnapshotSound(r) BY <1>2, <1>4, <1>6, <1>7 DEF SnapshotSound
<1> QED BY <1>5, <1>6, <1>8, OneCallSound

LEMMA ClientKeeps ==
  ASSUME CallsSound, NEW c \in Calls, Client(c)
  PROVE  CallsSound' /\ UNCHANGED <<actions, approvals, reservations>>
<1>1. CASE \E raw \in Proposals : ApiCall(c, Initiator, "propose", raw.action, NoText, Reviewed(raw))
  <2>1. PICK raw \in Proposals : ApiCall(c, Initiator, "propose", raw.action, NoText, Reviewed(raw)) BY <1>1
  <2>2. raw.action \in Actions BY DEF Proposals, RawProposals
  <2>3. CallsSound' BY <2>1, <2>2, ApiCallKeeps, GovernanceAssumption
  <2> QED BY <2>1, <2>3 DEF ApiCall
<1>2. CASE \E u \in Users, a \in Actions, op \in {"decide", "execute"} :
             \E arg \in Args(op), content \in {actions[a].content, Blank} : ApiCall(c, u, op, a, arg, content)
  <2>1. PICK u \in Users, a \in Actions, op \in {"decide", "execute"} :
             \E arg \in Args(op), content \in {actions[a].content, Blank} : ApiCall(c, u, op, a, arg, content)
    BY <1>2
  <2>2. PICK arg \in Args(op), content \in {actions[a].content, Blank} : ApiCall(c, u, op, a, arg, content) BY <2>1
  <2>3. op = "decide" => arg \in Decisions BY DEF Args
  <2>4. CallsSound' BY <2>2, <2>3, ApiCallKeeps
  <2> QED BY <2>2, <2>4 DEF ApiCall
<1> QED BY <1>1, <1>2 DEF Client

---------------------------------------------------------------------------
(***************************************************************************)
(* Transitions.                                                            *)
(***************************************************************************)
LEMMA SameApprovals ==
  ASSUME NEW a, approvals'[a] = approvals[a]
  PROVE  Verdicts(a)' = Verdicts(a) /\ Allows(a)' = Allows(a) /\ Allowing(a)' = Allowing(a)
BY DEF Verdicts, Allows, Allowing

\* An action that a step does not touch
LEMMA UntouchedSound ==
  ASSUME NEW a \in Actions, ActionSound(a), VerdictSound(a), DutySound(a),
         actions'[a] = actions[a], approvals'[a] = approvals[a], reservations'[a] = reservations[a]
  PROVE  ActionSound(a)' /\ VerdictSound(a)' /\ DutySound(a)'
<1>1. Verdicts(a)' = Verdicts(a) /\ Allows(a)' = Allows(a) /\ Allowing(a)' = Allowing(a) BY SameApprovals
<1>2. ActionSound(a)' BY DEF ActionSound, IsFunOn
<1>3. VerdictSound(a)' BY <1>1 DEF VerdictSound
<1>4. DutySound(a)' BY <1>1 DEF DutySound, IsFunOn
<1> QED BY <1>2, <1>3, <1>4

\* No two actions share a key, as long as none is proposed
LEMMA KeysStay ==
  ASSUME KeysAreOwned,
         \A a \in Actions : actions'[a].content = actions[a].content
                            /\ (actions'[a].state = "NONE" <=> actions[a].state = "NONE")
  PROVE  KeysAreOwned'
BY DEF KeysAreOwned

LEMMA OneAllow ==
  ASSUME NEW a, VerdictSound(a), NEW i \in Allows(a)
  PROVE  Allowing(a) = approvals[a][i].actor
<1>1. Allows(a) \subseteq Verdicts(a) BY DEF Allows, Verdicts
<1>2. Allows(a) = {i} BY <1>1 DEF VerdictSound
<1>3. i \in Nat BY DEF Allows, VerdictSound
<1>4. Max(Allows(a)) = i BY <1>2, <1>3 DEF Max
<1> QED BY <1>2, <1>4 DEF Allowing

LEMMA ElementOf ==
  ASSUME NEW T, NEW s \in Seq(T), NEW i \in DOMAIN s
  PROVE  s[i] \in T
OBVIOUS

LEMMA AllowingIsUser ==
  ASSUME NEW a, VerdictSound(a)
  PROVE  /\ Allows(a) # {} => Allowing(a) \in Users /\ Allowing(a) # Nobody
         /\ Allows(a) = {} => Allowing(a) = Nobody
<1>1. ASSUME NEW i \in Allows(a) PROVE Allowing(a) \in Users
  <2>1. Allowing(a) = approvals[a][i].actor BY OneAllow
  <2>2. approvals[a] \in Seq([actor : Users, decision : Decisions]) BY DEF VerdictSound
  <2>3. i \in DOMAIN approvals[a] BY DEF Allows
  <2>4. approvals[a][i] \in [actor : Users, decision : Decisions] BY <2>2, <2>3, ElementOf
  <2> QED BY <2>1, <2>4
<1>2. Allows(a) = {} => Allowing(a) = Nobody BY DEF Allowing
<1> QED BY <1>1, <1>2, GovernanceAssumption

\* The execution of an approved action may close it, whatever else becomes of its reservation
LEMMA MoveKeeps ==
  ASSUME RecordsSound, NEW a \in Actions, Allows(a) # {}, NEW target \in {"EXECUTED", "EXPIRED"},
         actions' = Moved(a, target), UNCHANGED approvals,
         IsFunOn(reservations', Actions), \A b \in Actions : DutySound(b)'
  PROVE  RecordsSound' /\ VersionsGrow
<1> DEFINE v == actions[a].version + 1
<1>1. /\ IsFunOn(actions, Actions) /\ IsFunOn(approvals, Actions) /\ KeysAreOwned
      /\ \A b \in Actions : ActionSound(b) /\ VerdictSound(b)
  BY DEF RecordsSound
<1>2. actions[a].version \in Nat /\ actions[a].state # "NONE" /\ actions[a].version >= 2
  <2>1. Allows(a) \subseteq Verdicts(a) BY DEF Allows, Verdicts
  <2> QED BY <2>1, <1>1 DEF ActionSound, VerdictSound
<1>3. /\ IsFunOn(actions', Actions)
      /\ \A b \in Actions : b # a => actions'[b] = actions[b]
      /\ actions'[a] = [actions[a] EXCEPT !.state = target, !.version = v]
  BY <1>1 DEF Moved, IsFunOn
<1>4. v \in Nat /\ v >= 2 /\ actions[a].version <= v BY <1>2
<1> HIDE DEF v
<1>5. /\ IsFunOn(actions'[a], {"state", "version", "content"})
      /\ actions'[a].state = target /\ actions'[a].version = v /\ actions'[a].content = actions[a].content
  BY <1>1, <1>3 DEF ActionSound, IsFunOn
<1>6. ASSUME NEW b \in Actions, b # a PROVE ActionSound(b)' /\ VerdictSound(b)'
  <2>1. Verdicts(b)' = Verdicts(b) /\ Allows(b)' = Allows(b) BY SameApprovals
  <2>2. actions'[b] = actions[b] BY <1>3, <1>6
  <2>3. ActionSound(b) /\ VerdictSound(b) BY <1>1
  <2>4. ActionSound(b)' BY <2>2, <2>3 DEF ActionSound, IsFunOn
  <2>5. VerdictSound(b)' BY <2>1, <2>2, <2>3 DEF VerdictSound
  <2> QED BY <2>4, <2>5
<1>7. ActionSound(a)'
  BY <1>4, <1>5 DEF ActionSound
<1>8. VerdictSound(a)'
  <2>1. Verdicts(a)' = Verdicts(a) /\ Allows(a)' = Allows(a) BY SameApprovals
  <2>2. ~\E i \in DOMAIN approvals[a] : approvals[a][i].decision = "DECLINE"
    <3>1. PICK i \in Allows(a) : TRUE OBVIOUS
    <3>2. ASSUME NEW j \in DOMAIN approvals[a], approvals[a][j].decision = "DECLINE" PROVE FALSE
      <4>1. i \in Verdicts(a) /\ j \in Verdicts(a) BY <3>2 DEF Allows, Verdicts
      <4>2. i = j BY <4>1, <1>1 DEF VerdictSound
      <4> QED BY <3>2, <4>2 DEF Allows
    <3> QED BY <3>2
  <2>3. VerdictSound(a) BY <1>1
  <2> QED BY <1>5, <2>1, <2>2, <2>3 DEF VerdictSound
<1>9. \A b \in Actions : actions'[b].content = actions[b].content
                         /\ (actions'[b].state = "NONE" <=> actions[b].state = "NONE")
  BY <1>2, <1>3, <1>5
<1>10. KeysAreOwned' BY <1>1, <1>9, KeysStay
<1>11. VersionsGrow
  <2>1. \A b \in Actions : actions[b].version \in Nat BY <1>1 DEF ActionSound
  <2>2. \A b \in Actions : b # a => actions'[b].version = actions[b].version BY <1>3
  <2>3. actions'[a].version \in Nat /\ actions[a].version <= actions'[a].version BY <1>4, <1>5
  <2> QED BY <2>1, <2>2, <2>3 DEF VersionsGrow
<1>12. IsFunOn(approvals', Actions) BY <1>1
<1> QED BY <1>3, <1>6, <1>7, <1>8, <1>10, <1>11, <1>12 DEF RecordsSound

---------------------------------------------------------------------------
(***************************************************************************)
(* evaluate_proposal.                                                      *)
(***************************************************************************)
\* The record of a proposal the gates allowed or rejected
Proposed(outcome, content) ==
  [state |-> IF outcome = "ALLOW" THEN "AWAITING_APPROVAL" ELSE "POLICY_REJECTED", version |-> 2, content |-> content]

LEMMA ProposalKeeps ==
  ASSUME RecordsSound, NEW a \in Actions, NEW outcome, NEW content, Unclaimed(a, content.key),
         actions' = [actions EXCEPT ![a] = Proposed(outcome, content)], UNCHANGED <<approvals, reservations>>
  PROVE  RecordsSound' /\ VersionsGrow
<1> DEFINE new == Proposed(outcome, content)
<1>1. /\ IsFunOn(actions, Actions) /\ IsFunOn(approvals, Actions) /\ IsFunOn(reservations, Actions)
      /\ KeysAreOwned
      /\ \A b \in Actions : ActionSound(b) /\ VerdictSound(b) /\ DutySound(b)
  BY DEF RecordsSound
<1>2. /\ new.state \in {"AWAITING_APPROVAL", "POLICY_REJECTED"} /\ new.version = 2 /\ new.content = content
      /\ IsFunOn(new, {"state", "version", "content"})
  BY DEF Proposed, IsFunOn
<1>3. /\ IsFunOn(actions', Actions) /\ actions'[a] = new
      /\ \A b \in Actions : b # a => actions'[b] = actions[b]
  BY <1>1 DEF IsFunOn
<1> HIDE DEF new
<1>4. ASSUME NEW b \in Actions, b # a PROVE ActionSound(b)' /\ VerdictSound(b)' /\ DutySound(b)'
  <2>1. actions'[b] = actions[b] BY <1>3, <1>4
  <2> QED BY <1>1, <2>1, UntouchedSound
<1>5. actions[a].version = 0 /\ actions[a].state = "NONE" BY <1>1 DEF ActionSound, Unclaimed
<1>6. ActionSound(a)' BY <1>2, <1>3 DEF ActionSound
<1>7. VerdictSound(a)'
  <2>1. Verdicts(a)' = Verdicts(a) /\ Allows(a)' = Allows(a) BY SameApprovals
  <2>2. VerdictSound(a) /\ Verdicts(a) = {} BY <1>1, <1>5 DEF VerdictSound
  <2>3. ~\E i \in DOMAIN approvals[a] : approvals[a][i].decision = "DECLINE" BY <2>2 DEF Verdicts
  <2> QED BY <1>2, <1>3, <2>1, <2>2, <2>3 DEF VerdictSound
<1>8. DutySound(a)'
  <2>1. Allowing(a)' = Allowing(a) BY SameApprovals
  <2> QED BY <1>1, <2>1 DEF DutySound, IsFunOn
<1>9. KeysAreOwned'
  <2>1. ASSUME NEW b \in Actions, b # a, actions[b].state # "NONE" PROVE actions'[b].content.key # content.key
    BY <1>3, <2>1 DEF Unclaimed
  <2> QED BY <1>1, <1>2, <1>3, <2>1 DEF KeysAreOwned
<1>10. VersionsGrow
  <2>1. \A b \in Actions : actions[b].version \in Nat BY <1>1 DEF ActionSound
  <2>2. \A b \in Actions : b # a => actions'[b].version = actions[b].version BY <1>3
  <2>3. actions'[a].version = 2 BY <1>2, <1>3
  <2> QED BY <1>5, <2>1, <2>2, <2>3 DEF VersionsGrow
<1>11. IsFunOn(approvals', Actions) /\ IsFunOn(reservations', Actions) BY <1>1
<1> QED BY <1>3, <1>4, <1>6, <1>7, <1>8, <1>9, <1>10, <1>11 DEF RecordsSound

LEMMA EvaluateKeeps ==
  ASSUME RecordsSound, CallsSound, NEW c \in Calls, NEW broken, EvaluateProposal(c, broken)
  PROVE  RecordsSound' /\ CallsSound'
<1> DEFINE q == calls[c]
           outcome == PolicyOutcome(q.view, GateChecks(q.view, q.action, q.user, Nobody, broken))
<1>1. q.phase = "open" /\ q.op = "propose" /\ Unclaimed(q.action, q.content.key)
  BY DEF EvaluateProposal, Handling
<1>2. q.action \in Actions BY <1>1 DEF CallsSound, RequestsSound, CallSound
<1>3. /\ actions' = [actions EXCEPT ![q.action] = Proposed(outcome, q.content)]
      /\ UNCHANGED <<approvals, reservations>> /\ Answer(c, TRUE)
  BY DEF EvaluateProposal, Proposed
<1> HIDE DEF outcome
<1>4. RecordsSound' /\ VersionsGrow BY <1>1, <1>2, <1>3, ProposalKeeps
<1> QED BY <1>3, <1>4, AnswerKeepsCalls

---------------------------------------------------------------------------
(***************************************************************************)
(* decide_action.                                                          *)
(***************************************************************************)
\* A decision that may be taken is one of a user whose snapshot saw the action as it is, so
\* that no verdict is recorded without its transition
LEMMA DecisionMoves ==
  ASSUME RecordsSound, CallsSound, NEW c \in Calls, NEW broken, Handling(c, "decide"), Decidable(c, broken),
         calls[c].arg # "CHANGES_REQUESTED"
  PROVE  MayTransition(c, Target(calls[c].arg))
<1> DEFINE q == calls[c]
           a == q.action
<1>1. q.phase = "open" /\ q.op = "decide" BY DEF Handling
<1>2. /\ a \in Actions /\ q.version \in Nat /\ q.version # 1 /\ q.version <= actions[a].version
  BY <1>1 DEF CallsSound, RequestsSound, CallSound, SnapshotSound
<1>3. q.version > 0 /\ actions[a].state = "AWAITING_APPROVAL" /\ ApproverAllowed(q.view, a, q.user)
      /\ policies[a] = "ALLOW"
  BY DEF Decidable
<1>4. actions[a].version = 2 BY <1>2, <1>3 DEF RecordsSound, ActionSound
<1>5. actions[a].version = q.version BY <1>2, <1>3, <1>4
<1>6. Proven(a, q.user) BY <1>3 DEF Proven, ApproverAllowed
<1>7. Target(q.arg) \in {"APPROVED", "DECLINED"} BY DEF Target
<1>8. "AWAITING_APPROVAL" \in DOMAIN Transitions /\ Target(q.arg) \in Transitions["AWAITING_APPROVAL"]
  BY <1>7 DEF Transitions
<1> QED BY <1>3, <1>5, <1>6, <1>8 DEF MayTransition

LEMMA Appended ==
  ASSUME NEW T, NEW s \in Seq(T), NEW e \in T
  PROVE  /\ Append(s, e) \in Seq(T)
         /\ DOMAIN Append(s, e) = DOMAIN s \cup {Len(s) + 1}
         /\ Append(s, e)[Len(s) + 1] = e
         /\ \A i \in DOMAIN s : i # Len(s) + 1 /\ Append(s, e)[i] = s[i]
OBVIOUS

\* What the approvals of an action become with decision d of user u, if it had no verdict:
\* its first verdict, or one more request for changes
FirstVerdict(a, u, d) ==
  LET n == Len(approvals[a]) + 1 IN
  /\ approvals'[a] \in Seq([actor : Users, decision : Decisions])
  /\ Verdicts(a)' = IF d = "CHANGES_REQUESTED" THEN {} ELSE {n}
  /\ d = "ALLOW" => n \in Allows(a)'
  /\ d = "DECLINE" <=> \E i \in DOMAIN approvals'[a] : approvals'[a][i].decision = "DECLINE"
  /\ \A i \in DOMAIN approvals'[a] :
        approvals'[a][i].actor = u \/ (i \in DOMAIN approvals[a] /\ approvals'[a][i] = approvals[a][i])

LEMMA VerdictRecorded ==
  ASSUME NEW a \in Actions, VerdictSound(a), Verdicts(a) = {}, NEW u \in Users, NEW d \in Decisions,
         approvals'[a] = Append(approvals[a], [actor |-> u, decision |-> d])
  PROVE  FirstVerdict(a, u, d)
<1> DEFINE T == [actor : Users, decision : Decisions]
           e == [actor |-> u, decision |-> d]
           n == Len(approvals[a]) + 1
           s == approvals[a]
           t == approvals'[a]
<1>1. s \in Seq(T) BY DEF VerdictSound
<1>2. e \in T /\ e.actor = u /\ e.decision = d OBVIOUS
<1>3. t = Append(s, e) OBVIOUS
<1> HIDE DEF T, e
<1>4. /\ t \in Seq(T) /\ DOMAIN t = DOMAIN s \cup {n} /\ t[n] = e
      /\ \A i \in DOMAIN s : i # n /\ t[i] = s[i]
  BY <1>1, <1>2, <1>3, Appended
<1>5. \A i \in DOMAIN s : s[i].decision = "CHANGES_REQUESTED" BY DEF Verdicts
<1>6. Verdicts(a)' = {i \in DOMAIN t : t[i].decision # "CHANGES_REQUESTED"} BY DEF Verdicts
<1>7. Allows(a)' = {i \in DOMAIN t : t[i].decision = "ALLOW"} BY DEF Allows
<1> HIDE DEF n, s, t
<1>8. Verdicts(a)' = IF d = "CHANGES_REQUESTED" THEN {} ELSE {n}
  BY <1>2, <1>4, <1>5, <1>6
<1>9. d = "ALLOW" => n \in Allows(a)' BY <1>2, <1>4, <1>7
<1>10. d = "DECLINE" <=> \E i \in DOMAIN t : t[i].decision = "DECLINE"
  BY <1>2, <1>4, <1>5
<1>11. \A i \in DOMAIN t : t[i].actor = u \/ (i \in DOMAIN s /\ t[i] = s[i])
  BY <1>2, <1>4
<1> QED BY <1>4, <1>8, <1>9, <1>10, <1>11 DEF FirstVerdict, T, n, s, t

LEMMA DecisionKeeps ==
  ASSUME RecordsSound, NEW a \in Actions, NEW u \in Users, NEW d \in Decisions,
         actions[a].state = "AWAITING_APPROVAL", P2P(a) <=> u # Initiator,
         approvals' = [approvals EXCEPT ![a] = Append(@, [actor |-> u, decision |-> d])],
         actions' = (IF d # "CHANGES_REQUESTED" THEN Moved(a, Target(d)) ELSE actions),
         UNCHANGED reservations
  PROVE  RecordsSound' /\ VersionsGrow
<1> DEFINE n == Len(approvals[a]) + 1
           v == actions[a].version + 1
<1>1. /\ IsFunOn(actions, Actions) /\ IsFunOn(approvals, Actions) /\ IsFunOn(reservations, Actions)
      /\ KeysAreOwned
      /\ \A b \in Actions : ActionSound(b) /\ VerdictSound(b) /\ DutySound(b)
  BY DEF RecordsSound
<1>2. /\ IsFunOn(approvals', Actions)
      /\ approvals'[a] = Append(approvals[a], [actor |-> u, decision |-> d])
      /\ \A b \in Actions : b # a => approvals'[b] = approvals[b]
  BY <1>1 DEF IsFunOn
<1>3. Verdicts(a) = {} /\ actions[a].version = 2 BY <1>1 DEF VerdictSound, ActionSound
<1>4. /\ approvals'[a] \in Seq([actor : Users, decision : Decisions])
      /\ Verdicts(a)' = IF d = "CHANGES_REQUESTED" THEN {} ELSE {n}
      /\ d = "ALLOW" => n \in Allows(a)'
      /\ d = "DECLINE" <=> \E i \in DOMAIN approvals'[a] : approvals'[a][i].decision = "DECLINE"
      /\ \A i \in DOMAIN approvals'[a] :
              approvals'[a][i].actor = u \/ (i \in DOMAIN approvals[a] /\ approvals'[a][i] = approvals[a][i])
  <2>1. VerdictSound(a) BY <1>1
  <2>2. approvals'[a] = Append(approvals[a], [actor |-> u, decision |-> d]) BY <1>2
  <2>3. Verdicts(a) = {} BY <1>3
  <2>4. FirstVerdict(a, u, d) BY <2>1, <2>2, <2>3, VerdictRecorded
  <2> QED BY <2>4 DEF FirstVerdict
<1> HIDE DEF n, v
<1>5. /\ IsFunOn(actions', Actions)
      /\ \A b \in Actions : b # a => actions'[b] = actions[b]
  BY <1>1 DEF Moved, IsFunOn
<1>6. /\ IsFunOn(actions'[a], {"state", "version", "content"})
      /\ actions'[a].content = actions[a].content
      /\ d = "CHANGES_REQUESTED" => actions'[a] = actions[a]
      /\ d # "CHANGES_REQUESTED" => actions'[a].state = Target(d) /\ actions'[a].version = 3
  <2>1. CASE d = "CHANGES_REQUESTED"
    <3>1. actions'[a] = actions[a] BY <2>1
    <3> QED BY <3>1, <2>1, <1>1 DEF ActionSound, IsFunOn
  <2>2. CASE d # "CHANGES_REQUESTED"
    <3>1. actions'[a] = [actions[a] EXCEPT !.state = Target(d), !.version = v] BY <2>2, <1>1 DEF Moved, IsFunOn, v
    <3>2. v = 3 BY <1>3 DEF v
    <3> QED BY <2>2, <3>1, <3>2, <1>1 DEF ActionSound, IsFunOn
  <2> QED BY <2>1, <2>2
<1>7. Target(d) = IF d = "ALLOW" THEN "APPROVED" ELSE "DECLINED" BY DEF Target
<1>8. ASSUME NEW b \in Actions, b # a PROVE ActionSound(b)' /\ VerdictSound(b)' /\ DutySound(b)'
  BY <1>1, <1>2, <1>5, <1>8, UntouchedSound
<1>9. ActionSound(a)'
  BY <1>1, <1>3, <1>6, <1>7 DEF ActionSound
<1>10. VerdictSound(a)'
  <2>1. d \in {"ALLOW", "DECLINE", "CHANGES_REQUESTED"} BY DEF Decisions
  <2>2. \A i, j \in Verdicts(a)' : i = j BY <1>4
  <2>3. CASE d = "CHANGES_REQUESTED"
    BY <2>2, <2>3, <1>4, <1>6 DEF VerdictSound
  <2>4. CASE d # "CHANGES_REQUESTED"
    <3>1. actions'[a].state = IF d = "ALLOW" THEN "APPROVED" ELSE "DECLINED" BY <2>4, <1>6, <1>7
    <3> QED BY <2>1, <2>2, <2>4, <3>1, <1>4 DEF VerdictSound
  <2> QED BY <2>3, <2>4
<1>11. DutySound(a)'
  <2>1. \A i \in DOMAIN approvals'[a] : P2P(a) <=> approvals'[a][i].actor # Initiator
    BY <1>1, <1>4 DEF DutySound
  <2>2. reservations[a] = Unreserved
    <3>1. Allows(a) = {} BY <1>3 DEF Allows, Verdicts
    <3>2. Allowing(a) = Nobody BY <3>1 DEF Allowing
    <3>3. Nobody \notin Users BY GovernanceAssumption
    <3> QED BY <1>1, <3>2, <3>3 DEF DutySound
  <2>3. IsFunOn(reservations[a], {"by", "status"}) BY <1>1 DEF DutySound
  <2> QED BY <2>1, <2>2, <2>3 DEF DutySound, IsFunOn
<1>12. KeysAreOwned'
  <2>1. \A b \in Actions : actions'[b].content = actions[b].content
                           /\ (actions'[b].state = "NONE" <=> actions[b].state = "NONE")
    BY <1>5, <1>6, <1>7
  <2> QED BY <1>1, <2>1, KeysStay
<1>13. VersionsGrow
  <2>1. \A b \in Actions : actions[b].version \in Nat BY <1>1 DEF ActionSound
  <2>2. \A b \in Actions : b # a => actions'[b].version = actions[b].version BY <1>5
  <2>3. actions'[a].version \in {2, 3} BY <1>3, <1>6
  <2> QED BY <1>3, <2>1, <2>2, <2>3 DEF VersionsGrow
<1>14. IsFunOn(reservations', Actions) BY <1>1
<1> QED BY <1>2, <1>5, <1>8, <1>9, <1>10, <1>11, <1>12, <1>13, <1>14 DEF RecordsSound

LEMMA DecideKeeps ==
  ASSUME RecordsSound, CallsSound, NEW c \in Calls, NEW broken, Decide(c, broken)
  PROVE  RecordsSound' /\ CallsSound'
<1> DEFINE q == calls[c]
<1>1. q.phase = "open" /\ q.op = "decide" /\ Handling(c, "decide") /\ Decidable(c, broken) BY DEF Decide, Handling
<1>2. q.user \in Users /\ q.action \in Actions /\ q.arg \in Decisions BY <1>1 DEF CallsSound, RequestsSound, CallSound, SnapshotSound
<1>3. actions[q.action].state = "AWAITING_APPROVAL" /\ (P2P(q.action) <=> q.user # Initiator)
  BY <1>1 DEF Decidable, ApproverAllowed
<1>4. q.arg # "CHANGES_REQUESTED" => MayTransition(c, Target(q.arg)) BY <1>1, DecisionMoves
<1>5. /\ approvals' = [approvals EXCEPT ![q.action] = Append(@, [actor |-> q.user, decision |-> q.arg])]
      /\ actions' = (IF q.arg # "CHANGES_REQUESTED" THEN Moved(q.action, Target(q.arg)) ELSE actions)
      /\ UNCHANGED reservations
      /\ Answer(c, (q.arg # "CHANGES_REQUESTED" /\ MayTransition(c, Target(q.arg))) \/ q.arg = "CHANGES_REQUESTED")
  BY <1>4 DEF Decide
<1>6. RecordsSound' /\ VersionsGrow BY <1>2, <1>3, <1>5, DecisionKeeps
<1> QED BY <1>5, <1>6, AnswerKeepsCalls

---------------------------------------------------------------------------
(***************************************************************************)
(* Execution requests, and the rest of an execution.                       *)
(***************************************************************************)
\* A step that writes at most reservations
LEMMA ReservationsKeep ==
  ASSUME RecordsSound, UNCHANGED <<actions, approvals>>, IsFunOn(reservations', Actions),
         \A a \in Actions : DutySound(a)'
  PROVE  RecordsSound' /\ VersionsGrow
<1>1. \A a \in Actions : ActionSound(a)' BY DEF RecordsSound, ActionSound, IsFunOn
<1>2. ASSUME NEW a \in Actions PROVE VerdictSound(a)'
  <2>1. Verdicts(a)' = Verdicts(a) /\ Allows(a)' = Allows(a) BY SameApprovals
  <2>2. VerdictSound(a) BY DEF RecordsSound
  <2> QED BY <2>1, <2>2 DEF VerdictSound
<1>3. KeysAreOwned' BY DEF RecordsSound, KeysAreOwned
<1>4. IsFunOn(actions', Actions) /\ IsFunOn(approvals', Actions) BY DEF RecordsSound
<1>5. VersionsGrow BY DEF RecordsSound, ActionSound, VersionsGrow
<1> QED BY <1>1, <1>2, <1>3, <1>4, <1>5 DEF RecordsSound

LEMMA NothingWritten ==
  ASSUME RecordsSound, UNCHANGED <<actions, approvals, reservations>>
  PROVE  RecordsSound' /\ VersionsGrow
<1>1. ASSUME NEW a \in Actions PROVE DutySound(a)'
  <2>1. Allowing(a)' = Allowing(a) BY SameApprovals
  <2>2. DutySound(a) BY DEF RecordsSound
  <2> QED BY <2>1, <2>2 DEF DutySound, IsFunOn
<1>2. IsFunOn(reservations', Actions) BY DEF RecordsSound
<1> QED BY <1>1, <1>2, ReservationsKeep

\* The user of a reservation stays the one whose approval it is
LEMMA ReservationSound ==
  ASSUME RecordsSound, NEW a \in Actions, NEW r, IsFunOn(r, {"by", "status"}),
         r.by \in Users /\ r.by = Allowing(a),
         reservations' = [reservations EXCEPT ![a] = r], UNCHANGED approvals
  PROVE  IsFunOn(reservations', Actions) /\ \A b \in Actions : DutySound(b)'
<1>1. /\ IsFunOn(reservations', Actions) /\ reservations'[a] = r
      /\ \A b \in Actions : b # a => reservations'[b] = reservations[b]
  BY DEF RecordsSound, IsFunOn
<1>2. ASSUME NEW b \in Actions PROVE DutySound(b)'
  <2>1. Allowing(b)' = Allowing(b) BY SameApprovals
  <2>2. DutySound(b) BY DEF RecordsSound
  <2>3. CASE b = a BY <2>1, <2>2, <2>3, <1>1 DEF DutySound, IsFunOn
  <2>4. CASE b # a
    <3>1. reservations'[b] = reservations[b] BY <2>4, <1>1
    <3> QED BY <2>1, <2>2, <3>1 DEF DutySound, IsFunOn
  <2> QED BY <2>3, <2>4
<1> QED BY <1>1, <1>2

\* pre_execute_recheck lets through the person who approved
LEMMA ReserveKeeps ==
  ASSUME RecordsSound, CallsSound, NEW c \in Calls, NEW broken, Reserve(c, broken)
  PROVE  RecordsSound' /\ CallsSound'
<1> DEFINE q == calls[c]
           a == q.action
           r == [by |-> q.user, status |-> "EXECUTING"]
<1>1. q.phase = "open" /\ q.op = "execute" /\ Bound(c) /\ Rechecked(c, broken) BY DEF Reserve, Handling
<1>2. q.user \in Users /\ a \in Actions BY <1>1 DEF CallsSound, RequestsSound, CallSound
<1>3. VerdictSound(a) /\ DutySound(a) BY <1>2 DEF RecordsSound
<1>4. q.user = Allowing(a)
  <2>1. CASE P2P(a) BY <2>1, <1>1 DEF Bound
  <2>2. CASE ~P2P(a)
    <3>1. GateChecks(q.view, a, q.user, Nobody, broken)[1] = "PASS"
      BY <2>2, <1>1 DEF Rechecked, AllPass
    <3>2. RunIdentity(q.view, q.user, Nobody) = "PASS"
      BY <3>1 DEF GateChecks, GATE_ORDER
    <3>3. q.user = Initiator BY <3>2 DEF RunIdentity, Grade
    <3>4. Allows(a) # {} BY <1>1, <1>3, AllowingIsUser DEF Bound
    <3>5. PICK i \in Allows(a) : TRUE BY <3>4
    <3>6. Allowing(a) = approvals[a][i].actor BY <1>3, OneAllow
    <3>7. i \in DOMAIN approvals[a] BY DEF Allows
    <3>8. approvals[a][i].actor = Initiator BY <3>7, <2>2, <1>3 DEF DutySound
    <3> QED BY <3>3, <3>6, <3>8
  <2> QED BY <2>1, <2>2
<1>5. IsFunOn(r, {"by", "status"}) /\ r.by = q.user BY DEF IsFunOn
<1>6. reservations' = [reservations EXCEPT ![a] = r] /\ UNCHANGED <<actions, approvals>> /\ Answer(c, TRUE)
  BY DEF Reserve
<1> HIDE DEF r
<1>7. IsFunOn(reservations', Actions) /\ \A b \in Actions : DutySound(b)'
  BY <1>2, <1>4, <1>5, <1>6, ReservationSound
<1>8. RecordsSound' /\ VersionsGrow BY <1>6, <1>7, ReservationsKeep
<1> QED BY <1>6, <1>8, AnswerKeepsCalls

LEMMA ExpireKeeps ==
  ASSUME RecordsSound, CallsSound, NEW c \in Calls, NEW broken, Expire(c, broken)
  PROVE  RecordsSound' /\ CallsSound'
<1> DEFINE a == calls[c].action
<1>1. calls[c].phase = "open" /\ calls[c].op = "execute" /\ Bound(c) BY DEF Expire, Handling
<1>2. a \in Actions BY <1>1 DEF CallsSound, RequestsSound, CallSound
<1>3. VerdictSound(a) BY <1>2 DEF RecordsSound
<1>4. UNCHANGED <<approvals, reservations>> /\ Answer(c, FALSE)
      /\ (actions' = Moved(a, "EXPIRED") \/ actions' = actions)
  BY DEF Expire
<1>5. RecordsSound' /\ VersionsGrow
  <2>1. CASE actions' = actions BY <2>1, <1>4, NothingWritten
  <2>2. CASE actions' = Moved(a, "EXPIRED")
    <3>1. Allows(a) # {} BY <1>1, <1>3, AllowingIsUser DEF Bound
    <3>2. IsFunOn(reservations', Actions) BY <1>4 DEF RecordsSound
    <3>3. ASSUME NEW b \in Actions PROVE DutySound(b)'
      <4>1. Allowing(b)' = Allowing(b) BY <1>4, SameApprovals
      <4>2. DutySound(b) BY DEF RecordsSound
      <4> QED BY <1>4, <4>1, <4>2 DEF DutySound, IsFunOn
    <3> QED BY <2>2, <1>2, <1>4, <3>1, <3>2, <3>3, MoveKeeps
  <2> QED BY <1>4, <2>1, <2>2
<1> QED BY <1>4, <1>5, AnswerKeepsCalls

LEMMA ClosingKeeps ==
  ASSUME RecordsSound, NEW a \in Actions, reservations[a].status # "none",
         NEW status \in {"SUCCEEDED", "FAILED", "RECONCILIATION_REQUIRED"}, Closing(a, status), UNCHANGED approvals
  PROVE  RecordsSound' /\ VersionsGrow
<1> DEFINE r == [reservations[a] EXCEPT !.status = status]
<1>1. VerdictSound(a) /\ DutySound(a) /\ IsFunOn(reservations, Actions) BY DEF RecordsSound
<1>2. reservations[a] # Unreserved BY DEF Unreserved
<1>3. IsFunOn(r, {"by", "status"}) /\ r.by = reservations[a].by BY <1>1 DEF DutySound, IsFunOn
<1>4. reservations' = [reservations EXCEPT ![a] = r] BY <1>1 DEF Closing, IsFunOn
<1> HIDE DEF r
<1>5. r.by \in Users /\ r.by = Allowing(a) BY <1>1, <1>2, <1>3 DEF DutySound
<1>6. IsFunOn(reservations', Actions) /\ \A b \in Actions : DutySound(b)'
  BY <1>3, <1>4, <1>5, ReservationSound
<1>7. Allows(a) # {}
  <2>1. Nobody \notin Users BY GovernanceAssumption
  <2> QED BY <1>1, <1>5, <2>1, AllowingIsUser
<1>8. actions' = Moved(a, "EXECUTED") \/ actions' = Moved(a, "EXPIRED") \/ actions' = actions BY DEF Closing
<1>9. CASE actions' = Moved(a, "EXECUTED") BY <1>6, <1>7, <1>9, MoveKeeps
<1>10. CASE actions' = Moved(a, "EXPIRED") BY <1>6, <1>7, <1>10, MoveKeeps
<1>11. CASE actions' = actions BY <1>6, <1>11, ReservationsKeep
<1> QED BY <1>8, <1>9, <1>10, <1>11

LEMMA ReconcileKeeps ==
  ASSUME RecordsSound, CallsSound, NEW c \in Calls, Reconcile(c)
  PROVE  RecordsSound' /\ CallsSound'
<1> DEFINE a == calls[c].action
           uncertain == reservations[a] = [by |-> calls[c].user, status |-> "RECONCILIATION_REQUIRED"]
<1>1. calls[c].phase = "open" /\ calls[c].op = "reconcile" /\ UNCHANGED approvals BY DEF Reconcile, Handling
<1>2. a \in Actions BY <1>1 DEF CallsSound, RequestsSound, CallSound
<1>3. CASE uncertain
  <2>1. PICK status \in {"SUCCEEDED", "FAILED"} : Closing(a, status) BY <1>3 DEF Reconcile
  <2>2. Answer(c, TRUE) BY <1>3 DEF Reconcile
  <2>3. reservations[a].status # "none" BY <1>3
  <2>4. RecordsSound' /\ VersionsGrow BY <1>1, <1>2, <2>1, <2>3, ClosingKeeps
  <2> QED BY <2>2, <2>4, AnswerKeepsCalls
<1>4. CASE ~uncertain
  <2>1. UNCHANGED <<actions, approvals, reservations>> /\ Answer(c, FALSE) BY <1>1, <1>4 DEF Reconcile
  <2> QED BY <2>1, NothingWritten, AnswerKeepsCalls
<1> QED BY <1>3, <1>4

---------------------------------------------------------------------------
(***************************************************************************)
(* The server.                                                             *)
(***************************************************************************)
LEMMA AnswerOnlyKeeps ==
  ASSUME RecordsSound, CallsSound, NEW c \in Calls, NEW ok, Answer(c, ok), UNCHANGED <<actions, approvals, reservations>>
  PROVE  RecordsSound' /\ CallsSound'
BY NothingWritten, AnswerKeepsCalls

LEMMA ServeWritesKeeps ==
  ASSUME RecordsSound, CallsSound, NEW c \in Calls, ServeWrites(c)
  PROVE  RecordsSound' /\ CallsSound'
<1>1. CASE Open(c)
  <2>1. UNCHANGED <<actions, approvals, reservations>> BY <1>1 DEF Open
  <2> QED BY <1>1, <2>1, OpenKeeps, NothingWritten
<1>2. ASSUME NEW broken \in Breaks, EvaluateProposal(c, broken) PROVE RecordsSound' /\ CallsSound'
  BY <1>2, EvaluateKeeps
<1>3. ASSUME NEW broken \in Breaks, Decide(c, broken) PROVE RecordsSound' /\ CallsSound'
  BY <1>3, DecideKeeps
<1>4. ASSUME NEW broken \in Breaks, RefuseDecision(c, broken) PROVE RecordsSound' /\ CallsSound'
  <2>1. Answer(c, FALSE) /\ UNCHANGED <<actions, approvals, reservations>> BY <1>4 DEF RefuseDecision, Refuse
  <2> QED BY <2>1, AnswerOnlyKeeps
<1>5. ASSUME NEW broken \in Breaks, Reserve(c, broken) PROVE RecordsSound' /\ CallsSound'
  BY <1>5, ReserveKeeps
<1>6. ASSUME NEW broken \in Breaks, Expire(c, broken) PROVE RecordsSound' /\ CallsSound'
  BY <1>6, ExpireKeeps
<1>7. CASE RefuseProposal(c)
  <2>1. Answer(c, FALSE) /\ UNCHANGED <<actions, approvals, reservations>> BY <1>7 DEF RefuseProposal, Refuse
  <2> QED BY <2>1, AnswerOnlyKeeps
<1>8. CASE RefuseExecution(c)
  <2> DEFINE ok == reservations[calls[c].action].by = calls[c].user
  <2>1. Answer(c, ok) /\ UNCHANGED <<actions, approvals, reservations>> BY <1>8 DEF RefuseExecution
  <2> HIDE DEF ok
  <2> QED BY <2>1, AnswerOnlyKeeps
<1>9. CASE Reconcile(c) BY <1>9, ReconcileKeeps
<1> QED BY <1>1, <1>2, <1>3, <1>4, <1>5, <1>6, <1>7, <1>8, <1>9 DEF ServeWrites

\* What is already on its way keeps its version while the records move
LEMMA CallsWait ==
  ASSUME CallsSound, VersionsGrow, UNCHANGED calls
  PROVE  CallsSound'
<1>1. ASSUME NEW c \in Calls PROVE CallSound(calls[c])' /\ SnapshotSound(calls[c])'
  <2>1. CallSound(calls[c]) /\ SnapshotSound(calls[c]) BY DEF CallsSound, RequestsSound
  <2>2. calls'[c] = calls[c] OBVIOUS
  <2>3. CallSound(calls[c])' BY <2>1, <2>2 DEF CallSound
  <2>4. CASE calls[c].phase # "open" BY <2>2, <2>3, <2>4 DEF SnapshotSound
  <2>5. CASE calls[c].phase = "open"
    <3>1. calls[c].action \in Actions BY <2>1, <2>5 DEF CallSound, SnapshotSound
    <3> QED BY <2>1, <2>2, <2>3, <2>5, <3>1 DEF SnapshotSound, VersionsGrow
  <2> QED BY <2>4, <2>5
<1>2. IsFunOn(calls', Calls) BY DEF CallsSound, RequestsSound
<1> QED BY <1>1, <1>2 DEF CallsSound, RequestsSound

LEMMA ServerKeeps ==
  ASSUME RecordsSound, CallsSound, ServerNext
  PROVE  RecordsSound' /\ CallsSound'
<1>1. ASSUME NEW c \in Calls, Client(c) PROVE RecordsSound' /\ CallsSound'
  BY <1>1, ClientKeeps, NothingWritten
<1>2. ASSUME NEW c \in Calls, ServeWrites(c) PROVE RecordsSound' /\ CallsSound'
  BY <1>2, ServeWritesKeeps
<1>3. ASSUME NEW a \in Actions, Settle(a) PROVE RecordsSound' /\ CallsSound'
  <2>1. PICK status \in {"SUCCEEDED", "FAILED", "RECONCILIATION_REQUIRED"} : Closing(a, status) BY <1>3 DEF Settle
  <2>2. UNCHANGED <<approvals, calls>> /\ reservations[a].status # "none" BY <1>3 DEF Settle
  <2>3. RecordsSound' /\ VersionsGrow BY <2>1, <2>2, ClosingKeeps
  <2> QED BY <2>2, <2>3, CallsWait
<1>4. ASSUME NEW fact \in AllFacts, Lose(fact) PROVE RecordsSound' /\ CallsSound'
  <2>1. UNCHANGED <<actions, approvals, reservations, calls>> BY <1>4 DEF Lose
  <2> QED BY <2>1, NothingWritten, CallsWait
<1> QED BY <1>1, <1>2, <1>3, <1>4 DEF ServerNext

---------------------------------------------------------------------------
(***************************************************************************)
(* The page: what it shows are cards of actions, so that what its buttons  *)
(* send is about actions.                                                  *)
(***************************************************************************)
LEMMA BlankedSound == ASSUME NEW v, ViewSound(v) PROVE ViewSound(Blanked(v))
BY DEF ViewSound, CardsSound, Blanked, IsFunOn, ViewFields

LEMMA AskingSound == ASSUME NEW v, ViewSound(v) PROVE ViewSound(Asking(v))
BY DEF ViewSound, CardsSound, Asking, IsFunOn, ViewFields

\* Loading, the goal dialog, the buttons and the row carry no cards
LEMMA FieldsSound ==
  ASSUME NEW v, ViewSound(v), NEW x
  PROVE  /\ ViewSound([v EXCEPT !.loading = x]) /\ ViewSound([v EXCEPT !.form = x])
         /\ ViewSound([v EXCEPT !.busy = x]) /\ ViewSound([v EXCEPT !.asked = x])
         /\ ViewSound([v EXCEPT !.row = x])
BY DEF ViewSound, CardsSound, IsFunOn, ViewFields

LEMMA LoadingSound == ASSUME NEW v, ViewSound(v) PROVE ViewSound(Loading(v))
<1> DEFINE w == Asking(Blanked(v))
<1>1. ViewSound(w) BY BlankedSound, AskingSound
<1> HIDE DEF w
<1>2. ViewSound([w EXCEPT !.loading = TRUE]) BY <1>1, FieldsSound
<1> QED BY <1>2 DEF Loading, w

LEMMA CardsAreOfActions ==
  \A u : CardsSound(Queue(u)) /\ CardsSound(RunDetail(u))
BY DEF CardsSound, Queue, RunDetail, Card

LEMMA AnsweredCards ==
  ASSUME NEW p, NEW v, ViewSound(v)
  PROVE  ViewSound([v EXCEPT !.asked = @ - 1, !.answers = @ \cup {Answered(p)}])
<1> DEFINE answer == Answered(p)
<1>1. CardsSound(answer.cards) BY CardsAreOfActions DEF Answered
<1> HIDE DEF answer
<1>2. ViewSound([v EXCEPT !.asked = @ - 1, !.answers = @ \cup {answer}])
  BY <1>1 DEF ViewSound, IsFunOn, ViewFields
<1> QED BY <1>2 DEF answer

\* What is rendered was on its way
LEMMA RenderedSound ==
  ASSUME NEW v, ViewSound(v), NEW answer \in v.answers, NEW cards \in {answer.cards, {}}
  PROVE  ViewSound([v EXCEPT !.cards = cards, !.row = answer.row, !.loading = FALSE,
                             !.busy = {}, !.answers = @ \ {answer}])
BY DEF ViewSound, CardsSound, IsFunOn, ViewFields

\* One view changes
LEMMA OneViewSound ==
  ASSUME PageSound, NEW p \in Kinds, NEW v, ViewSound(v)
  PROVE  LET w == [views EXCEPT ![p] = v] IN IsFunOn(w, Kinds) /\ \A k \in Kinds : ViewSound(w[k])
BY DEF PageSound, IsFunOn

LEMMA PageStays ==
  ASSUME PageSound, UNCHANGED seat, IsFunOn(views', Kinds), \A k \in Kinds : ViewSound(views'[k])
  PROVE  PageSound'
<1>1. \A k \in Kinds : ViewSound(views[k])' BY DEF ViewSound, CardsSound
<1> QED BY <1>1 DEF PageSound

---------------------------------------------------------------------------
(***************************************************************************)
(* What the page does to the requests.                                     *)
(***************************************************************************)
LEMMA DetachedSound ==
  ASSUME CallsSound, NEW kinds
  PROVE  RequestsSound(Detached(kinds))
<1>1. ASSUME NEW q, CallSound(q), SnapshotSound(q)
      PROVE  CallSound([q EXCEPT !.attached = FALSE]) /\ SnapshotSound([q EXCEPT !.attached = FALSE])
  BY <1>1 DEF CallSound, SnapshotSound, IsFunOn, CallFields
<1>2. \A c \in Calls : CallSound(calls[c]) /\ SnapshotSound(calls[c]) BY DEF CallsSound, RequestsSound
<1>3. \A c \in Calls : Detached(kinds)[c] = IF calls[c].from \in kinds THEN [calls[c] EXCEPT !.attached = FALSE] ELSE calls[c]
  BY DEF Detached
<1>4. IsFunOn(Detached(kinds), Calls) BY DEF Detached, IsFunOn
<1>5. ASSUME NEW c \in Calls PROVE CallSound(Detached(kinds)[c]) /\ SnapshotSound(Detached(kinds)[c])
  <2>1. CallSound(calls[c]) /\ SnapshotSound(calls[c]) BY <1>2
  <2>2. CASE calls[c].from \in kinds
    <3>1. Detached(kinds)[c] = [calls[c] EXCEPT !.attached = FALSE] BY <2>2, <1>3
    <3> QED BY <2>1, <3>1, <1>1
  <2>3. CASE calls[c].from \notin kinds
    <3>1. Detached(kinds)[c] = calls[c] BY <2>3, <1>3
    <3> QED BY <2>1, <3>1
  <2> QED BY <2>2, <2>3
<1> QED BY <1>4, <1>5 DEF RequestsSound

LEMMA FinishSound ==
  ASSUME NEW others, RequestsSound(others), NEW c \in Calls
  PROVE  RequestsSound(Finish(c, others))
<1>1. SnapshotSound(Idle) BY DEF SnapshotSound, Idle
<1>2. /\ IsFunOn(Finish(c, others), Calls)
      /\ \A d \in Calls : Finish(c, others)[d] = IF d = c THEN Idle ELSE others[d]
  BY DEF Finish, RequestsSound, IsFunOn
<1> QED BY <1>1, <1>2, IdleSound DEF RequestsSound

LEMMA RequestsStay ==
  ASSUME NEW f, RequestsSound(f), calls' = f, UNCHANGED actions
  PROVE  CallsSound'
<1>1. \A c \in Calls : CallSound(calls[c])' /\ SnapshotSound(calls[c])'
  BY DEF RequestsSound, CallSound, SnapshotSound
<1>2. IsFunOn(calls', Calls) BY DEF RequestsSound
<1> QED BY <1>1, <1>2 DEF CallsSound, RequestsSound

---------------------------------------------------------------------------
(***************************************************************************)
(* The steps of the page, none of which writes a record.                   *)
(***************************************************************************)
PageKeeps == CallsSound' /\ PageSound' /\ UNCHANGED <<actions, approvals, reservations>>

\* Two views given by a record, or both views changed
LEMMA TwoViews ==
  ASSUME NEW l, NEW d, ViewSound(l), ViewSound(d)
  PROVE  LET w == [list |-> l, dialog |-> d] IN IsFunOn(w, Kinds) /\ \A k \in Kinds : ViewSound(w[k])
BY DEF IsFunOn, Kinds

LEMMA OpenPageKeeps == ASSUME CallsSound, PageSound, OpenPage PROVE PageKeeps
<1> DEFINE l == Loading(views["list"])
           b == Blanked(views["dialog"])
           d == [b EXCEPT !.form = FALSE]
<1>1. ViewSound(views["list"]) /\ ViewSound(views["dialog"]) BY DEF PageSound, Kinds
<1>2. ViewSound(l) BY <1>1, LoadingSound
<1>3. ViewSound(b) BY <1>1, BlankedSound
<1> HIDE DEF l, b
<1>4. ViewSound(d) BY <1>3, FieldsSound
<1> HIDE DEF d
<1>5. views' = [views EXCEPT !["list"] = l, !["dialog"] = d] BY DEF OpenPage, l, d, b
<1>6. IsFunOn(views', Kinds) /\ \A k \in Kinds : ViewSound(views'[k])
  BY <1>2, <1>4, <1>5 DEF PageSound, IsFunOn, Kinds
<1>7. UNCHANGED <<actions, approvals, reservations, seat>> /\ calls' = Detached(Kinds) BY DEF OpenPage, records
<1>8. PageSound' BY <1>6, <1>7, PageStays
<1>9. CallsSound' BY <1>7, DetachedSound, RequestsStay
<1> QED BY <1>7, <1>8, <1>9 DEF PageKeeps

LEMMA ShowDetailKeeps == ASSUME CallsSound, PageSound, ShowDetail PROVE PageKeeps
<1> DEFINE v == Asking(views["dialog"])
<1>1. "dialog" \in Kinds /\ ViewSound(v) BY AskingSound DEF PageSound, Kinds
<1>2. views' = [views EXCEPT !["dialog"] = v] BY DEF ShowDetail
<1>3. UNCHANGED <<actions, approvals, reservations, calls, seat>> BY DEF ShowDetail, governance
<1> HIDE DEF v
<1>4. PageSound' BY <1>1, <1>2, <1>3, OneViewSound, PageStays
<1>5. CallsSound' BY <1>3, RequestsStay DEF CallsSound
<1> QED BY <1>3, <1>4, <1>5 DEF PageKeeps

LEMMA ServeReadKeeps == ASSUME CallsSound, PageSound, NEW p \in Kinds, ServeRead(p) PROVE PageKeeps
<1> DEFINE v == [views[p] EXCEPT !.asked = @ - 1, !.answers = @ \cup {Answered(p)}]
<1>1. ViewSound(v) BY AnsweredCards DEF PageSound
<1>2. views' = [views EXCEPT ![p] = v] BY DEF ServeRead, PageSound, IsFunOn
<1>3. UNCHANGED <<actions, approvals, reservations, calls, seat>> BY DEF ServeRead, governance
<1> HIDE DEF v
<1>4. PageSound' BY <1>1, <1>2, <1>3, OneViewSound, PageStays
<1>5. CallsSound' BY <1>3, RequestsStay DEF CallsSound
<1> QED BY <1>3, <1>4, <1>5 DEF PageKeeps

LEMMA RenderKeeps ==
  ASSUME CallsSound, PageSound, NEW p \in Kinds, NEW answer \in views[p].answers,
         NEW cards \in {answer.cards, {}}, Render(p, answer, cards)
  PROVE  PageKeeps
<1> DEFINE v == [views[p] EXCEPT !.cards = cards, !.row = answer.row, !.loading = FALSE,
                                 !.busy = {}, !.answers = @ \ {answer}]
<1>1. ViewSound(v) BY RenderedSound DEF PageSound
<1>2. views' = [views EXCEPT ![p] = v] BY DEF Render
<1>3. UNCHANGED <<actions, approvals, reservations, seat>> /\ calls' = Detached({p}) BY DEF Render, records
<1> HIDE DEF v
<1>4. PageSound' BY <1>1, <1>2, <1>3, OneViewSound, PageStays
<1>5. CallsSound' BY <1>3, DetachedSound, RequestsStay
<1> QED BY <1>3, <1>4, <1>5 DEF PageKeeps

LEMMA ReadFailsKeeps == ASSUME CallsSound, PageSound, NEW p \in Kinds, ReadFails(p) PROVE PageKeeps
<1> DEFINE b == IF p = "list" THEN Blanked(views[p]) ELSE views[p]
           a == [b EXCEPT !.asked = @ - 1]
           v == [b EXCEPT !.asked = @ - 1, !.loading = FALSE]
           f == IF p = "list" THEN Detached({p}) ELSE calls
<1>1. ViewSound(b) BY BlankedSound DEF PageSound
<1> HIDE DEF b
<1>2. ViewSound(v) BY <1>1 DEF ViewSound, CardsSound, IsFunOn, ViewFields
<1>3. views' = [views EXCEPT ![p] = v] BY DEF ReadFails, b
<1>4. UNCHANGED <<actions, approvals, reservations, seat>> /\ calls' = f BY DEF ReadFails, records
<1> HIDE DEF v
<1>5. PageSound' BY <1>2, <1>3, <1>4, OneViewSound, PageStays
<1>6. RequestsSound(f) BY DetachedSound DEF CallsSound
<1> HIDE DEF f
<1>7. CallsSound' BY <1>4, <1>6, RequestsStay
<1> QED BY <1>4, <1>5, <1>7 DEF PageKeeps

LEMMA PressKeeps ==
  ASSUME CallsSound, PageSound, NEW c \in Calls, NEW p \in Kinds, NEW b \in CardButtons(p) \cup RunButtons(p),
         Press(c, p, b)
  PROVE  PageKeeps
<1> DEFINE v == [views[p] EXCEPT !.busy = @ \cup {b}]
           sent == Sent(seat, b[2], b[1], b[3], Shown(p, b[1]), p)
           q == [sent EXCEPT !.version = views[p].row.revision]
<1>1. \/ b[2] = "run"
      \/ b[1] \in Actions /\ (b[2] = "decide" => b[3] \in Decisions)
  <2>1. CASE b \in RunButtons(p) BY <2>1 DEF RunButtons
  <2>2. CASE b \in CardButtons(p)
    <3>1. PICK card \in views[p].cards : \E op : \E arg \in Args(op) : b = <<card.action, op, arg>>
      BY <2>2 DEF CardButtons
    <3>2. card.action \in Actions BY DEF PageSound, ViewSound, CardsSound
    <3> QED BY <3>1, <3>2 DEF Args
  <2> QED BY <2>1, <2>2
<1>2. /\ IsFunOn(sent, CallFields)
      /\ sent.user = seat /\ sent.op = b[2] /\ sent.action = b[1] /\ sent.arg = b[3] /\ sent.phase = "sent"
  BY DEF Sent, IsFunOn, CallFields
<1> HIDE DEF sent
<1>3. CallSound(q) /\ SnapshotSound(q)
  <2>1. seat \in Users BY DEF PageSound
  <2>2. /\ IsFunOn(q, CallFields)
        /\ q.user = seat /\ q.op = b[2] /\ q.action = b[1] /\ q.arg = b[3] /\ q.phase = "sent"
    BY <1>2 DEF IsFunOn, CallFields
  <2> HIDE DEF q
  <2> QED BY <1>1, <2>1, <2>2 DEF CallSound, SnapshotSound
<1>4. calls' = [calls EXCEPT ![c] = q] /\ UNCHANGED <<actions, approvals, reservations, seat>>
  BY DEF Press, records, sent
<1> HIDE DEF q
<1>5. CallsSound' BY <1>3, <1>4, OneCallSound
<1>6. ViewSound(v) BY FieldsSound DEF PageSound
<1>7. views' = [views EXCEPT ![p] = v] BY DEF Press, PageSound, IsFunOn
<1> HIDE DEF v
<1>8. PageSound' BY <1>4, <1>6, <1>7, OneViewSound, PageStays
<1> QED BY <1>4, <1>5, <1>8 DEF PageKeeps

LEMMA ServeRunKeeps == ASSUME CallsSound, PageSound, NEW c \in Calls, ServeRun(c) PROVE PageKeeps
<1> DEFINE ok == RunAfter(calls[c].arg, calls[c].version) # {}
           q == [calls[c] EXCEPT !.phase = "answered", !.ok = ok, !.content = run']
<1>1. calls' = [calls EXCEPT ![c] = q] /\ UNCHANGED <<actions, approvals, reservations, seat, views>>
  BY DEF ServeRun, records
<1> HIDE DEF ok
<1>2. CallSound(calls[c]) BY DEF CallsSound, RequestsSound
<1>3. CallSound(q) /\ SnapshotSound(q)
  BY <1>2 DEF CallSound, SnapshotSound, IsFunOn, CallFields
<1> HIDE DEF q
<1>4. CallsSound' BY <1>1, <1>3, OneCallSound
<1>5. PageSound' BY <1>1, PageStays DEF PageSound
<1> QED BY <1>1, <1>4, <1>5 DEF PageKeeps

\* The views after each kind of answer
LEMMA AfterFailureSound ==
  ASSUME PageSound, NEW c
  PROVE  IsFunOn(AfterFailure(c), Kinds) /\ \A k \in Kinds : ViewSound(AfterFailure(c)[k])
<1> DEFINE x == calls[c].from
           S == views[x].busy \ {Button(c)}
           w == [views EXCEPT ![x].busy = S]
<1>1. AfterFailure(c) = IF calls[c].attached THEN w ELSE views BY DEF AfterFailure
<1> HIDE DEF x, S
<1>2. IsFunOn(w, Kinds) /\ \A k \in Kinds : w[k] = IF k = x THEN [views[k] EXCEPT !.busy = S] ELSE views[k]
  BY DEF PageSound, IsFunOn
<1>3. \A k \in Kinds : ViewSound(views[k]) /\ ViewSound([views[k] EXCEPT !.busy = S])
  BY FieldsSound DEF PageSound
<1> HIDE DEF w
<1>4. \A k \in Kinds : ViewSound(w[k]) BY <1>2, <1>3
<1> QED BY <1>1, <1>2, <1>3, <1>4 DEF PageSound

LEMMA AfterOptionsSound ==
  ASSUME PageSound, NEW c
  PROVE  IsFunOn(AfterOptions(c), Kinds) /\ \A k \in Kinds : ViewSound(AfterOptions(c)[k])
<1> DEFINE v == views["dialog"]
           S == IF calls[c].attached THEN v.busy \ {Button(c)} ELSE v.busy
           f == [v EXCEPT !.form = TRUE]
           r == [f EXCEPT !.busy = S]
           w == [views EXCEPT !["dialog"] = r]
<1>1. "dialog" \in Kinds /\ ViewSound(v) /\ IsFunOn(views, Kinds) BY DEF PageSound, Kinds
<1>2. f.busy = v.busy BY <1>1 DEF ViewSound, IsFunOn, ViewFields
<1>3. AfterOptions(c) = w
  BY <1>1, <1>2 DEF AfterOptions, IsFunOn
<1> HIDE DEF S, v
<1>4. ViewSound(f) BY <1>1, FieldsSound
<1> HIDE DEF f
<1>5. ViewSound(r) BY <1>4, FieldsSound
<1> HIDE DEF r
<1>6. IsFunOn(w, Kinds) /\ \A k \in Kinds : ViewSound(w[k]) BY <1>1, <1>5, OneViewSound
<1> QED BY <1>3, <1>6

LEMMA AfterSuccessSound ==
  ASSUME PageSound, NEW c
  PROVE  IsFunOn(AfterSuccess(c), Kinds) /\ \A k \in Kinds : ViewSound(AfterSuccess(c)[k])
<1> DEFINE v == views["dialog"]
           b == Blanked(v)
           S == v.busy \ {Button(c)}
           row == [v EXCEPT !.row = calls[c].content]
           left == CASE Closes(c) -> [b EXCEPT !.form = FALSE]
                     [] calls[c].arg = "answer" /\ calls[c].attached -> [v EXCEPT !.row = calls[c].content, !.busy = S]
                     [] OTHER -> v
           l == Loading(views["list"])
           d == IF Reopens(c) THEN Reread(left) ELSE left
<1>1. AfterSuccess(c) = [list |-> l, dialog |-> d] BY DEF AfterSuccess
<1>2. ViewSound(views["list"]) /\ ViewSound(v) BY DEF PageSound, Kinds
<1>3. ViewSound(l) BY <1>2, LoadingSound
<1>4. ViewSound(b) BY <1>2, BlankedSound
<1> HIDE DEF b, S, v, l
<1>5. ViewSound([b EXCEPT !.form = FALSE]) BY <1>4, FieldsSound
<1>6. ViewSound([v EXCEPT !.row = calls[c].content, !.busy = S])
  BY <1>2 DEF ViewSound, CardsSound, IsFunOn, ViewFields
<1>7. left = [b EXCEPT !.form = FALSE] \/ left = [v EXCEPT !.row = calls[c].content, !.busy = S] \/ left = v
  <2>1. CASE Closes(c) BY <2>1
  <2>2. CASE ~Closes(c) BY <2>2
  <2> QED BY <2>1, <2>2
<1> HIDE DEF left
<1>8. ViewSound(left) BY <1>2, <1>5, <1>6, <1>7
<1>9. ViewSound(d) BY <1>8, AskingSound DEF Reread
<1> HIDE DEF d
<1> QED BY <1>1, <1>3, <1>9, TwoViews

LEMMA ViewsAfter ==
  ASSUME PageSound, NEW w, IsFunOn(w, Kinds) /\ \A k \in Kinds : ViewSound(w[k]), views' = w, UNCHANGED seat
  PROVE  PageSound'
BY PageStays

LEMMA ReceiveKeeps == ASSUME CallsSound, PageSound, NEW c \in Calls, Receive(c) PROVE PageKeeps
<1> DEFINE others == Detached(IF Closes(c) THEN Kinds ELSE {"list"})
<1>1. UNCHANGED <<actions, approvals, reservations, seat>> BY DEF Receive, records
<1>2. RequestsSound(others) BY DetachedSound
<1>3. RequestsSound(Finish(c, others)) /\ RequestsSound(Finish(c, calls)) BY <1>2, FinishSound DEF CallsSound
<1>4. \/ views' = AfterSuccess(c) /\ calls' = Finish(c, others)
      \/ views' = AfterOptions(c) /\ calls' = Finish(c, calls)
      \/ views' = AfterFailure(c) /\ calls' = Finish(c, calls)
  BY DEF Receive
<1> HIDE DEF others
<1>5. CallsSound' BY <1>1, <1>3, <1>4, RequestsStay
<1>6. PageSound' BY <1>1, <1>4, AfterSuccessSound, AfterOptionsSound, AfterFailureSound, ViewsAfter
<1> QED BY <1>1, <1>5, <1>6 DEF PageKeeps

LEMMA LostKeeps == ASSUME CallsSound, PageSound, NEW c \in Calls, Lost(c) PROVE PageKeeps
<1>1. UNCHANGED <<actions, approvals, reservations, seat>> /\ views' = AfterFailure(c) /\ calls' = Finish(c, calls)
  BY DEF Lost, records
<1>2. CallsSound' BY <1>1, FinishSound, RequestsStay DEF CallsSound
<1>3. PageSound' BY <1>1, AfterFailureSound, ViewsAfter
<1> QED BY <1>1, <1>2, <1>3 DEF PageKeeps

LEMMA PageNextKeeps == ASSUME CallsSound, PageSound, PageNext PROVE PageKeeps
<1>1. CASE OpenPage BY <1>1, OpenPageKeeps
<1>2. CASE ShowDetail BY <1>2, ShowDetailKeeps
<1>3. ASSUME NEW p \in Kinds, ServeRead(p) PROVE PageKeeps BY <1>3, ServeReadKeeps
<1>4. ASSUME NEW p \in Kinds, ReadFails(p) PROVE PageKeeps BY <1>4, ReadFailsKeeps
<1>5. ASSUME NEW p \in Kinds, NEW answer \in views[p].answers, Render(p, answer, answer.cards) PROVE PageKeeps
  BY <1>5, RenderKeeps
<1>6. ASSUME NEW c \in Calls, NEW p \in Kinds, NEW b \in CardButtons(p) \cup RunButtons(p), Press(c, p, b)
      PROVE  PageKeeps
  BY <1>6, PressKeeps
<1>7. ASSUME NEW c \in Calls, ServeRun(c) PROVE PageKeeps BY <1>7, ServeRunKeeps
<1>8. ASSUME NEW c \in Calls, Receive(c) PROVE PageKeeps BY <1>8, ReceiveKeeps
<1>9. ASSUME NEW c \in Calls, Lost(c) PROVE PageKeeps BY <1>9, LostKeeps
<1>10. ASSUME NEW answer \in views["list"].answers, RenderRuns(answer) PROVE PageKeeps
  BY <1>10, RenderKeeps DEF RenderRuns, Kinds
<1> QED BY <1>1, <1>2, <1>3, <1>4, <1>5, <1>6, <1>7, <1>8, <1>9, <1>10 DEF PageNext

---------------------------------------------------------------------------
(***************************************************************************)
(* The first state.                                                        *)
(***************************************************************************)
LEMMA OneElement ==
  ASSUME NEW T, NEW e \in T
  PROVE  <<e>> \in Seq(T) /\ DOMAIN <<e>> = {1} /\ <<e>>[1] = e
OBVIOUS

LEMMA ApproverIs ==
  ASSUME NEW a \in Actions
  PROVE  Approver(a) \in Users /\ (P2P(a) <=> Approver(a) # Initiator)
<1>1. CASE P2P(a)
  <2>1. \E u \in Users : u # Initiator BY <1>1, GovernanceAssumption DEF P2P
  <2>2. Approver(a) = CHOOSE u \in Users : u # Initiator BY <1>1 DEF Approver
  <2> QED BY <1>1, <2>1, <2>2
<1>2. CASE ~P2P(a)
  BY <1>2, GovernanceAssumption DEF Approver
<1> QED BY <1>1, <1>2

LEMMA InitRecords ==
  ASSUME NEW stage \in [Actions -> Stages], GovernanceInit(stage)
  PROVE  RecordsSound
<1>1. /\ IsFunOn(actions, Actions) /\ IsFunOn(approvals, Actions) /\ IsFunOn(reservations, Actions)
  BY DEF GovernanceInit, IsFunOn
<1>2. ASSUME NEW a \in Actions PROVE ActionSound(a) /\ VerdictSound(a) /\ DutySound(a)
  <2> DEFINE e == [actor |-> Approver(a), decision |-> "ALLOW"]
             T == [actor : Users, decision : Decisions]
  <2>1. stage[a] \in Stages OBVIOUS
  <2>2. actions[a] = Stored(a, stage[a]) BY DEF GovernanceInit
  <2>3. /\ IsFunOn(actions[a], {"state", "version", "content"})
        /\ actions[a].state = IF stage[a] = "absent" THEN "NONE" ELSE IF stage[a] = "awaiting" THEN "AWAITING_APPROVAL" ELSE "APPROVED"
        /\ actions[a].version = IF stage[a] = "absent" THEN 0 ELSE IF stage[a] = "awaiting" THEN 2 ELSE 3
    BY <2>2 DEF Stored, Absent, IsFunOn
  <2>4. ActionSound(a) BY <2>3 DEF ActionSound
  <2>5. e \in T /\ e.actor = Approver(a) /\ e.decision = "ALLOW" BY ApproverIs DEF Decisions
  <2>6. approvals[a] = IF stage[a] \in {"absent", "awaiting"} THEN <<>> ELSE <<e>> BY DEF GovernanceInit
  <2>7. reservations[a] = IF stage[a] # "uncertain" THEN Unreserved
                          ELSE [by |-> Approver(a), status |-> "RECONCILIATION_REQUIRED"]
    BY DEF GovernanceInit
  <2>8. IsFunOn(reservations[a], {"by", "status"}) BY <2>7 DEF Unreserved, IsFunOn
  <2> HIDE DEF e, T
  <2>9. CASE stage[a] \in {"absent", "awaiting"}
    <3>1. approvals[a] = <<>> /\ DOMAIN approvals[a] = {} BY <2>6, <2>9
    <3>2. approvals[a] \in Seq(T) BY <3>1
    <3>3. Verdicts(a) = {} /\ Allows(a) = {} BY <3>1 DEF Verdicts, Allows
    <3>4. actions[a].state \in {"NONE", "AWAITING_APPROVAL"} BY <2>3, <2>9
    <3>5. VerdictSound(a) BY <3>1, <3>2, <3>3, <3>4 DEF VerdictSound, T
    <3>6. reservations[a] = Unreserved BY <2>7, <2>9
    <3> QED BY <2>4, <2>8, <3>1, <3>5, <3>6 DEF DutySound
  <2>10. CASE stage[a] \notin {"absent", "awaiting"}
    <3>1. approvals[a] = <<e>> BY <2>6, <2>10
    <3>2. approvals[a] \in Seq(T) /\ DOMAIN approvals[a] = {1} /\ approvals[a][1] = e BY <2>5, <3>1, OneElement
    <3>3. Verdicts(a) = {1} /\ Allows(a) = {1} BY <2>5, <3>2 DEF Verdicts, Allows
    <3>4. actions[a].state = "APPROVED" BY <2>3, <2>10
    <3>5. VerdictSound(a) BY <2>5, <3>2, <3>3, <3>4 DEF VerdictSound, T
    <3>6. Allowing(a) = Approver(a) BY <2>5, <3>2, <3>3, <3>5, OneAllow
    <3>7. \A i \in DOMAIN approvals[a] : P2P(a) <=> approvals[a][i].actor # Initiator BY <2>5, <3>2, ApproverIs
    <3>8. reservations[a] # Unreserved => reservations[a].by = Approver(a) BY <2>7
    <3> QED BY <2>4, <2>8, <3>5, <3>6, <3>7, <3>8, ApproverIs DEF DutySound
  <2> QED BY <2>9, <2>10
<1>3. KeysAreOwned
  <2>1. \A a \in Actions : actions[a] = Stored(a, stage[a]) BY DEF GovernanceInit
  <2>2. ASSUME NEW a \in Actions, actions[a].state # "NONE" PROVE actions[a].content.key = KeyOf[a]
    <3>1. actions[a] = Stored(a, stage[a]) BY <2>1
    <3>2. stage[a] # "absent" BY <2>2, <3>1 DEF Stored, Absent
    <3>3. Stored(a, stage[a]).content = [payload |-> [qty |-> "2"], refs |-> {"e1", "e2"}, key |-> KeyOf[a]]
      BY <3>2 DEF Stored
    <3> QED BY <3>1, <3>3
  <2> QED BY <2>2, GovernanceAssumption DEF KeysAreOwned
<1> QED BY <1>1, <1>2, <1>3 DEF RecordsSound

LEMMA InitPage ==
  ASSUME RunsInit
  PROVE  CallsSound /\ PageSound
<1>1. calls = [c \in Calls |-> Idle] BY DEF RunsInit, GovernanceInit
<1>2. SnapshotSound(Idle) BY DEF SnapshotSound, Idle
<1>3. CallsSound BY <1>1, <1>2, IdleSound DEF CallsSound, RequestsSound, IsFunOn
<1>4. seat \in Users /\ views = [p \in Kinds |-> Empty] BY DEF RunsInit, PageInit
<1>5. ViewSound(Empty) BY DEF ViewSound, CardsSound, IsFunOn, ViewFields, Empty
<1>6. PageSound BY <1>4, <1>5 DEF PageSound, IsFunOn
<1> QED BY <1>3, <1>6

LEMMA GovernanceStarts == ASSUME RunsInit PROVE GovernanceInv
<1>1. PICK stage \in [Actions -> Stages] : GovernanceInit(stage) BY DEF RunsInit
<1> QED BY <1>1, InitRecords, InitPage DEF GovernanceInv

LEMMA GovernanceKeeps == ASSUME GovernanceInv, [RunsNext]_<<governance, page>> PROVE GovernanceInv'
<1>1. CASE PageNext
  <2>1. PageKeeps BY <1>1, PageNextKeeps DEF GovernanceInv
  <2>2. RecordsSound' BY <2>1, NothingWritten DEF GovernanceInv, PageKeeps
  <2> QED BY <2>1, <2>2 DEF GovernanceInv, PageKeeps
<1>2. CASE ServerNext /\ UNCHANGED page
  <2>1. RecordsSound' /\ CallsSound' BY <1>2, ServerKeeps DEF GovernanceInv
  <2>2. PageSound' BY <1>2, PageStays DEF GovernanceInv, PageSound, page
  <2> QED BY <2>1, <2>2 DEF GovernanceInv
<1>3. CASE UNCHANGED <<governance, page>>
  <2>1. UNCHANGED <<actions, approvals, reservations, calls, seat, views>> BY <1>3 DEF governance, page
  <2>2. RecordsSound' /\ CallsSound' BY <2>1, NothingWritten, CallsWait DEF GovernanceInv
  <2>3. PageSound' BY <2>1, PageStays DEF GovernanceInv, PageSound
  <2> QED BY <2>2, <2>3 DEF GovernanceInv
<1> QED BY <1>1, <1>2, <1>3 DEF RunsNext

---------------------------------------------------------------------------
\* GovernanceInv is an inductive invariant of the pages and the server: whatever is asked, in
\* whichever order, each action has one verdict at most, which its state follows
THEOREM GovernanceInvariant == RunsSpec => []GovernanceInv
<1>1. RunsInit => GovernanceInv BY GovernanceStarts
<1>2. GovernanceInv /\ [RunsNext]_<<governance, page>> => GovernanceInv' BY GovernanceKeeps
<1> QED BY <1>1, <1>2, PTL DEF RunsSpec

\* Two approvers, two clicks, a late request or a reused key leave one verdict per action, by the
\* person who may give it, which the state follows: decide_action, pre_execute_recheck and
\* evaluate_proposal, for any users, actions and number of requests
THEOREM OneVerdictStands == RunsSpec => []VerdictsStand
<1>1. GovernanceInv => VerdictsStand
  <2> SUFFICES ASSUME RecordsSound PROVE VerdictsStand BY DEF GovernanceInv
  <2>1. \A a \in Actions : VerdictSound(a) /\ DutySound(a) BY DEF RecordsSound
  <2>2. ASSUME NEW a \in Actions PROVE Cardinality(Verdicts(a)) <= 1
    <3>1. CASE Verdicts(a) = {}
      <4>1. Cardinality({}) = 0 BY FS_EmptySet
      <4> QED BY <3>1, <4>1
    <3>2. CASE Verdicts(a) # {}
      <4>1. PICK i \in Verdicts(a) : TRUE BY <3>2
      <4>2. Verdicts(a) = {i} BY <2>1, <4>1 DEF VerdictSound
      <4>3. Cardinality({i}) = 1 BY FS_Singleton
      <4> QED BY <4>2, <4>3
    <3> QED BY <3>1, <3>2
  <2>3. OneVerdict
    <3>1. ASSUME NEW a \in Actions, actions[a].state \in {"APPROVED", "EXECUTED"} PROVE Allowing(a) # Nobody
      <4>1. VerdictSound(a) BY <2>1
      <4>2. Allows(a) # {} BY <3>1, <4>1 DEF VerdictSound
      <4> QED BY <4>1, <4>2, AllowingIsUser
    <3>2. ASSUME NEW a \in Actions
          PROVE  /\ actions[a].state = "AWAITING_APPROVAL" => Verdicts(a) = {}
                 /\ actions[a].state = "DECLINED" <=> \E i \in DOMAIN approvals[a] : approvals[a][i].decision = "DECLINE"
      BY <2>1 DEF VerdictSound
    <3> QED BY <2>2, <3>1, <3>2 DEF OneVerdict
  <2>4. SeparateDuties
    BY <2>1 DEF SeparateDuties, DutySound
  <2> QED BY <2>3, <2>4 DEF VerdictsStand, RecordsSound
<1> QED BY <1>1, GovernanceInvariant, PTL

---------------------------------------------------------------------------
(***************************************************************************)
(* What the page shows against what the server has recorded.  A page is    *)
(* behind, never ahead: what it can show of an action or of the Run is     *)
(* what does not change any more once it is so.                            *)
(***************************************************************************)
Ended == {"EXECUTED", "DECLINED", "EXPIRED"}

\* The Run asks its initiator nothing once it is at its end; a P2P Run never does
RowFields == {"state", "p2p", "goal", "ready", "asks", "revision"}
RunSound ==
  /\ IsFunOn(run, RowFields)
  /\ Terminal(run) \/ run.state = "CREATED" \/ run.p2p => ~run.asks
  /\ run.p2p => run.state # "CREATED"
\* An execution under way is one of an approved action
OpenReserved(a) == reservations[a].status \in {"EXECUTING", "RECONCILIATION_REQUIRED"} => actions[a].state = "APPROVED"

\* A row and a card that the page shows or that are on their way to it
RowTrue(row) == (Terminal(row) => run.state = row.state) /\ (row.p2p => run.p2p)
CardTrue(card) ==
  /\ card.action \in Actions /\ actions[card.action].state # "NONE"
  /\ card.content = actions[card.action].content
  /\ card.state \in Ended => actions[card.action].state = card.state
  /\ card.state = "APPROVED" => Allows(card.action) # {}
ShownTrue(shown) == RowTrue(shown.row) /\ \A card \in shown.cards : CardTrue(card)
ViewTrue(v) ==
  /\ v.asked \in Nat
  /\ RowTrue(v.row) /\ \A card \in v.cards : CardTrue(card)
  /\ \A answer \in v.answers : ShownTrue(answer)

\* What a request on the Run brings back is a row of the Run; which button sent it
CallTrue(q) ==
  q.phase # "idle" =>
    /\ q.op = "run" /\ q.arg \in {"finalize", "stop"} => run.p2p
    /\ q.op = "run" /\ q.phase = "answered" => RowTrue(q.content)
    /\ q.op # "run" => q.arg \in Decisions \cup {NoText}
    /\ q.from \in Kinds /\ q.arg = "options" => q.from = "dialog"

\* Request c gives button b of view p back; what view p waits for will come
GivesBack(c, p, b) ==
  calls[c].phase # "idle" /\ calls[c].attached /\ calls[c].from = p /\ Button(c) = b
BusyWaits(p) == \A b \in views[p].busy : \E c \in Calls : GivesBack(c, p, b)
LoadingWaits(v) == v.loading => v.asked > 0 \/ v.answers # {}

PageInv ==
  /\ RunSound
  /\ \A a \in Actions : OpenReserved(a)
  /\ \A c \in Calls : CallTrue(calls[c])
  /\ \A p \in Kinds : ViewTrue(views[p]) /\ BusyWaits(p) /\ LoadingWaits(views[p])

---------------------------------------------------------------------------
(***************************************************************************)
(* The records and the Run only move on.                                   *)
(***************************************************************************)
ActionMovesOn(a) ==
  /\ actions[a].state # "NONE" => actions'[a].state # "NONE" /\ actions'[a].content = actions[a].content
  /\ actions[a].state \in Ended => actions'[a].state = actions[a].state
  /\ Allows(a) # {} => Allows(a)' # {}
RunMovesOn == run'.p2p = run.p2p /\ (Terminal(run) => run'.state = run.state)
MovesOn == RunMovesOn /\ \A a \in Actions : ActionMovesOn(a)

LEMMA RowsStayTrue == ASSUME RunMovesOn, NEW row, RowTrue(row) PROVE RowTrue(row)'
<1>1. Terminal(row) => Terminal(run) /\ run.state = row.state BY DEF RowTrue, Terminal
<1>2. Terminal(row)' = Terminal(row) BY DEF Terminal
<1> QED BY <1>1, <1>2 DEF RowTrue, RunMovesOn

LEMMA CardsStayTrue ==
  ASSUME \A a \in Actions : ActionMovesOn(a), NEW card, CardTrue(card)
  PROVE  CardTrue(card)'
<1>1. ActionMovesOn(card.action) BY DEF CardTrue
<1>2. (card.state \in Ended)' = (card.state \in Ended) BY DEF Ended
<1> QED BY <1>1, <1>2 DEF CardTrue, ActionMovesOn

LEMMA ViewsStayTrue == ASSUME MovesOn, NEW v, ViewTrue(v) PROVE ViewTrue(v)'
<1>1. RowTrue(v.row)' BY RowsStayTrue DEF MovesOn, ViewTrue
<1>2. \A card \in v.cards : CardTrue(card)' BY CardsStayTrue DEF MovesOn, ViewTrue
<1>3. \A answer \in v.answers : RowTrue(answer.row)' /\ \A card \in answer.cards : CardTrue(card)'
  BY RowsStayTrue, CardsStayTrue DEF MovesOn, ViewTrue, ShownTrue
<1> QED BY <1>1, <1>2, <1>3 DEF ViewTrue, ShownTrue

LEMMA CallsStayTrue == ASSUME RunMovesOn, NEW q, CallTrue(q) PROVE CallTrue(q)'
<1>1. RowTrue(q.content) => RowTrue(q.content)' BY RowsStayTrue
<1> QED BY <1>1 DEF CallTrue, RunMovesOn

\* A step that writes no record
LEMMA NoRecordMoves ==
  ASSUME UNCHANGED <<actions, approvals, reservations>>
  PROVE  /\ \A a \in Actions : ActionMovesOn(a)
         /\ \A a \in Actions : OpenReserved(a) => OpenReserved(a)'
<1>1. \A a \in Actions : Allows(a)' = Allows(a) BY SameApprovals
<1> QED BY <1>1 DEF ActionMovesOn, OpenReserved

LEMMA TransitionMovesOn ==
  ASSUME RecordsSound, NEW a \in Actions, NEW target, actions' = Moved(a, target),
         actions[a].state \notin Ended, target # "NONE",
         \A b \in Actions : Allows(b) # {} => Allows(b)' # {}
  PROVE  /\ \A b \in Actions : ActionMovesOn(b)
         /\ \A b \in Actions : b # a => actions'[b] = actions[b]
         /\ actions'[a].state = target
<1> DEFINE v == actions[a].version + 1
<1>1. IsFunOn(actions, Actions) /\ IsFunOn(actions[a], {"state", "version", "content"})
  BY DEF RecordsSound, ActionSound
<1>2. /\ actions'[a] = [actions[a] EXCEPT !.state = target, !.version = v]
      /\ \A b \in Actions : b # a => actions'[b] = actions[b]
  BY <1>1 DEF Moved, IsFunOn
<1> HIDE DEF v
<1>3. actions'[a].state = target /\ actions'[a].content = actions[a].content
  BY <1>1, <1>2 DEF IsFunOn
<1>4. ASSUME NEW b \in Actions PROVE ActionMovesOn(b)
  <2>1. CASE b = a BY <2>1, <1>3 DEF ActionMovesOn
  <2>2. CASE b # a BY <2>2, <1>2 DEF ActionMovesOn
  <2> QED BY <2>1, <2>2
<1> QED BY <1>2, <1>3, <1>4

\* The rows a step may leave: what is recorded moves on, and an open execution is of an
\* approved action
RecordsMoveOn == \A a \in Actions : ActionMovesOn(a) /\ OpenReserved(a)'

LEMMA EvaluateMovesOn ==
  ASSUME RecordsSound, CallsSound, \A a \in Actions : OpenReserved(a),
         NEW c \in Calls, NEW broken, EvaluateProposal(c, broken)
  PROVE  RecordsMoveOn
<1> DEFINE q == calls[c]
           outcome == PolicyOutcome(q.view, GateChecks(q.view, q.action, q.user, Nobody, broken))
           new == Proposed(outcome, q.content)
<1>1. q.phase = "open" /\ q.op = "propose" /\ Unclaimed(q.action, q.content.key)
  BY DEF EvaluateProposal, Handling
<1>2. q.action \in Actions BY <1>1 DEF CallsSound, RequestsSound, CallSound
<1>3. actions' = [actions EXCEPT ![q.action] = new] /\ UNCHANGED <<approvals, reservations>>
  BY DEF EvaluateProposal, Proposed
<1>4. actions[q.action].state = "NONE" BY <1>1 DEF Unclaimed
<1> HIDE DEF new
<1>5. \A b \in Actions : b # q.action => actions'[b] = actions[b] BY <1>3 DEF RecordsSound, IsFunOn
<1>6. \A b \in Actions : Allows(b)' = Allows(b) BY <1>3, SameApprovals
<1>7. \A b \in Actions : ActionMovesOn(b) BY <1>4, <1>5, <1>6 DEF ActionMovesOn, Ended
<1>8. \A b \in Actions : OpenReserved(b)' BY <1>3, <1>4, <1>5 DEF OpenReserved
<1> QED BY <1>7, <1>8 DEF RecordsMoveOn

LEMMA DecideMovesOn ==
  ASSUME RecordsSound, CallsSound, \A a \in Actions : OpenReserved(a),
         NEW c \in Calls, NEW broken, Decide(c, broken)
  PROVE  RecordsMoveOn
<1> DEFINE q == calls[c]
           a == q.action
<1>1. q.phase = "open" /\ q.op = "decide" /\ Decidable(c, broken) BY DEF Decide, Handling
<1>2. a \in Actions BY <1>1 DEF CallsSound, RequestsSound, CallSound
<1>3. actions[a].state = "AWAITING_APPROVAL" BY <1>1 DEF Decidable
<1>4. /\ approvals' = [approvals EXCEPT ![a] = Append(@, [actor |-> q.user, decision |-> q.arg])]
      /\ actions' = Moved(a, Target(q.arg)) \/ actions' = actions
      /\ UNCHANGED reservations
  BY DEF Decide
<1>5. Verdicts(a) = {} BY <1>2, <1>3 DEF RecordsSound, VerdictSound
<1>6. Allows(a) = {} BY <1>5 DEF Allows, Verdicts
<1>7. ASSUME NEW b \in Actions, Allows(b) # {} PROVE Allows(b)' # {}
  <2>1. b # a BY <1>6, <1>7
  <2>2. approvals'[b] = approvals[b] BY <2>1, <1>4 DEF RecordsSound, IsFunOn
  <2> QED BY <2>2, <1>7, SameApprovals
<1>8. CASE actions' = actions
  <2>1. \A b \in Actions : ActionMovesOn(b) BY <1>7, <1>8 DEF ActionMovesOn
  <2>2. \A b \in Actions : OpenReserved(b)' BY <1>4, <1>8 DEF OpenReserved
  <2> QED BY <2>1, <2>2 DEF RecordsMoveOn
<1>9. CASE actions' = Moved(a, Target(q.arg))
  <2>1. Target(q.arg) # "NONE" /\ actions[a].state \notin Ended BY <1>3 DEF Target, Ended
  <2>2. (\A b \in Actions : ActionMovesOn(b)) /\ \A b \in Actions : b # a => actions'[b] = actions[b]
    BY <1>2, <1>7, <1>9, <2>1, TransitionMovesOn
  <2>3. reservations'[a].status \notin {"EXECUTING", "RECONCILIATION_REQUIRED"}
    BY <1>2, <1>3, <1>4 DEF OpenReserved
  <2>4. \A b \in Actions : OpenReserved(b)' BY <1>4, <2>2, <2>3 DEF OpenReserved
  <2> QED BY <2>2, <2>4 DEF RecordsMoveOn
<1> QED BY <1>4, <1>8, <1>9

LEMMA ReserveMovesOn ==
  ASSUME RecordsSound, CallsSound, \A a \in Actions : OpenReserved(a),
         NEW c \in Calls, NEW broken, Reserve(c, broken)
  PROVE  RecordsMoveOn
<1> DEFINE a == calls[c].action
<1>1. UNCHANGED <<actions, approvals>> /\ Bound(c) BY DEF Reserve
<1>2. reservations' = [reservations EXCEPT ![a] = [by |-> calls[c].user, status |-> "EXECUTING"]] BY DEF Reserve
<1>3. actions[a].state = "APPROVED" BY <1>1 DEF Bound
<1>4. \A b \in Actions : b # a => reservations'[b] = reservations[b] BY <1>2 DEF RecordsSound, IsFunOn
<1>5. \A b \in Actions : OpenReserved(b)' BY <1>1, <1>3, <1>4 DEF OpenReserved
<1>6. \A b \in Actions : Allows(b)' = Allows(b) BY <1>1, SameApprovals
<1>7. \A b \in Actions : ActionMovesOn(b) BY <1>1, <1>6 DEF ActionMovesOn
<1> QED BY <1>5, <1>7 DEF RecordsMoveOn

LEMMA ExpireMovesOn ==
  ASSUME RecordsSound, CallsSound, \A a \in Actions : OpenReserved(a),
         NEW c \in Calls, NEW broken, Expire(c, broken)
  PROVE  RecordsMoveOn
<1> DEFINE a == calls[c].action
<1>1. calls[c].phase = "open" /\ calls[c].op = "execute" /\ Bound(c) /\ reservations[a] = Unreserved
  BY DEF Expire, Handling
<1>2. a \in Actions BY <1>1 DEF CallsSound, RequestsSound, CallSound
<1>3. UNCHANGED <<approvals, reservations>> /\ (actions' = Moved(a, "EXPIRED") \/ actions' = actions)
  BY DEF Expire
<1>4. \A b \in Actions : Allows(b)' = Allows(b) BY <1>3, SameApprovals
<1>5. CASE actions' = actions
  BY <1>3, <1>4, <1>5 DEF RecordsMoveOn, ActionMovesOn, OpenReserved
<1>6. CASE actions' = Moved(a, "EXPIRED")
  <2>1. actions[a].state \notin Ended BY <1>1 DEF Bound, Ended
  <2>2. (\A b \in Actions : ActionMovesOn(b)) /\ \A b \in Actions : b # a => actions'[b] = actions[b]
    BY <1>2, <1>4, <1>6, <2>1, TransitionMovesOn
  <2>3. reservations'[a].status = "none" BY <1>1, <1>3 DEF Unreserved
  <2>4. \A b \in Actions : OpenReserved(b)' BY <1>3, <2>2, <2>3 DEF OpenReserved
  <2> QED BY <2>2, <2>4 DEF RecordsMoveOn
<1> QED BY <1>3, <1>5, <1>6

LEMMA ClosingMovesOn ==
  ASSUME RecordsSound, \A a \in Actions : OpenReserved(a), NEW a \in Actions,
         reservations[a].status \in {"EXECUTING", "RECONCILIATION_REQUIRED"},
         NEW status \in {"SUCCEEDED", "FAILED", "RECONCILIATION_REQUIRED"}, Closing(a, status), UNCHANGED approvals
  PROVE  RecordsMoveOn
<1>1. actions[a].state = "APPROVED" BY DEF OpenReserved
<1>2. reservations' = [reservations EXCEPT ![a].status = status] BY DEF Closing
<1>3. DutySound(a) /\ IsFunOn(reservations, Actions) BY DEF RecordsSound
<1>4. reservations'[a].status = status /\ \A b \in Actions : b # a => reservations'[b] = reservations[b]
  BY <1>2, <1>3 DEF DutySound, IsFunOn
<1>5. \A b \in Actions : Allows(b)' = Allows(b) BY SameApprovals
<1>6. CASE actions' = actions /\ status = "RECONCILIATION_REQUIRED"
  BY <1>1, <1>4, <1>5, <1>6 DEF RecordsMoveOn, ActionMovesOn, OpenReserved
<1>7. ASSUME NEW target \in {"EXECUTED", "EXPIRED"}, actions' = Moved(a, target), status \in {"SUCCEEDED", "FAILED"}
      PROVE  RecordsMoveOn
  <2>1. actions[a].state \notin Ended BY <1>1 DEF Ended
  <2>2. (\A b \in Actions : ActionMovesOn(b)) /\ \A b \in Actions : b # a => actions'[b] = actions[b]
    BY <1>5, <1>7, <2>1, TransitionMovesOn
  <2>3. \A b \in Actions : OpenReserved(b)' BY <1>4, <1>7, <2>2 DEF OpenReserved
  <2> QED BY <2>2, <2>3 DEF RecordsMoveOn
<1>8. \/ actions' = Moved(a, "EXECUTED") /\ status = "SUCCEEDED"
      \/ actions' = Moved(a, "EXPIRED") /\ status = "FAILED"
      \/ actions' = actions /\ status = "RECONCILIATION_REQUIRED"
  BY DEF Closing
<1> QED BY <1>6, <1>7, <1>8

LEMMA ReconcileMovesOn ==
  ASSUME RecordsSound, CallsSound, \A a \in Actions : OpenReserved(a), NEW c \in Calls, Reconcile(c)
  PROVE  RecordsMoveOn
<1> DEFINE a == calls[c].action
           uncertain == reservations[a] = [by |-> calls[c].user, status |-> "RECONCILIATION_REQUIRED"]
<1>1. calls[c].phase = "open" /\ calls[c].op = "reconcile" /\ UNCHANGED approvals BY DEF Reconcile, Handling
<1>2. a \in Actions BY <1>1 DEF CallsSound, RequestsSound, CallSound
<1>3. CASE uncertain
  <2>1. PICK status \in {"SUCCEEDED", "FAILED"} : Closing(a, status) BY <1>3 DEF Reconcile
  <2>2. reservations[a].status = "RECONCILIATION_REQUIRED" BY <1>3
  <2> QED BY <1>1, <1>2, <2>1, <2>2, ClosingMovesOn
<1>4. CASE ~uncertain
  <2>1. UNCHANGED <<actions, approvals, reservations>> BY <1>1, <1>4 DEF Reconcile
  <2> QED BY <2>1, NoRecordMoves DEF RecordsMoveOn
<1> QED BY <1>3, <1>4

---------------------------------------------------------------------------
(***************************************************************************)
(* The server leaves a button its request, and a request its button.       *)
(***************************************************************************)
\* A request of the page that is still to come back, from the same button
CallKept(c) ==
  calls[c].phase # "idle" /\ calls[c].from \in Kinds =>
    /\ calls'[c].phase # "idle" /\ calls'[c].attached = calls[c].attached
    /\ calls'[c].from = calls[c].from /\ Button(c)' = Button(c)
CallsMoveOn == \A c \in Calls : CallKept(c) /\ CallTrue(calls'[c])

LEMMA OtherCallsMoveOn ==
  ASSUME CallsSound, \A d \in Calls : CallTrue(calls[d]), NEW c \in Calls, NEW r, calls' = [calls EXCEPT ![c] = r],
         CallTrue(r), CallKept(c)
  PROVE  CallsMoveOn
<1>1. calls'[c] = r /\ \A d \in Calls : d # c => calls'[d] = calls[d]
  BY DEF CallsSound, RequestsSound, IsFunOn
<1>2. ASSUME NEW d \in Calls PROVE CallKept(d) /\ CallTrue(calls'[d])
  <2>1. CASE d = c BY <2>1, <1>1
  <2>2. CASE d # c
    <3>1. calls'[d] = calls[d] BY <2>2, <1>1
    <3> QED BY <3>1 DEF CallKept, Button
  <2> QED BY <2>1, <2>2
<1> QED BY <1>2 DEF CallsMoveOn

LEMMA IdleTrue == CallTrue(Idle)
BY DEF CallTrue, Idle

LEMMA AnswerMovesOn ==
  ASSUME CallsSound, \A d \in Calls : CallTrue(calls[d]), NEW c \in Calls, calls[c].phase = "open", NEW ok, Answer(c, ok)
  PROVE  CallsMoveOn
<1> DEFINE q == calls[c]
           s == [q EXCEPT !.phase = "answered", !.ok = ok, !.view = {}, !.version = 0]
           r == IF q.from = "api" THEN Idle ELSE s
<1>1. calls' = [calls EXCEPT ![c] = r] BY DEF Answer
<1>2. CallSound(q) /\ SnapshotSound(q) /\ CallTrue(q) BY DEF CallsSound, RequestsSound
<1>3. q.op # "run" BY <1>2 DEF SnapshotSound
<1>4. /\ s.phase = "answered" /\ s.op = q.op /\ s.arg = q.arg /\ s.from = q.from
      /\ s.attached = q.attached /\ s.action = q.action
  BY <1>2 DEF CallSound, IsFunOn, CallFields
<1> HIDE DEF s
<1>5. CallTrue(r)
  <2>1. CallTrue(s) BY <1>2, <1>3, <1>4 DEF CallTrue
  <2> QED BY <2>1, IdleTrue
<1>6. CallKept(c)
  <2>1. CASE q.from = "api" BY <2>1 DEF CallKept, Kinds
  <2>2. CASE q.from # "api"
    <3>1. calls'[c] = s BY <2>2, <1>1 DEF CallsSound, RequestsSound, IsFunOn
    <3> QED BY <3>1, <1>4 DEF CallKept, Button
  <2> QED BY <2>1, <2>2
<1> HIDE DEF r
<1> QED BY <1>1, <1>5, <1>6, OtherCallsMoveOn

LEMMA OpenMovesOn ==
  ASSUME CallsSound, \A d \in Calls : CallTrue(calls[d]), NEW c \in Calls, Open(c)
  PROVE  CallsMoveOn
<1> DEFINE q == calls[c]
           v == actions[q.action].version
           r == [q EXCEPT !.phase = "open", !.view = held, !.version = v]
<1>1. q.phase = "sent" /\ q.op # "run" BY DEF Open
<1>2. calls' = [calls EXCEPT ![c] = r]
  <2>1. calls' = [calls EXCEPT ![c].phase = "open", ![c].view = held, ![c].version = v] BY DEF Open
  <2>2. IsFunOn(calls, Calls) BY DEF CallsSound, RequestsSound
  <2> QED BY <2>1, <2>2 DEF IsFunOn
<1>3. CallSound(q) /\ CallTrue(q) BY DEF CallsSound, RequestsSound
<1> HIDE DEF v
<1>4. /\ r.phase = "open" /\ r.op = q.op /\ r.arg = q.arg /\ r.from = q.from
      /\ r.attached = q.attached /\ r.action = q.action
  BY <1>3 DEF CallSound, IsFunOn, CallFields
<1> HIDE DEF r
<1>5. CallTrue(r) BY <1>1, <1>3, <1>4 DEF CallTrue
<1>6. calls'[c] = r BY <1>2 DEF CallsSound, RequestsSound, IsFunOn
<1>7. CallKept(c) BY <1>4, <1>6 DEF CallKept, Button
<1> QED BY <1>2, <1>5, <1>7, OtherCallsMoveOn

LEMMA ClientMovesOn ==
  ASSUME CallsSound, \A d \in Calls : CallTrue(calls[d]), NEW c \in Calls, Client(c)
  PROVE  CallsMoveOn
<1>1. ASSUME NEW u, NEW op \in {"propose", "decide", "execute"}, NEW a, NEW arg \in Decisions \cup {NoText}, NEW content,
             ApiCall(c, u, op, a, arg, content)
      PROVE  CallsMoveOn
  <2> DEFINE r == Sent(u, op, a, arg, content, "api")
  <2>1. calls' = [calls EXCEPT ![c] = r] /\ calls[c].phase = "idle" BY <1>1 DEF ApiCall
  <2>2. r.op = op /\ r.arg = arg /\ r.from = "api" BY DEF Sent
  <2> HIDE DEF r
  <2>3. CallTrue(r) BY <2>2 DEF CallTrue, Kinds
  <2>4. CallKept(c) BY <2>1 DEF CallKept
  <2> QED BY <2>1, <2>3, <2>4, OtherCallsMoveOn
<1>2. CASE \E raw \in Proposals : ApiCall(c, Initiator, "propose", raw.action, NoText, Reviewed(raw))
  BY <1>1, <1>2
<1>3. CASE \E u \in Users, a \in Actions, op \in {"decide", "execute"} :
             \E arg \in Args(op), content \in {actions[a].content, Blank} : ApiCall(c, u, op, a, arg, content)
  <2>1. PICK u \in Users, a \in Actions, op \in {"decide", "execute"} :
             \E arg \in Args(op), content \in {actions[a].content, Blank} : ApiCall(c, u, op, a, arg, content)
    BY <1>3
  <2>2. PICK arg \in Args(op), content \in {actions[a].content, Blank} : ApiCall(c, u, op, a, arg, content) BY <2>1
  <2>3. arg \in Decisions \cup {NoText} BY DEF Args
  <2> QED BY <2>2, <2>3, <1>1
<1> QED BY <1>2, <1>3 DEF Client

LEMMA ServerMovesOn ==
  ASSUME RecordsSound, CallsSound, \A a \in Actions : OpenReserved(a), \A c \in Calls : CallTrue(calls[c]), ServerNext
  PROVE  RecordsMoveOn /\ CallsMoveOn
<1>1. UNCHANGED <<actions, approvals, reservations>> => RecordsMoveOn BY NoRecordMoves DEF RecordsMoveOn
<1>2. UNCHANGED calls => CallsMoveOn BY DEF CallsMoveOn, CallKept, Button
<1>3. ASSUME NEW c \in Calls, NEW broken \in Breaks,
             \/ EvaluateProposal(c, broken) \/ Decide(c, broken) \/ RefuseDecision(c, broken)
             \/ Reserve(c, broken) \/ Expire(c, broken)
      PROVE  RecordsMoveOn /\ CallsMoveOn
  <2>1. calls[c].phase = "open" /\ \E ok : Answer(c, ok)
    BY <1>3 DEF EvaluateProposal, Decide, RefuseDecision, Reserve, Expire, Refuse, Handling
  <2>2. CallsMoveOn BY <2>1, AnswerMovesOn
  <2>3. RefuseDecision(c, broken) => RecordsMoveOn BY <1>1 DEF RefuseDecision, Refuse
  <2>4. RecordsMoveOn BY <1>3, <2>3, EvaluateMovesOn, DecideMovesOn, ReserveMovesOn, ExpireMovesOn
  <2> QED BY <2>2, <2>4
<1>4. ASSUME NEW c \in Calls, RefuseProposal(c) \/ RefuseExecution(c) PROVE RecordsMoveOn /\ CallsMoveOn
  <2>1. UNCHANGED <<actions, approvals, reservations>> /\ calls[c].phase = "open" /\ \E ok : Answer(c, ok)
    BY <1>4 DEF RefuseProposal, RefuseExecution, Refuse, Handling
  <2> QED BY <1>1, <2>1, AnswerMovesOn
<1>5. ASSUME NEW c \in Calls, Reconcile(c) PROVE RecordsMoveOn /\ CallsMoveOn
  <2>1. calls[c].phase = "open" /\ \E ok : Answer(c, ok) BY <1>5 DEF Reconcile, Handling
  <2> QED BY <1>5, <2>1, AnswerMovesOn, ReconcileMovesOn
<1>6. ASSUME NEW c \in Calls, Open(c) PROVE RecordsMoveOn /\ CallsMoveOn
  <2>1. UNCHANGED <<actions, approvals, reservations>> BY <1>6 DEF Open
  <2> QED BY <1>1, <1>6, <2>1, OpenMovesOn
<1>7. ASSUME NEW c \in Calls, Client(c) PROVE RecordsMoveOn /\ CallsMoveOn
  <2>1. UNCHANGED <<actions, approvals, reservations>> BY <1>7, ClientKeeps
  <2> QED BY <1>1, <1>7, <2>1, ClientMovesOn
<1>8. ASSUME NEW a \in Actions, Settle(a) PROVE RecordsMoveOn /\ CallsMoveOn
  <2>1. PICK status \in {"SUCCEEDED", "FAILED", "RECONCILIATION_REQUIRED"} : Closing(a, status) BY <1>8 DEF Settle
  <2>2. UNCHANGED <<approvals, calls>> /\ reservations[a].status = "EXECUTING" BY <1>8 DEF Settle
  <2> QED BY <1>2, <2>1, <2>2, ClosingMovesOn
<1>9. ASSUME NEW fact \in AllFacts, Lose(fact) PROVE RecordsMoveOn /\ CallsMoveOn
  <2>1. UNCHANGED <<actions, approvals, reservations, calls>> BY <1>9 DEF Lose
  <2> QED BY <1>1, <1>2, <2>1
<1> QED BY <1>3, <1>4, <1>5, <1>6, <1>7, <1>8, <1>9 DEF ServerNext, ServeWrites

LEMMA ServerKeepsPage ==
  ASSUME GovernanceInv, PageInv, ServerNext, UNCHANGED page
  PROVE  PageInv'
<1>1. RecordsMoveOn /\ CallsMoveOn BY ServerMovesOn DEF GovernanceInv, PageInv
<1>2. run' = run /\ views' = views BY DEF page
<1>3. RunMovesOn BY <1>2 DEF RunMovesOn
<1>4. MovesOn BY <1>1, <1>3 DEF MovesOn, RecordsMoveOn
<1>5. RunSound' BY <1>2 DEF PageInv, RunSound, Terminal, IsFunOn
<1>6. \A a \in Actions : OpenReserved(a)' BY <1>1 DEF RecordsMoveOn
<1>7. ASSUME NEW c \in Calls PROVE CallTrue(calls[c])'
  <2>1. CallTrue(calls'[c]) BY <1>1 DEF CallsMoveOn
  <2> QED BY <1>2, <2>1 DEF CallTrue, RowTrue, Terminal
<1>8. ASSUME NEW p \in Kinds PROVE ViewTrue(views[p])' /\ BusyWaits(p)' /\ LoadingWaits(views[p])'
  <2>1. ViewTrue(views[p]) /\ BusyWaits(p) /\ LoadingWaits(views[p]) BY DEF PageInv
  <2>2. ViewTrue(views[p])' BY <1>2, <1>4, <2>1, ViewsStayTrue
  <2>3. ASSUME NEW b \in views[p].busy PROVE \E c \in Calls : GivesBack(c, p, b)'
    <3>1. PICK c \in Calls : GivesBack(c, p, b) BY <2>1 DEF BusyWaits
    <3>2. CallKept(c) BY <1>1 DEF CallsMoveOn
    <3> QED BY <3>1, <3>2 DEF GivesBack, CallKept
  <2>4. BusyWaits(p)' BY <1>2, <2>3 DEF BusyWaits
  <2>5. LoadingWaits(views[p])' BY <1>2, <2>1 DEF LoadingWaits
  <2> QED BY <2>2, <2>4, <2>5
<1> QED BY <1>5, <1>6, <1>7, <1>8 DEF PageInv

---------------------------------------------------------------------------
(***************************************************************************)
(* The steps of the page.                                                  *)
(***************************************************************************)
\* What is still disabled in view p after a step waited before it, for a request that still
\* comes back, or waits for a new one
BusyMovesOn(p) ==
  \A b \in views'[p].busy :
    \/ b \in views[p].busy /\ \A c \in Calls : GivesBack(c, p, b) => GivesBack(c, p, b)'
    \/ \E c \in Calls : GivesBack(c, p, b)'

LEMMA PageStep ==
  ASSUME PageInv, UNCHANGED <<actions, approvals, reservations, run>>,
         \A c \in Calls : CallTrue(calls'[c]),
         \A p \in Kinds : ViewTrue(views'[p]) /\ LoadingWaits(views'[p]) /\ BusyMovesOn(p)
  PROVE  PageInv'
<1>1. RunSound' BY DEF PageInv, RunSound, Terminal, IsFunOn
<1>2. (\A a \in Actions : ActionMovesOn(a)) /\ \A a \in Actions : OpenReserved(a)'
  BY NoRecordMoves DEF PageInv
<1>3. RunMovesOn BY DEF RunMovesOn
<1>4. MovesOn BY <1>2, <1>3 DEF MovesOn
<1>5. \A c \in Calls : CallTrue(calls[c])'
  BY <1>3, CallsStayTrue
<1>6. ASSUME NEW p \in Kinds PROVE ViewTrue(views[p])' /\ BusyWaits(p)' /\ LoadingWaits(views[p])'
  <2>1. ViewTrue(views[p])' BY <1>4, ViewsStayTrue
  <2>2. BusyWaits(p) /\ BusyMovesOn(p) BY DEF PageInv
  <2>3. BusyWaits(p)' BY <2>2 DEF BusyWaits, BusyMovesOn
  <2>4. LoadingWaits(views[p])' BY DEF LoadingWaits
  <2> QED BY <2>1, <2>3, <2>4
<1> QED BY <1>1, <1>2, <1>5, <1>6 DEF PageInv

LEMMA NoBusy == ASSUME NEW p, views'[p].busy = {} PROVE BusyMovesOn(p)
BY DEF BusyMovesOn

LEMMA SameBusy ==
  ASSUME NEW p, views'[p].busy \subseteq views[p].busy, \A c \in Calls : calls[c].from = p => calls'[c] = calls[c]
  PROVE  BusyMovesOn(p)
BY DEF BusyMovesOn, GivesBack, Button

LEMMA DetachedTrue ==
  ASSUME CallsSound, \A c \in Calls : CallTrue(calls[c]), NEW kinds
  PROVE  /\ \A c \in Calls : CallTrue(Detached(kinds)[c])
         /\ \A c \in Calls : calls[c].from \notin kinds => Detached(kinds)[c] = calls[c]
<1>1. ASSUME NEW c \in Calls PROVE CallTrue([calls[c] EXCEPT !.attached = FALSE])
  <2>1. CallSound(calls[c]) /\ CallTrue(calls[c]) BY DEF CallsSound, RequestsSound
  <2> QED BY <2>1 DEF CallTrue, CallSound, IsFunOn, CallFields
<1>2. \A c \in Calls : Detached(kinds)[c] = IF calls[c].from \in kinds THEN [calls[c] EXCEPT !.attached = FALSE] ELSE calls[c]
  BY DEF Detached
<1> QED BY <1>1, <1>2

LEMMA NoRowTrue == RowTrue(NoRow)
BY DEF RowTrue, NoRow, Terminal, NoText

LEMMA BlankedTrue ==
  ASSUME NEW v, ViewSound(v), ViewTrue(v)
  PROVE  /\ ViewTrue(Blanked(v)) /\ Blanked(v).busy = {}
         /\ LoadingWaits(v) => LoadingWaits(Blanked(v))
<1> DEFINE b == Blanked(v)
<1>1. /\ b.cards = {} /\ b.row = NoRow /\ b.busy = {}
      /\ b.asked = v.asked /\ b.answers = v.answers /\ b.loading = v.loading
  BY DEF Blanked, ViewSound, IsFunOn, ViewFields
<1> HIDE DEF b
<1> QED BY <1>1, NoRowTrue DEF ViewTrue, LoadingWaits, b

\* A view that asks again is not left waiting
LEMMA AskingTrue ==
  ASSUME NEW v, ViewSound(v), ViewTrue(v)
  PROVE  ViewTrue(Asking(v)) /\ LoadingWaits(Asking(v)) /\ Asking(v).busy = v.busy /\ Asking(v).asked > 0
<1> DEFINE b == Asking(v)
<1>1. /\ b.cards = v.cards /\ b.row = v.row /\ b.busy = v.busy
      /\ b.asked = v.asked + 1 /\ b.answers = v.answers
  BY DEF Asking, ViewSound, IsFunOn, ViewFields
<1> HIDE DEF b
<1>2. b.asked \in Nat /\ b.asked > 0 BY <1>1 DEF ViewTrue
<1> QED BY <1>1, <1>2 DEF ViewTrue, LoadingWaits, b

LEMMA LoadingTrue ==
  ASSUME NEW v, ViewSound(v), ViewTrue(v)
  PROVE  ViewTrue(Loading(v)) /\ LoadingWaits(Loading(v)) /\ Loading(v).busy = {}
<1> DEFINE b == Blanked(v)
           a == Asking(b)
           l == [a EXCEPT !.loading = TRUE]
<1>1. ViewSound(b) /\ ViewTrue(b) /\ b.busy = {} BY BlankedSound, BlankedTrue
<1> HIDE DEF b
<1>2. ViewSound(a) /\ ViewTrue(a) /\ a.busy = {} /\ a.asked > 0 BY <1>1, AskingSound, AskingTrue
<1> HIDE DEF a
<1>3. /\ l.cards = a.cards /\ l.row = a.row /\ l.busy = a.busy /\ l.asked = a.asked /\ l.answers = a.answers
  BY <1>2 DEF ViewSound, IsFunOn, ViewFields
<1>4. l = Loading(v) BY DEF Loading, a, b
<1> HIDE DEF l
<1>5. ViewTrue(l) BY <1>2, <1>3 DEF ViewTrue
<1>6. LoadingWaits(l) BY <1>2, <1>3 DEF LoadingWaits
<1> QED BY <1>2, <1>3, <1>4, <1>5, <1>6

LEMMA FormTrue ==
  ASSUME NEW v, ViewSound(v), ViewTrue(v), NEW x
  PROVE  LET w == [v EXCEPT !.form = x] IN
         ViewTrue(w) /\ w.busy = v.busy /\ (LoadingWaits(v) => LoadingWaits(w))
<1> DEFINE w == [v EXCEPT !.form = x]
<1>1. /\ w.cards = v.cards /\ w.row = v.row /\ w.busy = v.busy
      /\ w.asked = v.asked /\ w.answers = v.answers /\ w.loading = v.loading
  BY DEF ViewSound, IsFunOn, ViewFields
<1> HIDE DEF w
<1>2. ViewTrue(w) BY <1>1 DEF ViewTrue
<1>3. LoadingWaits(v) => LoadingWaits(w) BY <1>1 DEF LoadingWaits
<1> QED BY <1>1, <1>2, <1>3 DEF w

LEMMA BusyTrue ==
  ASSUME NEW v, ViewSound(v), ViewTrue(v), NEW x
  PROVE  LET w == [v EXCEPT !.busy = x] IN
         ViewTrue(w) /\ w.busy = x /\ (LoadingWaits(v) => LoadingWaits(w))
<1> DEFINE w == [v EXCEPT !.busy = x]
<1>1. /\ w.cards = v.cards /\ w.row = v.row /\ w.busy = x
      /\ w.asked = v.asked /\ w.answers = v.answers /\ w.loading = v.loading
  BY DEF ViewSound, IsFunOn, ViewFields
<1> HIDE DEF w
<1>2. ViewTrue(w) BY <1>1 DEF ViewTrue
<1>3. LoadingWaits(v) => LoadingWaits(w) BY <1>1 DEF LoadingWaits
<1> QED BY <1>1, <1>2, <1>3 DEF w

LEMMA OpenPageTrue == ASSUME GovernanceInv, PageInv, OpenPage PROVE PageInv'
<1> DEFINE l == Loading(views["list"])
           b == Blanked(views["dialog"])
           d == [b EXCEPT !.form = FALSE]
<1>1. /\ ViewSound(views["list"]) /\ ViewSound(views["dialog"])
      /\ ViewTrue(views["list"]) /\ ViewTrue(views["dialog"]) /\ LoadingWaits(views["dialog"])
  BY DEF GovernanceInv, PageSound, PageInv, Kinds
<1>2. ViewTrue(l) /\ LoadingWaits(l) /\ l.busy = {} BY <1>1, LoadingTrue
<1>3. ViewSound(b) /\ ViewTrue(b) /\ LoadingWaits(b) /\ b.busy = {} BY <1>1, BlankedSound, BlankedTrue
<1> HIDE DEF l, b
<1>4. ViewTrue(d) /\ LoadingWaits(d) /\ d.busy = {} BY <1>3, FormTrue
<1> HIDE DEF d
<1>5. views' = [views EXCEPT !["list"] = l, !["dialog"] = d] BY DEF OpenPage, l, d, b
<1>6. IsFunOn(views, Kinds) BY DEF GovernanceInv, PageSound
<1>7. views'["list"] = l /\ views'["dialog"] = d BY <1>5, <1>6 DEF IsFunOn, Kinds
<1>8. UNCHANGED <<actions, approvals, reservations, run>> /\ calls' = Detached(Kinds) BY DEF OpenPage, records
<1>9. \A c \in Calls : CallTrue(calls'[c]) BY <1>8, DetachedTrue DEF GovernanceInv, PageInv
<1>10. \A p \in Kinds : ViewTrue(views'[p]) /\ LoadingWaits(views'[p]) /\ views'[p].busy = {}
  BY <1>2, <1>4, <1>7 DEF Kinds
<1> QED BY <1>8, <1>9, <1>10, NoBusy, PageStep

\* One view changes, and maybe requests of its own buttons
LEMMA OneViewTrue ==
  ASSUME GovernanceInv, PageInv, UNCHANGED <<actions, approvals, reservations, run>>,
         NEW p \in Kinds, NEW v, views' = [views EXCEPT ![p] = v], ViewTrue(v), LoadingWaits(v), BusyMovesOn(p),
         \A c \in Calls : CallTrue(calls'[c]), \A c \in Calls : calls[c].from # p => calls'[c] = calls[c]
  PROVE  PageInv'
<1>1. views'[p] = v /\ \A k \in Kinds : k # p => views'[k] = views[k]
  BY DEF GovernanceInv, PageSound, IsFunOn
<1>2. ASSUME NEW k \in Kinds PROVE ViewTrue(views'[k]) /\ LoadingWaits(views'[k]) /\ BusyMovesOn(k)
  <2>1. CASE k = p BY <1>1, <2>1
  <2>2. CASE k # p
    <3>1. views'[k] = views[k] BY <1>1, <2>2
    <3>2. ViewTrue(views[k]) /\ LoadingWaits(views[k]) BY DEF PageInv
    <3>3. BusyMovesOn(k) BY <2>2, <3>1, SameBusy
    <3> QED BY <3>1, <3>2, <3>3
  <2> QED BY <2>1, <2>2
<1> QED BY <1>2, PageStep

LEMMA ShowDetailTrue == ASSUME GovernanceInv, PageInv, ShowDetail PROVE PageInv'
<1> DEFINE v == Asking(views["dialog"])
<1>1. "dialog" \in Kinds /\ ViewSound(views["dialog"]) /\ ViewTrue(views["dialog"])
  BY DEF GovernanceInv, PageSound, PageInv, Kinds
<1>2. ViewTrue(v) /\ LoadingWaits(v) /\ v.busy = views["dialog"].busy BY <1>1, AskingTrue
<1>3. views' = [views EXCEPT !["dialog"] = v] BY DEF ShowDetail
<1> HIDE DEF v
<1>4. UNCHANGED <<actions, approvals, reservations, run, calls>> BY DEF ShowDetail, governance
<1>5. views'["dialog"] = v BY <1>1, <1>3 DEF GovernanceInv, PageSound, IsFunOn
<1>6. BusyMovesOn("dialog") BY <1>2, <1>4, <1>5, SameBusy
<1>7. \A c \in Calls : CallTrue(calls[c]) BY DEF PageInv
<1> QED BY <1>1, <1>2, <1>3, <1>4, <1>6, <1>7, OneViewTrue

\* What the server returns is what it has recorded
LEMMA AnsweredTrue == ASSUME GovernanceInv, NEW p PROVE ShownTrue(Answered(p))
<1>1. ASSUME NEW a \in Actions, actions[a].state # "NONE" PROVE CardTrue(Card(a))
  <2>1. VerdictSound(a) BY DEF GovernanceInv, RecordsSound
  <2>2. actions[a].state = "APPROVED" => Allows(a) # {} BY <2>1 DEF VerdictSound
  <2>3. Card(a).action = a /\ Card(a).state = actions[a].state /\ Card(a).content = actions[a].content BY DEF Card
  <2> QED BY <1>1, <2>2, <2>3 DEF CardTrue
<1>2. \A card \in Queue(seat) : CardTrue(card) BY <1>1 DEF Queue
<1>3. \A card \in RunDetail(seat) : CardTrue(card) BY <1>1 DEF RunDetail
<1>4. Answered(p).cards \in {Queue(seat), RunDetail(seat)} /\ Answered(p).row \in {run, NoRow} BY DEF Answered
<1>5. RowTrue(run) BY DEF RowTrue
<1> QED BY <1>2, <1>3, <1>4, <1>5, NoRowTrue DEF ShownTrue

LEMMA ServeReadTrue == ASSUME GovernanceInv, PageInv, NEW p \in Kinds, ServeRead(p) PROVE PageInv'
<1> DEFINE new == Answered(p)
           v == [views[p] EXCEPT !.asked = @ - 1, !.answers = @ \cup {new}]
<1>1. ViewSound(views[p]) /\ ViewTrue(views[p]) /\ IsFunOn(views, Kinds)
  BY DEF GovernanceInv, PageSound, PageInv
<1>2. ShownTrue(new) BY AnsweredTrue
<1>3. views' = [views EXCEPT ![p] = v] BY <1>1 DEF ServeRead, IsFunOn
<1> HIDE DEF new
<1>4. /\ v.cards = views[p].cards /\ v.row = views[p].row /\ v.busy = views[p].busy
      /\ v.asked = views[p].asked - 1 /\ v.answers = views[p].answers \cup {new}
  BY <1>1 DEF ViewSound, IsFunOn, ViewFields
<1> HIDE DEF v
<1>5. v.asked \in Nat BY <1>1, <1>4 DEF ServeRead, ViewTrue
<1>6. ViewTrue(v) BY <1>1, <1>2, <1>4, <1>5 DEF ViewTrue
<1>7. LoadingWaits(v) BY <1>4 DEF LoadingWaits
<1>8. UNCHANGED <<actions, approvals, reservations, run, calls>> BY DEF ServeRead, governance
<1>9. views'[p] = v BY <1>1, <1>3 DEF IsFunOn
<1>10. BusyMovesOn(p) BY <1>4, <1>8, <1>9, SameBusy
<1>11. \A c \in Calls : CallTrue(calls[c]) BY DEF PageInv
<1> QED BY <1>3, <1>6, <1>7, <1>8, <1>10, <1>11, OneViewTrue

LEMMA RenderTrue ==
  ASSUME GovernanceInv, PageInv, NEW p \in Kinds, NEW answer \in views[p].answers,
         NEW cards \in {answer.cards, {}}, Render(p, answer, cards)
  PROVE  PageInv'
<1> DEFINE v == [views[p] EXCEPT !.cards = cards, !.row = answer.row, !.loading = FALSE,
                                 !.busy = {}, !.answers = @ \ {answer}]
<1>1. ViewSound(views[p]) /\ ViewTrue(views[p]) /\ IsFunOn(views, Kinds)
  BY DEF GovernanceInv, PageSound, PageInv
<1>2. views' = [views EXCEPT ![p] = v] BY DEF Render
<1>3. /\ v.cards = cards /\ v.row = answer.row /\ v.busy = {} /\ v.loading = FALSE
      /\ v.asked = views[p].asked /\ v.answers \subseteq views[p].answers
  BY <1>1 DEF ViewSound, IsFunOn, ViewFields
<1> HIDE DEF v
<1>4. ViewTrue(v) BY <1>1, <1>3 DEF ViewTrue, ShownTrue
<1>5. LoadingWaits(v) BY <1>3 DEF LoadingWaits
<1>6. UNCHANGED <<actions, approvals, reservations, run>> /\ calls' = Detached({p}) BY DEF Render, records
<1>7. views'[p] = v BY <1>1, <1>2 DEF IsFunOn
<1>8. BusyMovesOn(p) BY <1>3, <1>7, NoBusy
<1>9. /\ \A c \in Calls : CallTrue(calls'[c])
      /\ \A c \in Calls : calls[c].from # p => calls'[c] = calls[c]
  BY <1>6, DetachedTrue DEF GovernanceInv, PageInv
<1> QED BY <1>2, <1>4, <1>5, <1>6, <1>8, <1>9, OneViewTrue

LEMMA ReadFailsTrue == ASSUME GovernanceInv, PageInv, NEW p \in Kinds, ReadFails(p) PROVE PageInv'
<1> DEFINE b == IF p = "list" THEN Blanked(views[p]) ELSE views[p]
           v == [b EXCEPT !.asked = @ - 1, !.loading = FALSE]
           f == IF p = "list" THEN Detached({p}) ELSE calls
<1>1. ViewSound(views[p]) /\ ViewTrue(views[p]) /\ IsFunOn(views, Kinds) /\ views[p].asked > 0
  BY DEF GovernanceInv, PageSound, PageInv, ReadFails
<1>2. /\ ViewSound(b) /\ ViewTrue(b)
      /\ b.busy = IF p = "list" THEN {} ELSE views[p].busy
  BY <1>1, BlankedSound, BlankedTrue
<1>3. b.asked = views[p].asked BY <1>1 DEF Blanked, ViewSound, IsFunOn, ViewFields
<1>4. views' = [views EXCEPT ![p] = v] /\ calls' = f /\ UNCHANGED <<actions, approvals, reservations, run>>
  BY DEF ReadFails, records
<1> HIDE DEF b
<1>5. /\ v.cards = b.cards /\ v.row = b.row /\ v.busy = b.busy /\ v.loading = FALSE
      /\ v.asked = b.asked - 1 /\ v.answers = b.answers
  BY <1>2 DEF ViewSound, IsFunOn, ViewFields
<1> HIDE DEF v
<1>6. v.asked \in Nat BY <1>1, <1>3, <1>5 DEF ViewTrue
<1>7. ViewTrue(v) BY <1>2, <1>5, <1>6 DEF ViewTrue
<1>8. LoadingWaits(v) BY <1>5 DEF LoadingWaits
<1>9. /\ \A c \in Calls : CallTrue(calls'[c])
      /\ \A c \in Calls : calls[c].from # p => calls'[c] = calls[c]
  BY <1>4, DetachedTrue DEF GovernanceInv, PageInv
<1>10. views'[p] = v BY <1>1, <1>4 DEF IsFunOn
<1>11. BusyMovesOn(p)
  <2>1. CASE p = "list" BY <2>1, <1>2, <1>5, <1>10, NoBusy
  <2>2. CASE p # "list" BY <2>2, <1>2, <1>4, <1>5, <1>10, SameBusy
  <2> QED BY <2>1, <2>2
<1> QED BY <1>4, <1>7, <1>8, <1>9, <1>11, OneViewTrue

LEMMA PressTrue ==
  ASSUME GovernanceInv, PageInv, NEW c \in Calls, NEW p \in Kinds, NEW b \in CardButtons(p) \cup RunButtons(p),
         Press(c, p, b)
  PROVE  PageInv'
<1> DEFINE v == [views[p] EXCEPT !.busy = @ \cup {b}]
           sent == Sent(seat, b[2], b[1], b[3], Shown(p, b[1]), p)
           q == [sent EXCEPT !.version = views[p].row.revision]
<1>1. /\ ViewSound(views[p]) /\ ViewTrue(views[p]) /\ LoadingWaits(views[p])
      /\ IsFunOn(views, Kinds) /\ IsFunOn(calls, Calls) /\ \A d \in Calls : CallTrue(calls[d])
  BY DEF GovernanceInv, PageSound, PageInv, CallsSound, RequestsSound
<1>2. b = <<b[1], b[2], b[3]>> /\ \/ b[2] # "run" /\ b[3] \in Decisions \cup {NoText}
                                  \/ /\ b[2] = "run"
                                     /\ b[3] \in {"finalize", "stop"} => run.p2p
                                     /\ b[3] = "options" => p = "dialog"
  <2>1. CASE b \in CardButtons(p)
    <3>1. PICK card \in views[p].cards : \E op \in QueueOps(card) \cup PanelOps(card) : \E arg \in Args(op) :
                  b = <<card.action, op, arg>>
      BY <2>1 DEF CardButtons
    <3>2. PICK op \in QueueOps(card) \cup PanelOps(card) : \E arg \in Args(op) : b = <<card.action, op, arg>>
      BY <3>1
    <3>3. op \in {"decide", "execute", "reconcile"} BY DEF QueueOps, PanelOps
    <3>4. PICK arg \in Args(op) : b = <<card.action, op, arg>> BY <3>2
    <3>5. arg \in Decisions \cup {NoText} BY DEF Args
    <3> QED BY <3>3, <3>4, <3>5
  <2>2. CASE b \in RunButtons(p)
    <3> DEFINE v1 == views[p].row
    <3>0. p = "list" \/ p = "dialog" BY DEF Kinds
    <3>1. PICK op \in RowOps(v1) \cup DetailOps(v1, views[p].form) :
                 b = <<"run", "run", op>> /\ (p = "list" => op \in RowOps(v1))
      BY <2>2 DEF RunButtons
    <3>2. RowTrue(v1) BY <1>1 DEF ViewTrue
    <3> HIDE DEF v1
    <3>3. op \in RowOps(v1) => op \in {"analyze", "plan", "cancel"} BY DEF RowOps
    <3>4. op \in DetailOps(v1, views[p].form) /\ op \in {"finalize", "stop"} => v1.p2p BY DEF DetailOps
    <3>5. op \in {"finalize", "stop"} => run.p2p BY <3>1, <3>2, <3>3, <3>4 DEF RowTrue
    <3>6. op = "options" => p = "dialog" BY <3>1, <3>3 DEF Kinds
    <3> QED BY <3>1, <3>5, <3>6
  <2> QED BY <2>1, <2>2
<1>3. views' = [views EXCEPT ![p] = v] /\ calls' = [calls EXCEPT ![c] = q] /\ calls[c].phase = "idle"
      /\ UNCHANGED <<actions, approvals, reservations, run>>
  BY <1>1 DEF Press, records, IsFunOn
<1>4. /\ q.phase = "sent" /\ q.op = b[2] /\ q.action = b[1] /\ q.arg = b[3] /\ q.from = p /\ q.attached
  BY DEF Sent
<1> HIDE DEF q
<1>5. ViewTrue(v) /\ v.busy = views[p].busy \cup {b} /\ LoadingWaits(v) BY <1>1, BusyTrue
<1> HIDE DEF v
<1>6. /\ views'[p] = v /\ \A k \in Kinds : k # p => views'[k] = views[k]
      /\ calls'[c] = q /\ \A d \in Calls : d # c => calls'[d] = calls[d]
  BY <1>1, <1>3 DEF IsFunOn
<1>7. CallTrue(q)
  <2>1. q.phase # "answered" BY <1>4
  <2>2. q.op = "run" /\ q.arg \in {"finalize", "stop"} => run.p2p BY <1>2, <1>4
  <2>3. q.op # "run" => q.arg \in Decisions \cup {NoText} BY <1>2, <1>4
  <2>4. q.arg = "options" => q.from = "dialog" BY <1>2, <1>4 DEF Decisions, NoText
  <2> QED BY <2>1, <2>2, <2>3, <2>4 DEF CallTrue
<1>8. GivesBack(c, p, b)'
  <2>1. Button(c)' = b BY <1>2, <1>4, <1>6 DEF Button
  <2> QED BY <1>4, <1>6, <2>1 DEF GivesBack
<1>9. \A k \in Kinds, d \in Calls : \A e : GivesBack(d, k, e) => GivesBack(d, k, e)'
  <2>1. ASSUME NEW k \in Kinds, NEW d \in Calls, NEW e, GivesBack(d, k, e) PROVE GivesBack(d, k, e)'
    <3>1. d # c BY <1>3, <2>1 DEF GivesBack
    <3>2. calls'[d] = calls[d] BY <1>6, <3>1
    <3> QED BY <2>1, <3>2 DEF GivesBack, Button
  <2> QED BY <2>1
<1>10. ASSUME NEW k \in Kinds PROVE ViewTrue(views'[k]) /\ LoadingWaits(views'[k]) /\ BusyMovesOn(k)
  <2>1. CASE k = p BY <2>1, <1>5, <1>6, <1>8, <1>9 DEF BusyMovesOn
  <2>2. CASE k # p
    <3>1. views'[k] = views[k] BY <1>6, <2>2
    <3>2. ViewTrue(views[k]) /\ LoadingWaits(views[k]) BY DEF PageInv
    <3> QED BY <1>9, <3>1, <3>2 DEF BusyMovesOn
  <2> QED BY <2>1, <2>2
<1>11. \A d \in Calls : CallTrue(calls'[d]) BY <1>1, <1>6, <1>7
<1> QED BY <1>3, <1>10, <1>11, PageStep

\* A row that differs from another in none but these
RowIs(next, row, state, asks) ==
  IsFunOn(next, RowFields) /\ next.state = state /\ next.asks = asks /\ next.p2p = row.p2p

LEMMA RowMoves ==
  ASSUME RunSound, NEW state, NEW asks, RowIs(run', run, state, asks),
         Terminal(run) => state = run.state,
         state \in {"SUCCEEDED", "FAILED", "CANCELLED", "EXPIRED", "CREATED"} \/ run.p2p => ~asks,
         run.p2p => state # "CREATED"
  PROVE  RunSound' /\ RunMovesOn
BY DEF RowIs, RunSound, RunMovesOn, Terminal, IsFunOn

\* A request on the Run: what the page showed of its end stays so, and an ended Run asks nothing
LEMMA RunMoves ==
  ASSUME RunSound, NEW arg, arg \in {"finalize", "stop"} => run.p2p, NEW revision,
         run' \in RunAfter(arg, revision)
  PROVE  RunSound' /\ RunMovesOn
<1> DEFINE s == run.state
           moves == RunSound' /\ RunMovesOn
<1>1. IsFunOn(run, RowFields) BY DEF RunSound
<1>2. /\ s \in {"SUCCEEDED", "FAILED", "CANCELLED", "EXPIRED", "CREATED"} \/ run.p2p => ~run.asks
      /\ run.p2p => s # "CREATED"
      /\ Terminal(run) <=> s \in {"SUCCEEDED", "FAILED", "CANCELLED", "EXPIRED"}
  BY DEF RunSound, Terminal
<1>3. RowIs(run', run, s, run.asks) => moves
  <2> SUFFICES ASSUME RowIs(run', run, s, run.asks) PROVE moves OBVIOUS
  <2> QED BY <1>2, RowMoves
<1>4. ASSUME NEW state \in {"PROPOSED", "FAILED", "SUCCEEDED", "CANCELLED", "ANALYZING"}, NEW asks,
             RowIs(run', run, state, asks), ~Terminal(run), state # "ANALYZING" => ~asks, run.p2p => ~asks
      PROVE  moves
  <2>1. state \in {"SUCCEEDED", "FAILED", "CANCELLED", "EXPIRED", "CREATED"} \/ run.p2p => ~asks BY <1>4
  <2>2. run.p2p => state # "CREATED" BY <1>4
  <2> QED BY <1>4, <2>1, <2>2, RowMoves
<1>5. CASE arg = "analyze"
  <2>1. s = "CREATED" /\ \/ run' = [run EXCEPT !.state = "PROPOSED"]
                         \/ run' = [run EXCEPT !.state = "FAILED"]
                         \/ run' = [run EXCEPT !.state = "ANALYZING", !.asks = TRUE, !.revision = 1]
    BY <1>5 DEF RunAfter
  <2>2. ~Terminal(run) /\ ~run.asks /\ ~run.p2p BY <1>2, <2>1
  <2>3. CASE run' = [run EXCEPT !.state = "PROPOSED"]
    <3>1. RowIs(run', run, "PROPOSED", run.asks) BY <1>1, <2>3 DEF RowIs, IsFunOn, RowFields
    <3> QED BY <2>2, <3>1, <1>4
  <2>4. CASE run' = [run EXCEPT !.state = "FAILED"]
    <3>1. RowIs(run', run, "FAILED", run.asks) BY <1>1, <2>4 DEF RowIs, IsFunOn, RowFields
    <3> QED BY <2>2, <3>1, <1>4
  <2>5. CASE run' = [run EXCEPT !.state = "ANALYZING", !.asks = TRUE, !.revision = 1]
    <3>1. RowIs(run', run, "ANALYZING", TRUE) BY <1>1, <2>5 DEF RowIs, IsFunOn, RowFields
    <3> QED BY <2>2, <3>1, <1>4
  <2> QED BY <2>1, <2>3, <2>4, <2>5
<1>6. CASE arg \in {"plan", "options"}
  <2>1. run' = run BY <1>6 DEF RunAfter
  <2>2. RowIs(run', run, s, run.asks) BY <1>1, <2>1 DEF RowIs, IsFunOn
  <2> QED BY <1>3, <2>2
<1>7. CASE arg = "cancel"
  <2>1. s \in {"CREATED", "ANALYZING"} /\ run' = [run EXCEPT !.state = "CANCELLED", !.asks = FALSE]
    BY <1>7 DEF RunAfter
  <2>2. RowIs(run', run, "CANCELLED", FALSE) BY <1>1, <2>1 DEF RowIs, IsFunOn, RowFields
  <2>3. ~Terminal(run) BY <1>2, <2>1
  <2> QED BY <2>2, <2>3, <1>4
<1>8. CASE arg \in {"goal", "investigate", "resume"}
  <2>1. \/ run' = [run EXCEPT !.goal = "CONFIRMED", !.ready = FALSE]
        \/ run' = [run EXCEPT !.ready = TRUE] \/ run' = [run EXCEPT !.goal = "STALE"] \/ run' = run
    BY <1>8 DEF RunAfter
  <2>2. RowIs(run', run, s, run.asks) BY <1>1, <2>1 DEF RowIs, IsFunOn, RowFields
  <2> QED BY <1>3, <2>2
<1>9. CASE arg \in {"finalize", "stop"}
  <2>1. ~Terminal(run) /\ (run' = [run EXCEPT !.state = "SUCCEEDED"] \/ run' = [run EXCEPT !.state = "CANCELLED"])
    BY <1>9 DEF RunAfter
  <2>2. RowIs(run', run, "SUCCEEDED", run.asks) \/ RowIs(run', run, "CANCELLED", run.asks)
    BY <1>1, <2>1 DEF RowIs, IsFunOn, RowFields
  <2>3. ~run.asks BY <1>2, <1>9
  <2> QED BY <2>1, <2>2, <2>3, <1>4
<1>10. CASE arg = "answer"
  <2> DEFINE r == run.revision + 1
  <2>1. run.asks /\ (run' = [run EXCEPT !.asks = FALSE, !.state = "PROPOSED"] \/ run' = [run EXCEPT !.revision = r])
    BY <1>10 DEF RunAfter
  <2> HIDE DEF r
  <2>2. RowIs(run', run, "PROPOSED", FALSE) \/ RowIs(run', run, s, run.asks)
    BY <1>1, <2>1 DEF RowIs, IsFunOn, RowFields
  <2>3. ~Terminal(run) BY <1>2, <2>1
  <2> QED BY <2>2, <2>3, <1>3, <1>4
<1>11. CASE arg \notin {"analyze", "plan", "options", "cancel", "goal", "investigate", "resume", "finalize", "stop", "answer"}
  <2>1. RunAfter(arg, revision) = {} BY <1>11 DEF RunAfter
  <2> QED BY <2>1
<1> QED BY <1>5, <1>6, <1>7, <1>8, <1>9, <1>10, <1>11

LEMMA ServeRunTrue == ASSUME GovernanceInv, PageInv, NEW c \in Calls, ServeRun(c) PROVE PageInv'
<1> DEFINE ok == RunAfter(calls[c].arg, calls[c].version) # {}
           q == [calls[c] EXCEPT !.phase = "answered", !.ok = ok, !.content = run']
<1>1. /\ calls' = [calls EXCEPT ![c] = q] /\ UNCHANGED <<actions, approvals, reservations, views>>
      /\ calls[c].phase = "sent" /\ calls[c].op = "run"
  BY DEF ServeRun, records
<1> HIDE DEF ok
<1>2. /\ RunSound /\ IsFunOn(calls, Calls) /\ CallSound(calls[c]) /\ CallTrue(calls[c])
      /\ \A d \in Calls : CallTrue(calls[d])
  BY DEF GovernanceInv, PageInv, CallsSound, RequestsSound
<1>3. RunSound' /\ RunMovesOn
  <2>1. calls[c].arg \in {"finalize", "stop"} => run.p2p BY <1>1, <1>2 DEF CallTrue
  <2>2. run' = run \/ run' \in RunAfter(calls[c].arg, calls[c].version) BY DEF ServeRun
  <2>3. CASE run' = run BY <1>2, <2>3 DEF RunSound, RunMovesOn, Terminal, IsFunOn
  <2> QED BY <1>2, <2>1, <2>2, <2>3, RunMoves
<1>4. (\A a \in Actions : ActionMovesOn(a)) /\ \A a \in Actions : OpenReserved(a)'
  BY <1>1, NoRecordMoves DEF PageInv
<1>5. MovesOn BY <1>3, <1>4 DEF MovesOn
<1>6. /\ q.phase = "answered" /\ q.op = "run" /\ q.arg = calls[c].arg /\ q.from = calls[c].from
      /\ q.content = run' /\ q.action = calls[c].action /\ q.attached = calls[c].attached
  BY <1>1, <1>2 DEF CallSound, IsFunOn, CallFields
<1> HIDE DEF q
<1>7. calls'[c] = q /\ \A d \in Calls : d # c => calls'[d] = calls[d] BY <1>1, <1>2 DEF IsFunOn
<1>8. ASSUME NEW d \in Calls PROVE CallTrue(calls[d])'
  <2>1. CASE d = c
    <3>1. RowTrue(calls[c].content)' BY <1>6, <1>7 DEF RowTrue, Terminal
    <3>2. calls[c].arg \in {"finalize", "stop"} => run'.p2p BY <1>1, <1>2, <1>3 DEF CallTrue, RunMovesOn
    <3>3. calls[c].from \in Kinds /\ calls[c].arg = "options" => calls[c].from = "dialog" BY <1>1, <1>2 DEF CallTrue
    <3> QED BY <1>6, <1>7, <2>1, <3>1, <3>2, <3>3 DEF CallTrue, Kinds
  <2>2. CASE d # c
    <3>1. CallTrue(calls[d]) /\ calls'[d] = calls[d] BY <1>2, <1>7, <2>2
    <3>2. \A x : CallTrue(x) => CallTrue(x)' BY <1>3, CallsStayTrue
    <3> QED BY <3>1, <3>2
  <2> QED BY <2>1, <2>2
<1>9. ASSUME NEW p \in Kinds PROVE ViewTrue(views[p])' /\ BusyWaits(p)' /\ LoadingWaits(views[p])'
  <2>1. ViewTrue(views[p]) /\ BusyWaits(p) /\ LoadingWaits(views[p]) BY DEF PageInv
  <2>2. ViewTrue(views[p])' BY <1>1, <1>5, <2>1, ViewsStayTrue
  <2>3. ASSUME NEW d \in Calls, NEW b, GivesBack(d, p, b) PROVE GivesBack(d, p, b)'
    <3>1. CASE d = c BY <2>3, <3>1, <1>6, <1>7, <1>1 DEF GivesBack, Button
    <3>2. CASE d # c BY <2>3, <3>2, <1>7 DEF GivesBack, Button
    <3> QED BY <3>1, <3>2
  <2>4. BusyWaits(p)' BY <1>1, <2>1, <2>3 DEF BusyWaits
  <2>5. LoadingWaits(views[p])' BY <1>1, <2>1 DEF LoadingWaits
  <2> QED BY <2>2, <2>4, <2>5
<1> QED BY <1>3, <1>4, <1>8, <1>9 DEF PageInv

LEMMA FinishMoves ==
  ASSUME GovernanceInv, PageInv, NEW c \in Calls, NEW kinds, calls' = Finish(c, Detached(kinds))
  PROVE  /\ \A d \in Calls : CallTrue(calls'[d])
         /\ \A d \in Calls : d # c /\ calls[d].from \notin kinds => calls'[d] = calls[d]
<1> DEFINE others == Detached(kinds)
<1>1. \A d \in Calls : CallTrue(calls[d]) BY DEF PageInv
<1>2. /\ \A d \in Calls : CallTrue(others[d])
      /\ \A d \in Calls : calls[d].from \notin kinds => others[d] = calls[d]
  BY <1>1, DetachedTrue DEF GovernanceInv
<1>3. IsFunOn(others, Calls) BY DEF Detached, IsFunOn
<1> HIDE DEF others
<1>4. \A d \in Calls : calls'[d] = IF d = c THEN Idle ELSE others[d] BY <1>3 DEF Finish, IsFunOn, others
<1> QED BY <1>2, <1>4, IdleTrue

LEMMA FinishOne ==
  ASSUME GovernanceInv, PageInv, NEW c \in Calls, calls' = Finish(c, calls)
  PROVE  (\A d \in Calls : CallTrue(calls'[d])) /\ \A d \in Calls : d # c => calls'[d] = calls[d]
<1>1. IsFunOn(calls, Calls) /\ \A d \in Calls : CallTrue(calls[d])
  BY DEF GovernanceInv, PageInv, CallsSound, RequestsSound
<1>2. \A d \in Calls : calls'[d] = IF d = c THEN Idle ELSE calls[d] BY <1>1 DEF Finish, IsFunOn
<1> QED BY <1>1, <1>2, IdleTrue

\* What view k still waits for, it does not wait for the request c that has come back
LEMMA FinishBusy ==
  ASSUME NEW c \in Calls, NEW k, views'[k].busy \subseteq views[k].busy,
         \A d \in Calls : d # c /\ calls[d].from = k => calls'[d] = calls[d],
         \A b \in views'[k].busy : ~GivesBack(c, k, b)
  PROVE  BusyMovesOn(k)
<1>1. ASSUME NEW b \in views'[k].busy, NEW d \in Calls, GivesBack(d, k, b) PROVE GivesBack(d, k, b)'
  <2>1. d # c BY <1>1
  <2>2. calls'[d] = calls[d] BY <1>1, <2>1 DEF GivesBack
  <2> QED BY <1>1, <2>2 DEF GivesBack, Button
<1> QED BY <1>1 DEF BusyMovesOn

\* A fault, or a request or answer that is lost
LEMMA FailureTrue ==
  ASSUME GovernanceInv, PageInv, NEW c \in Calls, views' = AfterFailure(c), calls' = Finish(c, calls),
         UNCHANGED <<actions, approvals, reservations, run>>
  PROVE  PageInv'
<1> DEFINE x == calls[c].from
           e == Button(c)
           S == views[x].busy \ {e}
           w == [views EXCEPT ![x].busy = S]
<1>1. AfterFailure(c) = IF calls[c].attached THEN w ELSE views BY DEF AfterFailure
<1>2. IsFunOn(views, Kinds) /\ \A k \in Kinds : ViewSound(views[k]) /\ ViewTrue(views[k]) /\ LoadingWaits(views[k])
  BY DEF GovernanceInv, PageSound, PageInv
<1>3. (\A d \in Calls : CallTrue(calls'[d])) /\ \A d \in Calls : d # c => calls'[d] = calls[d]
  BY FinishOne
<1> HIDE DEF S
<1>4. \A k \in Kinds : w[k] = IF k = x THEN [views[k] EXCEPT !.busy = S] ELSE views[k] BY <1>2 DEF IsFunOn
<1> HIDE DEF w
<1>5. ASSUME NEW k \in Kinds PROVE ViewTrue(views'[k]) /\ LoadingWaits(views'[k]) /\ BusyMovesOn(k)
  <2>1. CASE calls[c].attached /\ k = x
    <3>1. views'[k] = [views[k] EXCEPT !.busy = S] BY <1>1, <1>4, <2>1
    <3>2. ViewTrue(views'[k]) /\ views'[k].busy = S /\ LoadingWaits(views'[k]) BY <1>2, <3>1, BusyTrue
    <3>3. S = views[k].busy \ {e} BY <2>1 DEF S
    <3>4. \A b \in views'[k].busy : b # e BY <3>2, <3>3
    <3>5. \A b \in views'[k].busy : ~GivesBack(c, k, b) BY <3>4 DEF GivesBack
    <3>6. BusyMovesOn(k) BY <1>3, <3>2, <3>3, <3>5, FinishBusy
    <3> QED BY <3>2, <3>6
  <2>2. CASE ~(calls[c].attached /\ k = x)
    <3>1. views'[k] = views[k] BY <1>1, <1>4, <2>2
    <3>2. \A b \in views'[k].busy : ~GivesBack(c, k, b) BY <2>2 DEF GivesBack
    <3>3. BusyMovesOn(k) BY <1>3, <3>1, <3>2, FinishBusy
    <3> QED BY <1>2, <3>1, <3>3
  <2> QED BY <2>1, <2>2
<1> QED BY <1>3, <1>5, PageStep

LEMMA LostTrue == ASSUME GovernanceInv, PageInv, NEW c \in Calls, Lost(c) PROVE PageInv'
BY FailureTrue DEF Lost, records

\* The goal dialog opens
LEMMA OptionsTrue ==
  ASSUME GovernanceInv, PageInv, NEW c \in Calls, calls[c].phase = "answered", calls[c].arg = "options",
         views' = AfterOptions(c), calls' = Finish(c, calls), UNCHANGED <<actions, approvals, reservations, run>>
  PROVE  PageInv'
<1> DEFINE v == views["dialog"]
           e == Button(c)
           S == IF calls[c].attached THEN v.busy \ {e} ELSE v.busy
           f == [v EXCEPT !.form = TRUE]
           r == [f EXCEPT !.busy = S]
<1>1. IsFunOn(views, Kinds) /\ \A k \in Kinds : ViewSound(views[k]) /\ ViewTrue(views[k]) /\ LoadingWaits(views[k])
  BY DEF GovernanceInv, PageSound, PageInv
<1>2. "dialog" \in Kinds /\ ViewSound(v) /\ ViewTrue(v) /\ LoadingWaits(v) BY <1>1 DEF Kinds
<1>3. (\A d \in Calls : CallTrue(calls'[d])) /\ \A d \in Calls : d # c => calls'[d] = calls[d]
  BY FinishOne
<1>4. f.busy = v.busy BY <1>2 DEF ViewSound, IsFunOn, ViewFields
<1>5. views' = [views EXCEPT !["dialog"] = r]
  BY <1>1, <1>2, <1>4 DEF AfterOptions, IsFunOn
<1>6. S \subseteq v.busy /\ \A b \in S : ~GivesBack(c, "dialog", b) BY DEF GivesBack
<1> HIDE DEF S
<1>7. ViewSound(f) /\ ViewTrue(f) /\ LoadingWaits(f) BY <1>2, FieldsSound, FormTrue
<1> HIDE DEF f
<1>8. ViewTrue(r) /\ LoadingWaits(r) /\ r.busy = S BY <1>7, BusyTrue
<1> HIDE DEF r
<1>9. views'["dialog"] = r /\ \A k \in Kinds : k # "dialog" => views'[k] = views[k]
  BY <1>1, <1>2, <1>5 DEF IsFunOn
<1>10. calls[c].from \in Kinds => calls[c].from = "dialog"
  BY DEF PageInv, CallTrue
<1>11. ASSUME NEW k \in Kinds PROVE ViewTrue(views'[k]) /\ LoadingWaits(views'[k]) /\ BusyMovesOn(k)
  <2>1. CASE k = "dialog"
    <3>1. BusyMovesOn(k) BY <1>3, <1>6, <1>8, <1>9, <2>1, FinishBusy
    <3> QED BY <1>8, <1>9, <2>1, <3>1
  <2>2. CASE k # "dialog"
    <3>1. views'[k] = views[k] BY <1>9, <2>2
    <3>2. \A b \in views'[k].busy : ~GivesBack(c, k, b) BY <1>10, <2>2 DEF GivesBack
    <3>3. BusyMovesOn(k) BY <1>3, <3>1, <3>2, FinishBusy
    <3> QED BY <1>1, <3>1, <3>3
  <2> QED BY <2>1, <2>2
<1> QED BY <1>3, <1>11, PageStep

\* An answer of ok: the list is read again, and the dialog closed, updated or left as it is
LEMMA SuccessTrue ==
  ASSUME GovernanceInv, PageInv, NEW c \in Calls, calls[c].phase = "answered", calls[c].arg # "options",
         views' = AfterSuccess(c), calls' = Finish(c, Detached(IF Closes(c) THEN Kinds ELSE {"list"})),
         UNCHANGED <<actions, approvals, reservations, run>>
  PROVE  PageInv'
<1> DEFINE q == calls[c]
           kinds == IF Closes(c) THEN Kinds ELSE {"list"}
           v == views["dialog"]
           b == Blanked(v)
           S == v.busy \ {Button(c)}
           closed == [b EXCEPT !.form = FALSE]
           updated == [v EXCEPT !.row = q.content, !.busy = S]
           left == CASE Closes(c) -> closed
                     [] q.arg = "answer" /\ q.attached -> updated
                     [] OTHER -> v
           l == Loading(views["list"])
           d == IF Reopens(c) THEN Reread(left) ELSE left
<1>1. views' = [list |-> l, dialog |-> d] BY DEF AfterSuccess
<1>2. /\ ViewSound(views["list"]) /\ ViewTrue(views["list"])
      /\ ViewSound(v) /\ ViewTrue(v) /\ LoadingWaits(v)
  BY DEF GovernanceInv, PageSound, PageInv, Kinds
<1>3. ViewTrue(l) /\ LoadingWaits(l) /\ l.busy = {} BY <1>2, LoadingTrue
<1> HIDE DEF l
<1>4. ViewSound(closed) /\ ViewTrue(closed) /\ LoadingWaits(closed) /\ closed.busy = {}
  <2>1. ViewSound(b) /\ ViewTrue(b) /\ LoadingWaits(b) /\ b.busy = {} BY <1>2, BlankedSound, BlankedTrue
  <2> HIDE DEF b
  <2> QED BY <2>1, FieldsSound, FormTrue
<1>5. q.arg = "answer" => ViewSound(updated) /\ ViewTrue(updated) /\ LoadingWaits(updated) /\ updated.busy = S
  <2> SUFFICES ASSUME q.arg = "answer" PROVE ViewSound(updated) /\ ViewTrue(updated) /\ LoadingWaits(updated) /\ updated.busy = S
    OBVIOUS
  <2>1. CallTrue(q) BY DEF PageInv
  <2>2. RowTrue(q.content) BY <2>1 DEF CallTrue, Decisions, NoText
  <2> DEFINE content == q.content
  <2> HIDE DEF S, content, v
  <2>3. updated = [v EXCEPT !.row = content, !.busy = S] BY DEF content
  <2> HIDE DEF updated
  <2>4. /\ updated.cards = v.cards /\ updated.row = content /\ updated.busy = S
        /\ updated.asked = v.asked /\ updated.answers = v.answers /\ updated.loading = v.loading
    BY <1>2, <2>3 DEF ViewSound, IsFunOn, ViewFields
  <2>5. ViewSound(updated) BY <1>2, <2>3 DEF ViewSound, IsFunOn, ViewFields, CardsSound
  <2>6. ViewTrue(updated) BY <1>2, <2>2, <2>4 DEF ViewTrue, content
  <2>7. LoadingWaits(updated) BY <1>2, <2>4 DEF LoadingWaits
  <2> QED BY <2>4, <2>5, <2>6, <2>7
<1> HIDE DEF b, S, closed, updated
<1>6. \/ Closes(c) /\ left = closed
      \/ ~Closes(c) /\ q.arg = "answer" /\ q.attached /\ left = updated
      \/ ~Closes(c) /\ ~(q.arg = "answer" /\ q.attached) /\ left = v
  <2>1. CASE Closes(c)
    <3>1. ~(q.arg = "answer") BY <2>1 DEF Closes
    <3> QED BY <2>1, <3>1
  <2>2. CASE ~Closes(c) BY <2>2
  <2> QED BY <2>1, <2>2
<1> HIDE DEF left
<1>7. ViewSound(left) /\ ViewTrue(left) /\ LoadingWaits(left) BY <1>2, <1>4, <1>5, <1>6
<1>8. left.busy \subseteq v.busy /\ (Closes(c) => left.busy = {})
      /\ \A e \in left.busy : ~GivesBack(c, "dialog", e)
  <2>1. CASE Closes(c) BY <1>4, <1>6, <2>1
  <2>2. CASE ~Closes(c) /\ left = updated /\ q.arg = "answer"
    <3>1. left.busy = S BY <1>5, <2>2
    <3> QED BY <2>2, <3>1 DEF S, GivesBack
  <2>3. CASE ~Closes(c) /\ left = v /\ ~(q.arg = "answer" /\ q.attached)
    <3>1. q.from = "dialog" => q.arg = "answer" BY <2>3 DEF Closes
    <3> QED BY <2>3, <3>1 DEF GivesBack
  <2> QED BY <1>6, <2>1, <2>2, <2>3
<1>9. ViewTrue(d) /\ LoadingWaits(d) /\ d.busy = left.busy
  BY <1>7, AskingTrue DEF Reread
<1> HIDE DEF d
<1>10. views'["list"] = l /\ views'["dialog"] = d BY <1>1
<1>11. /\ \A x \in Calls : CallTrue(calls'[x])
       /\ \A x \in Calls : x # c /\ calls[x].from \notin kinds => calls'[x] = calls[x]
  BY FinishMoves
<1>12. BusyMovesOn("list") BY <1>3, <1>10, NoBusy
<1>13. BusyMovesOn("dialog")
  <2>1. CASE Closes(c) BY <1>8, <1>9, <1>10, <2>1, NoBusy
  <2>2. CASE ~Closes(c)
    <3>1. \A x \in Calls : x # c /\ calls[x].from = "dialog" => calls'[x] = calls[x] BY <1>11, <2>2
    <3>2. views'["dialog"].busy \subseteq v.busy /\ \A e \in views'["dialog"].busy : ~GivesBack(c, "dialog", e)
      BY <1>8, <1>9, <1>10
    <3> QED BY <3>1, <3>2, FinishBusy
  <2> QED BY <2>1, <2>2
<1>14. \A k \in Kinds : ViewTrue(views'[k]) /\ LoadingWaits(views'[k]) /\ BusyMovesOn(k)
  BY <1>3, <1>9, <1>10, <1>12, <1>13 DEF Kinds
<1> QED BY <1>11, <1>14, PageStep

LEMMA ReceiveTrue == ASSUME GovernanceInv, PageInv, NEW c \in Calls, Receive(c) PROVE PageInv'
<1> DEFINE others == Detached(IF Closes(c) THEN Kinds ELSE {"list"})
<1>1. calls[c].phase = "answered" /\ UNCHANGED <<actions, approvals, reservations, run>> BY DEF Receive, records
<1>2. \/ calls[c].arg # "options" /\ views' = AfterSuccess(c) /\ calls' = Finish(c, others)
      \/ calls[c].arg = "options" /\ views' = AfterOptions(c) /\ calls' = Finish(c, calls)
      \/ views' = AfterFailure(c) /\ calls' = Finish(c, calls)
  BY DEF Receive
<1> QED BY <1>1, <1>2, SuccessTrue, OptionsTrue, FailureTrue

LEMMA PageNextTrue == ASSUME GovernanceInv, PageInv, PageNext PROVE PageInv'
<1>1. CASE OpenPage BY <1>1, OpenPageTrue
<1>2. CASE ShowDetail BY <1>2, ShowDetailTrue
<1>3. ASSUME NEW p \in Kinds, ServeRead(p) PROVE PageInv' BY <1>3, ServeReadTrue
<1>4. ASSUME NEW p \in Kinds, ReadFails(p) PROVE PageInv' BY <1>4, ReadFailsTrue
<1>5. ASSUME NEW p \in Kinds, NEW answer \in views[p].answers, Render(p, answer, answer.cards) PROVE PageInv'
  BY <1>5, RenderTrue
<1>6. ASSUME NEW c \in Calls, NEW p \in Kinds, NEW b \in CardButtons(p) \cup RunButtons(p), Press(c, p, b)
      PROVE  PageInv'
  BY <1>6, PressTrue
<1>7. ASSUME NEW c \in Calls, ServeRun(c) PROVE PageInv' BY <1>7, ServeRunTrue
<1>8. ASSUME NEW c \in Calls, Receive(c) PROVE PageInv' BY <1>8, ReceiveTrue
<1>9. ASSUME NEW c \in Calls, Lost(c) PROVE PageInv' BY <1>9, LostTrue
<1>10. ASSUME NEW answer \in views["list"].answers, RenderRuns(answer) PROVE PageInv'
  BY <1>10, RenderTrue DEF RenderRuns, Kinds
<1> QED BY <1>1, <1>2, <1>3, <1>4, <1>5, <1>6, <1>7, <1>8, <1>9, <1>10 DEF PageNext

LEMMA InitPageTrue == ASSUME RunsInit PROVE PageInv
<1>1. PICK row \in InitialRows : run = row BY DEF RunsInit, PageInit
<1>2. RunSound
  <2> DEFINE stop == {"SUCCEEDED", "FAILED", "CANCELLED", "EXPIRED"}
  <2> DEFINE ordinary == \E s \in {"CREATED", "AWAITING_APPROVAL", "EXECUTING"} : row = [NoRow EXCEPT !.state = s]
             procurement == \E s \in {"AWAITING_APPROVAL", "EXECUTING"}, g \in {"MISSING", "STALE", "CONFIRMED"} :
                              row = [NoRow EXCEPT !.state = s, !.p2p = TRUE, !.goal = g]
  <2>1. /\ IsFunOn(row, RowFields) /\ row.asks = FALSE
        /\ row.p2p => row.state # "CREATED"
    <3>1. ordinary \/ procurement BY <1>1 DEF InitialRows
    <3>2. CASE ordinary BY <3>2 DEF NoRow, IsFunOn, RowFields
    <3>3. CASE procurement BY <3>3 DEF NoRow, IsFunOn, RowFields
    <3> HIDE DEF ordinary, procurement
    <3> QED BY <3>1, <3>2, <3>3
  <2> QED BY <1>1, <2>1 DEF RunSound
<1>3. PICK stage \in [Actions -> Stages] : GovernanceInit(stage) BY DEF RunsInit
<1>4. ASSUME NEW a \in Actions PROVE OpenReserved(a)
  <2>1. /\ actions[a] = Stored(a, stage[a])
        /\ reservations[a] = IF stage[a] # "uncertain" THEN Unreserved
                             ELSE [by |-> Approver(a), status |-> "RECONCILIATION_REQUIRED"]
    BY <1>3 DEF GovernanceInit
  <2>2. CASE stage[a] # "uncertain" BY <2>1, <2>2 DEF OpenReserved, Unreserved
  <2>3. CASE stage[a] = "uncertain"
    <3>1. actions[a].state = "APPROVED" BY <2>1, <2>3 DEF Stored
    <3> QED BY <3>1 DEF OpenReserved
  <2> QED BY <2>2, <2>3
<1>5. \A c \in Calls : CallTrue(calls[c]) BY <1>3, IdleTrue DEF GovernanceInit
<1>6. ASSUME NEW p \in Kinds PROVE ViewTrue(views[p]) /\ BusyWaits(p) /\ LoadingWaits(views[p])
  <2>1. views[p] = Empty BY DEF RunsInit, PageInit
  <2>2. /\ Empty.cards = {} /\ Empty.row = NoRow /\ Empty.answers = {} /\ Empty.asked = 0
        /\ Empty.busy = {} /\ Empty.loading = FALSE
    BY DEF Empty
  <2> QED BY <2>1, <2>2, NoRowTrue DEF ViewTrue, BusyWaits, LoadingWaits
<1> QED BY <1>2, <1>4, <1>5, <1>6 DEF PageInv

---------------------------------------------------------------------------
(***************************************************************************)
(* The pages a Run is asked for.                                           *)
(***************************************************************************)
DialogFields == {"open", "busy", "at", "question", "company", "run", "capability", "doc", "answer", "shown"}
FormFields == {"fields", "scope", "enabled", "at", "sent", "submits", "coached"}
NameFields == {"company", "warehouse", "purpose", "type", "name"}

\* The Runs made, each for what it was asked
Made == [company : DOMAIN Scope, goal : Questions \cup {Ask!NoText}]
RunsSound == runs \in Seq(Made)

\* An answer is of a Run that was made for its question and for the company of its document
AnswerTrue(answer) ==
  answer # Ask!NoAnswer =>
    /\ answer.run \in 1 .. Len(runs)
    /\ runs[answer.run].goal = answer.question
    /\ runs[answer.run].company = Documents[answer.doc].company
\* At rest, a dialog has forgotten its request and shows an answer to its question; a Run issued
\* to it is one that was made for that question
DialogSound(x) ==
  /\ IsFunOn(x, DialogFields) /\ x.question \in Questions \cup {Ask!NoText}
  /\ x.capability => x.busy
  /\ ~x.open => ~x.busy
  /\ ~x.busy => x.at = "idle" /\ x.answer = Ask!NoAnswer /\ (x.shown # Ask!NoAnswer => x.shown.question = x.question)
  /\ x.run \in 0 .. Len(runs)
  /\ x.at \in {"issued", "asking"} => x.run # 0 /\ runs[x.run].goal = x.question
  /\ x.answer # Ask!NoAnswer => x.answer.question = x.question
  /\ AnswerTrue(x.answer) /\ AnswerTrue(x.shown)
\* Each dialog has a Run of its own
OwnRun(d) == \A e \in Dialogs \ {d} : dialogs[d].run # 0 => dialogs[e].run # dialogs[d].run
DialogsSound == IsFunOn(dialogs, Dialogs) /\ \A d \in Dialogs : DialogSound(dialogs[d]) /\ OwnRun(d)

\* No warehouse without a company that has it
Fits(f) == f.warehouse # Ask!NoText => f.warehouse \in Scope[f.company]
FormSound(f) ==
  /\ IsFunOn(f, FormFields) /\ IsFunOn(f.fields, NameFields)
  /\ Fits(f.fields)
  /\ f.scope # "known" => f.fields.company = Ask!NoText /\ f.fields.warehouse = Ask!NoText
  /\ f.at = "sent" => Fits(f.sent)
  /\ ~f.enabled => f.at # "idle" \/ f.scope = "none" \/ f.coached
\* Without dialogs, the Runs are those the form was submitted for, but one that is on its way
Counted(f) ==
  /\ f.submits \in Nat
  /\ (\A d \in Dialogs : ~dialogs[d].open) => Len(runs) + (IF f.at = "sent" THEN 1 ELSE 0) <= f.submits

AskingInv == RunsSound /\ DialogsSound /\ FormSound(form) /\ Counted(form)

---------------------------------------------------------------------------
\* Runs are only added
RunsGrow == runs' \in Seq(Made) /\ Len(runs) <= Len(runs') /\ \A i \in 1 .. Len(runs) : runs'[i] = runs[i]

LEMMA DialogsStay ==
  ASSUME RunsSound, RunsGrow, NEW x, DialogSound(x)
  PROVE  DialogSound(x)'
<1>1. Len(runs) \in Nat /\ Len(runs') \in Nat BY DEF RunsSound, RunsGrow
<1>2. ASSUME NEW answer, AnswerTrue(answer) PROVE AnswerTrue(answer)'
  BY <1>1, <1>2 DEF AnswerTrue, RunsGrow, Ask!NoAnswer
<1>3. x.run \in 0 .. Len(runs') /\ (x.run # 0 => runs'[x.run] = runs[x.run]) BY <1>1 DEF DialogSound, RunsGrow
<1>4. AnswerTrue(x.answer)' /\ AnswerTrue(x.shown)' BY <1>2 DEF DialogSound
<1> QED BY <1>3, <1>4 DEF DialogSound, IsFunOn, DialogFields, Ask!NoAnswer

LEMMA Grown ==
  ASSUME RunsSound, NEW company \in DOMAIN Scope, NEW goal \in Questions \cup {Ask!NoText}, Ask!Issue(company, goal)
  PROVE  /\ RunsGrow /\ RunsSound' /\ Len(runs) \in Nat /\ Len(runs') = Len(runs) + 1
         /\ runs'[Len(runs) + 1] = [company |-> company, goal |-> goal]
<1> DEFINE r == [company |-> company, goal |-> goal]
<1>1. r \in Made BY DEF Made
<1>2. runs' = Append(runs, r) BY DEF Ask!Issue
<1>3. r.goal = goal OBVIOUS
<1> HIDE DEF r
<1>4. /\ runs' \in Seq(Made) /\ Len(runs') = Len(runs) + 1 /\ Len(runs) \in Nat
      /\ runs'[Len(runs) + 1] = r /\ \A i \in 1 .. Len(runs) : runs'[i] = runs[i]
  BY <1>1, <1>2 DEF RunsSound
<1> QED BY <1>4 DEF RunsGrow, RunsSound, r

\* One dialog changes, which may have been given the newest Run
LEMMA OneDialog ==
  ASSUME AskingInv, NEW d \in Dialogs, NEW x, Ask!Set(d, x), UNCHANGED form, RunsGrow, DialogSound(x)',
         x.open, x.run \in {0, dialogs[d].run} \/ x.run = Len(runs) + 1
  PROVE  AskingInv'
<1>1. IsFunOn(dialogs, Dialogs) /\ Len(runs) \in Nat BY DEF AskingInv, DialogsSound, RunsSound
<1>2. dialogs' = [dialogs EXCEPT ![d] = x] BY DEF Ask!Set
<1>3. IsFunOn(dialogs', Dialogs) /\ dialogs'[d] = x /\ \A e \in Dialogs : e # d => dialogs'[e] = dialogs[e]
  BY <1>1, <1>2 DEF IsFunOn
<1>4. \A e \in Dialogs : DialogSound(dialogs[e]) /\ OwnRun(e) BY DEF AskingInv, DialogsSound
<1>5. \A e \in Dialogs : dialogs[e].run \in 0 .. Len(runs) BY <1>4 DEF DialogSound
<1>6. ASSUME NEW e \in Dialogs PROVE DialogSound(dialogs[e])'
  <2>1. CASE e = d
    <3>1. dialogs'[e] = x BY <1>3, <2>1
    <3> QED BY <3>1 DEF DialogSound, AnswerTrue, IsFunOn
  <2>2. CASE e # d
    <3>1. dialogs'[e] = dialogs[e] BY <1>3, <2>2
    <3>2. DialogSound(dialogs[e]) /\ RunsSound BY <1>4 DEF AskingInv
    <3> DEFINE y == dialogs[e]
    <3>3. DialogSound(y) BY <3>2
    <3> HIDE DEF y
    <3> QED BY <3>1, <3>2, DialogsStay DEF y
  <2> QED BY <2>1, <2>2
<1>7. ASSUME NEW e \in Dialogs, NEW f \in Dialogs \ {e}, dialogs'[e].run # 0 PROVE dialogs'[f].run # dialogs'[e].run
  <2>1. dialogs[e].run # 0 => dialogs[f].run # dialogs[e].run BY <1>4 DEF OwnRun
  <2>2. dialogs[f].run # 0 => dialogs[e].run # dialogs[f].run BY <1>4 DEF OwnRun
  <2>3. dialogs[e].run \in 0 .. Len(runs) /\ dialogs[f].run \in 0 .. Len(runs) BY <1>5
  <2>4. CASE e = d
    <3>1. dialogs'[e] = x /\ dialogs'[f] = dialogs[f] BY <1>3, <2>4
    <3> QED BY <1>1, <1>7, <2>1, <2>3, <2>4, <3>1
  <2>5. CASE f = d
    <3>1. dialogs'[f] = x /\ dialogs'[e] = dialogs[e] BY <1>3, <2>5
    <3> QED BY <1>1, <1>7, <2>1, <2>2, <2>3, <2>5, <3>1
  <2>6. CASE e # d /\ f # d
    <3>1. dialogs'[f] = dialogs[f] /\ dialogs'[e] = dialogs[e] BY <1>3, <2>6
    <3> QED BY <1>7, <2>1, <3>1
  <2> QED BY <2>4, <2>5, <2>6
<1>8. DialogsSound' BY <1>3, <1>6, <1>7 DEF DialogsSound, OwnRun, IsFunOn
<1>9. FormSound(form)' BY DEF AskingInv, FormSound, Fits, IsFunOn
<1>10. dialogs'[d].open BY <1>3
<1>11. Counted(form)' BY <1>10 DEF AskingInv, Counted
<1> QED BY <1>8, <1>9, <1>11 DEF AskingInv, RunsGrow, RunsSound

LEMMA SameRuns == ASSUME RunsSound, UNCHANGED runs PROVE RunsGrow /\ \A x : DialogSound(x) => DialogSound(x)'
<1>1. RunsGrow BY DEF RunsSound, RunsGrow
<1> QED BY <1>1, DialogsStay

\* A dialog whose request is over shows what it is told to, an answer to its question or none
LEMMA FinishedSound ==
  ASSUME RunsSound, NEW x, DialogSound(x), NEW s, AnswerTrue(s), s # Ask!NoAnswer => s.question = x.question
  PROVE  LET y == [Ask!Finished(x) EXCEPT !.shown = s] IN DialogSound(y) /\ y.open /\ y.run = 0
<1> DEFINE y == [Ask!Finished(x) EXCEPT !.shown = s]
<1>1. /\ IsFunOn(y, DialogFields) /\ y.open /\ ~y.busy /\ y.at = "idle" /\ y.question = x.question
      /\ y.run = 0 /\ ~y.capability /\ y.answer = Ask!NoAnswer /\ y.shown = s
  BY DEF Ask!Finished, Ask!Closed, IsFunOn, DialogFields
<1> HIDE DEF y
<1>2. AnswerTrue(y.answer) /\ AnswerTrue(y.shown) BY <1>1 DEF AnswerTrue
<1>3. Len(runs) \in Nat /\ y.run \in 0 .. Len(runs) BY <1>1 DEF RunsSound
<1>4. y.question \in Questions \cup {Ask!NoText} BY <1>1 DEF DialogSound
<1>5. DialogSound(y) BY <1>1, <1>2, <1>3, <1>4 DEF DialogSound
<1> QED BY <1>1, <1>5 DEF y

LEMMA OpenDialogKeeps == ASSUME AskingInv, NEW d \in Dialogs, Ask!OpenDialog(d) PROVE AskingInv'
<1> DEFINE y == [Ask!Closed EXCEPT !.open = TRUE]
<1>1. Ask!Set(d, y) /\ UNCHANGED <<form, runs>> BY DEF Ask!OpenDialog
<1>2. /\ IsFunOn(y, DialogFields) /\ y.open /\ ~y.busy /\ y.at = "idle" /\ y.question = Ask!NoText
      /\ y.run = 0 /\ ~y.capability /\ y.answer = Ask!NoAnswer /\ y.shown = Ask!NoAnswer
  BY DEF Ask!Closed, IsFunOn, DialogFields
<1> HIDE DEF y
<1>3. AnswerTrue(y.answer) /\ AnswerTrue(y.shown) BY <1>2 DEF AnswerTrue
<1>4. Len(runs) \in Nat /\ y.run \in 0 .. Len(runs) BY <1>2 DEF RunsSound, AskingInv
<1>5. DialogSound(y) BY <1>2, <1>3, <1>4 DEF DialogSound
<1>6. RunsGrow /\ DialogSound(y)' BY <1>1, <1>5, SameRuns DEF AskingInv
<1> QED BY <1>1, <1>2, <1>6, OneDialog

LEMMA SubmitKeeps ==
  ASSUME AskingInv, NEW d \in Dialogs, NEW question \in Questions, Ask!Submit(d, question)
  PROVE  AskingInv'
<1>1. PICK x : x = dialogs[d] OBVIOUS
<1>2. PICK y : y = [x EXCEPT !.busy = TRUE, !.at = "issuing", !.question = question,
                             !.company = Documents[desk.doc].company]
  OBVIOUS
<1>3. Ask!Set(d, y) /\ UNCHANGED <<form, runs>> /\ x.open /\ ~x.busy BY <1>1, <1>2 DEF Ask!Submit
<1>4. DialogSound(x) /\ RunsSound BY <1>1 DEF AskingInv, DialogsSound
<1>5. /\ IsFunOn(y, DialogFields) /\ y.open = x.open /\ y.busy /\ y.at = "issuing" /\ y.question = question
      /\ y.run = x.run /\ y.answer = x.answer /\ y.shown = x.shown
  BY <1>2, <1>4 DEF DialogSound, IsFunOn, DialogFields
<1>6. x.answer = Ask!NoAnswer BY <1>3, <1>4 DEF DialogSound
<1>7. AnswerTrue(y.answer) /\ AnswerTrue(y.shown) /\ y.run \in 0 .. Len(runs) BY <1>4, <1>5 DEF DialogSound
<1>8. DialogSound(y) BY <1>3, <1>5, <1>6, <1>7 DEF DialogSound
<1>9. RunsGrow /\ DialogSound(y)' BY <1>3, <1>4, <1>8, SameRuns
<1>10. y.open /\ y.run \in {0, dialogs[d].run} BY <1>1, <1>3, <1>5
<1> QED BY <1>3, <1>9, <1>10, OneDialog

\* A request of a dialog goes on, for the question it was made with
LEMMA AdvanceSound ==
  ASSUME NEW x, DialogSound(x), x.at # "idle", NEW y, IsFunOn(y, DialogFields), y.question = x.question,
         y.open = x.open, y.busy = x.busy, y.shown = x.shown, y.run = x.run,
         y.at \in {"issued", "asking"} => x.at \in {"issued", "asking"},
         y.answer = x.answer \/ (AnswerTrue(y.answer) /\ y.answer.question = x.question)
  PROVE  DialogSound(y) /\ y.open /\ y.run = x.run
<1>1. x.busy /\ x.open BY DEF DialogSound
<1>2. y.busy /\ y.open BY <1>1
<1>3. AnswerTrue(y.answer) /\ (y.answer # Ask!NoAnswer => y.answer.question = y.question) BY DEF DialogSound
<1>4. /\ y.question \in Questions \cup {Ask!NoText} /\ AnswerTrue(y.shown) /\ y.run \in 0 .. Len(runs)
      /\ y.at \in {"issued", "asking"} => y.run # 0 /\ runs[y.run].goal = y.question
  BY DEF DialogSound
<1> QED BY <1>2, <1>3, <1>4 DEF DialogSound

LEMMA RefusedSound ==
  ASSUME NEW x, DialogSound(x), x.at # "idle", NEW y, y = [x EXCEPT !.at = "refused"]
  PROVE  DialogSound(y) /\ y.open /\ y.run = x.run
<1>1. /\ IsFunOn(y, DialogFields) /\ y.open = x.open /\ y.busy = x.busy /\ y.at = "refused"
      /\ y.question = x.question /\ y.run = x.run /\ y.answer = x.answer /\ y.shown = x.shown
  BY DEF DialogSound, IsFunOn, DialogFields
<1> QED BY <1>1, AdvanceSound

\* A dialog changes, no Run is made
LEMMA DialogKeeps ==
  ASSUME AskingInv, NEW d \in Dialogs, NEW y, Ask!Set(d, y), UNCHANGED <<form, runs>>,
         DialogSound(y), y.open, y.run \in {0, dialogs[d].run}
  PROVE  AskingInv'
<1>1. RunsGrow /\ DialogSound(y)' BY SameRuns DEF AskingInv
<1> QED BY <1>1, OneDialog

LEMMA ServeIssueKeeps == ASSUME AskingInv, NEW d \in Dialogs, Ask!ServeIssue(d) PROVE AskingInv'
<1>1. PICK x : x = dialogs[d] OBVIOUS
<1>2. x.at = "issuing" /\ UNCHANGED form BY <1>1 DEF Ask!ServeIssue
<1>3. DialogSound(x) /\ RunsSound BY <1>1 DEF AskingInv, DialogsSound
<1>4. CASE /\ x.company \in DOMAIN Scope /\ Ask!Issue(x.company, x.question)
           /\ Ask!Set(d, [x EXCEPT !.at = "issued", !.run = Len(runs) + 1])
  <2>1. PICK y : y = [x EXCEPT !.at = "issued", !.run = Len(runs) + 1] OBVIOUS
  <2>2. /\ IsFunOn(y, DialogFields) /\ y.open = x.open /\ y.busy = x.busy /\ y.at = "issued"
        /\ y.question = x.question /\ y.answer = x.answer /\ y.shown = x.shown /\ y.run = Len(runs) + 1
    BY <1>3, <2>1 DEF DialogSound, IsFunOn, DialogFields
  <2>3. PICK company \in DOMAIN Scope, goal \in Questions \cup {Ask!NoText} :
          company = x.company /\ goal = x.question /\ Ask!Issue(company, goal)
    BY <1>3, <1>4 DEF DialogSound
  <2>4. /\ RunsGrow /\ Len(runs) \in Nat /\ Len(runs') = Len(runs) + 1
        /\ runs'[y.run] = [company |-> company, goal |-> goal]
    BY <1>3, <2>2, <2>3, Grown
  <2>5. DialogSound(x)' BY <1>3, <2>4, DialogsStay
  <2>6. x.busy /\ x.open BY <1>2, <1>3 DEF DialogSound
  <2>7. y.run \in 0 .. Len(runs') /\ y.run # 0 /\ runs'[y.run].goal = y.question
    BY <2>2, <2>3, <2>4
  <2>8. DialogSound(y)' BY <2>2, <2>5, <2>6, <2>7 DEF DialogSound, AnswerTrue, IsFunOn
  <2>9. Ask!Set(d, y) BY <1>4, <2>1
  <2> QED BY <1>2, <2>2, <2>4, <2>6, <2>8, <2>9, OneDialog
<1>5. CASE Ask!Set(d, [x EXCEPT !.at = "refused"]) /\ UNCHANGED runs
  <2>1. PICK y : y = [x EXCEPT !.at = "refused"] OBVIOUS
  <2>2. DialogSound(y) /\ y.open /\ y.run = x.run BY <1>2, <1>3, <2>1, RefusedSound
  <2> QED BY <1>1, <1>2, <1>5, <2>1, <2>2, DialogKeeps
<1> QED BY <1>1, <1>4, <1>5 DEF Ask!ServeIssue

LEMMA IssuedKeeps == ASSUME AskingInv, NEW d \in Dialogs, Ask!Issued(d) PROVE AskingInv'
<1>1. PICK x : x = dialogs[d] OBVIOUS
<1>2. PICK y : y = [x EXCEPT !.at = "asking", !.capability = TRUE, !.doc = desk.doc] OBVIOUS
<1>3. x.at = "issued" /\ Ask!Set(d, y) /\ UNCHANGED <<form, runs>> BY <1>1, <1>2 DEF Ask!Issued
<1>4. DialogSound(x) BY <1>1 DEF AskingInv, DialogsSound
<1>5. /\ IsFunOn(y, DialogFields) /\ y.open = x.open /\ y.busy = x.busy
      /\ y.question = x.question /\ y.run = x.run /\ y.answer = x.answer /\ y.shown = x.shown
  BY <1>2, <1>4 DEF DialogSound, IsFunOn, DialogFields
<1>6. DialogSound(y) /\ y.open /\ y.run = x.run BY <1>3, <1>4, <1>5, AdvanceSound
<1> QED BY <1>1, <1>3, <1>6, DialogKeeps

LEMMA ServeAskKeeps == ASSUME AskingInv, NEW d \in Dialogs, Ask!ServeAsk(d) PROVE AskingInv'
<1>1. PICK x : x = dialogs[d] OBVIOUS
<1>2. x.at = "asking" /\ UNCHANGED <<form, runs>> BY <1>1 DEF Ask!ServeAsk
<1>3. DialogSound(x) /\ RunsSound BY <1>1 DEF AskingInv, DialogsSound
<1> DEFINE given == [question |-> x.question, run |-> x.run, doc |-> x.doc]
<1>4. CASE Documents[x.doc].company = runs[x.run].company /\ Ask!Set(d, [x EXCEPT !.at = "answered", !.answer = given])
  <2>1. PICK y : y = [x EXCEPT !.at = "answered", !.answer = given] OBVIOUS
  <2>2. /\ IsFunOn(y, DialogFields) /\ y.open = x.open /\ y.busy = x.busy /\ y.at = "answered"
        /\ y.question = x.question /\ y.run = x.run /\ y.answer = given /\ y.shown = x.shown
    BY <1>3, <2>1 DEF DialogSound, IsFunOn, DialogFields
  <2>3. x.run \in 1 .. Len(runs) /\ runs[x.run].goal = x.question BY <1>2, <1>3 DEF DialogSound, RunsSound
  <2>4. AnswerTrue(given) /\ given.question = x.question BY <1>4, <2>3 DEF AnswerTrue
  <2>5. DialogSound(y) /\ y.open /\ y.run = x.run BY <1>2, <1>3, <2>2, <2>4, AdvanceSound
  <2> QED BY <1>1, <1>2, <1>4, <2>1, <2>5, DialogKeeps
<1>5. CASE Ask!Set(d, [x EXCEPT !.at = "refused"])
  <2>1. PICK y : y = [x EXCEPT !.at = "refused"] OBVIOUS
  <2>2. DialogSound(y) /\ y.open /\ y.run = x.run BY <1>2, <1>3, <2>1, RefusedSound
  <2> QED BY <1>1, <1>2, <1>5, <2>1, <2>2, DialogKeeps
<1> QED BY <1>1, <1>4, <1>5 DEF Ask!ServeAsk

LEMMA AnsweredKeeps == ASSUME AskingInv, NEW d \in Dialogs, Ask!Answered(d) PROVE AskingInv'
<1>1. PICK x : x = dialogs[d] OBVIOUS
<1>2. PICK s : s = x.answer OBVIOUS
<1>3. PICK y : y = [Ask!Finished(x) EXCEPT !.shown = s] OBVIOUS
<1>4. Ask!Set(d, y) /\ UNCHANGED <<form, runs>> BY <1>1, <1>2, <1>3 DEF Ask!Answered
<1>5. DialogSound(x) /\ RunsSound BY <1>1 DEF AskingInv, DialogsSound
<1>6. AnswerTrue(s) /\ (s # Ask!NoAnswer => s.question = x.question) BY <1>2, <1>5 DEF DialogSound
<1>7. DialogSound(y) /\ y.open /\ y.run = 0 BY <1>3, <1>5, <1>6, FinishedSound
<1> QED BY <1>4, <1>7, DialogKeeps

LEMMA DialogFailsKeeps == ASSUME AskingInv, NEW d \in Dialogs, Ask!DialogFails(d) PROVE AskingInv'
<1>1. PICK x : x = dialogs[d] OBVIOUS
<1>2. PICK s : s = Ask!NoAnswer OBVIOUS
<1>3. PICK y : y = [Ask!Finished(x) EXCEPT !.shown = s] OBVIOUS
<1>4. Ask!Set(d, y) /\ UNCHANGED <<form, runs>> BY <1>1, <1>2, <1>3 DEF Ask!DialogFails, Ask!Failed
<1>5. DialogSound(x) /\ RunsSound BY <1>1 DEF AskingInv, DialogsSound
<1>6. AnswerTrue(s) BY <1>2 DEF AnswerTrue
<1>7. DialogSound(y) /\ y.open /\ y.run = 0 BY <1>2, <1>3, <1>5, <1>6, FinishedSound
<1> QED BY <1>4, <1>7, DialogKeeps

\* The form changes, and maybe a Run is added
LEMMA FormKeeps ==
  ASSUME AskingInv, NEW f, Ask!SetForm(f), RunsGrow, FormSound(f), f.submits \in Nat,
         (\A d \in Dialogs : ~dialogs[d].open) => Len(runs') + (IF f.at = "sent" THEN 1 ELSE 0) <= f.submits
  PROVE  AskingInv'
<1>1. form' = f /\ UNCHANGED dialogs BY DEF Ask!SetForm
<1>2. ASSUME NEW d \in Dialogs PROVE DialogSound(dialogs[d])' /\ OwnRun(d)'
  <2>1. PICK x : x = dialogs[d] OBVIOUS
  <2>2. DialogSound(x) /\ RunsSound BY <2>1 DEF AskingInv, DialogsSound
  <2>3. DialogSound(x)' BY <2>2, DialogsStay
  <2>4. dialogs'[d] = x BY <1>1, <2>1
  <2>5. DialogSound(dialogs[d])' BY <2>3, <2>4 DEF DialogSound, AnswerTrue, IsFunOn
  <2>6. OwnRun(d)' BY <1>1 DEF AskingInv, DialogsSound, OwnRun
  <2> QED BY <2>5, <2>6
<1>3. DialogsSound' BY <1>1, <1>2 DEF AskingInv, DialogsSound, IsFunOn
<1>4. FormSound(form)' BY <1>1 DEF FormSound, Fits, IsFunOn
<1>5. Counted(form)' BY <1>1 DEF Counted
<1> QED BY <1>3, <1>4, <1>5 DEF AskingInv, RunsGrow, RunsSound

LEMMA FormOnlyKeeps ==
  ASSUME AskingInv, NEW f, Ask!SetForm(f), UNCHANGED runs, FormSound(f), f.submits = form.submits,
         f.at = "sent" => form.at = "sent"
  PROVE  AskingInv'
<1>1. RunsGrow /\ Counted(form) BY SameRuns DEF AskingInv
<1>2. Len(runs) \in Nat /\ form.submits \in Nat BY DEF AskingInv, RunsSound, Counted
<1>3. (\A d \in Dialogs : ~dialogs[d].open) => Len(runs') + (IF f.at = "sent" THEN 1 ELSE 0) <= f.submits
  BY <1>1, <1>2 DEF Counted
<1> QED BY <1>1, <1>2, <1>3, FormKeeps

\* The form with what available_scope answered
WithScope(f, company) == [f EXCEPT !.scope = "known", !.fields.company = company]
WithoutScope(f) == [f EXCEPT !.scope = "none", !.enabled = FALSE]

LEMMA ScopeArrivesKeeps == ASSUME AskingInv, Ask!ScopeArrives PROVE AskingInv'
<1>1. PICK g : g = form OBVIOUS
<1>2. FormSound(g) /\ g.scope = "asked" /\ UNCHANGED runs BY <1>1 DEF AskingInv, Ask!ScopeArrives
<1>3. Ask!SetForm(WithScope(form, Ask!Chosen(form.fields.company))) \/ Ask!SetForm(WithoutScope(form))
  BY DEF Ask!ScopeArrives, WithScope, WithoutScope
<1>4. ASSUME NEW company, Ask!SetForm(WithScope(g, company))
      PROVE  AskingInv'
  <2>1. PICK fields : fields = [g.fields EXCEPT !.company = company] OBVIOUS
  <2>2. PICK f : f = [g EXCEPT !.scope = "known", !.fields = fields] OBVIOUS
  <2>3. IsFunOn(fields, NameFields) /\ fields.warehouse = g.fields.warehouse
    BY <1>2, <2>1 DEF FormSound, IsFunOn, NameFields
  <2>4. /\ IsFunOn(f, FormFields) /\ f.fields = fields /\ f.scope = "known" /\ f.enabled = g.enabled
        /\ f.at = g.at /\ f.sent = g.sent /\ f.submits = g.submits /\ f.coached = g.coached
    BY <1>2, <2>2 DEF FormSound, IsFunOn, FormFields
  <2>5. fields.warehouse = Ask!NoText BY <1>2, <2>3 DEF FormSound
  <2>6. Fits(f.fields) BY <2>4, <2>5 DEF Fits
  <2>7. FormSound(f) BY <1>2, <2>3, <2>4, <2>6 DEF FormSound
  <2>8. f = WithScope(g, company)
    BY <1>2, <2>1, <2>2 DEF WithScope, FormSound, IsFunOn, FormFields
  <2> QED BY <1>1, <1>2, <1>4, <2>4, <2>7, <2>8, FormOnlyKeeps
<1>5. CASE Ask!SetForm(WithoutScope(g))
  <2>1. PICK f : f = WithoutScope(g) OBVIOUS
  <2>2. /\ IsFunOn(f, FormFields) /\ f.fields = g.fields /\ f.scope = "none" /\ f.at = g.at /\ f.sent = g.sent
        /\ f.submits = g.submits
    BY <1>2, <2>1 DEF WithoutScope, FormSound, IsFunOn, FormFields
  <2>3. FormSound(f) BY <1>2, <2>2 DEF FormSound
  <2> QED BY <1>1, <1>2, <1>5, <2>1, <2>2, <2>3, FormOnlyKeeps
<1> QED BY <1>1, <1>3, <1>4, <1>5

\* What the user can make of the form keeps the warehouse one of the company's
LEMMA EditedSound ==
  ASSUME NEW g, g = form, FormSound(g), NEW fields \in Ask!Edited
  PROVE  /\ IsFunOn(fields, NameFields) /\ Fits(fields)
         /\ g.scope # "known" => fields.company = Ask!NoText /\ fields.warehouse = Ask!NoText
<1>1. PICK f : f = g.fields OBVIOUS
<1>2. /\ IsFunOn(f, NameFields) /\ Fits(f)
      /\ g.scope # "known" => f.company = Ask!NoText /\ f.warehouse = Ask!NoText
  BY <1>1 DEF FormSound
<1> DEFINE Sound == /\ IsFunOn(fields, NameFields) /\ Fits(fields)
                    /\ g.scope # "known" => fields.company = Ask!NoText /\ fields.warehouse = Ask!NoText
<1>3. ASSUME IsFunOn(fields, NameFields), fields.company = f.company, fields.warehouse = f.warehouse PROVE Sound
  BY <1>2, <1>3 DEF Fits
<1>4. ASSUME NEW p, fields = [f EXCEPT !.purpose = p] PROVE Sound
  <2>1. IsFunOn(fields, NameFields) /\ fields.company = f.company /\ fields.warehouse = f.warehouse
    BY <1>2, <1>4 DEF IsFunOn, NameFields
  <2> QED BY <2>1, <1>3
<1>5. ASSUME g.scope = "known", NEW c \in DOMAIN Scope, fields = Ask!WithCompany(f, c) PROVE Sound
  <2>1. IsFunOn(fields, NameFields) /\ fields.warehouse = Ask!NoText
    BY <1>2, <1>5 DEF Ask!WithCompany, IsFunOn, NameFields
  <2> QED BY <1>5, <2>1 DEF Fits
<1>6. ASSUME f.company # Ask!NoText, NEW w \in Scope[f.company] \cup {Ask!NoText}, fields = [f EXCEPT !.warehouse = w]
      PROVE  Sound
  <2>1. IsFunOn(fields, NameFields) /\ fields.company = f.company /\ fields.warehouse = w
    BY <1>2, <1>6 DEF IsFunOn, NameFields
  <2>2. g.scope = "known" BY <1>2, <1>6
  <2> QED BY <1>6, <2>1, <2>2 DEF Fits
<1>7. ASSUME NEW t, fields = Ask!WithType(f, t) PROVE Sound
  <2>1. IsFunOn(fields, NameFields) /\ fields.company = f.company /\ fields.warehouse = f.warehouse
    BY <1>2, <1>7 DEF Ask!WithType, IsFunOn, NameFields
  <2> QED BY <2>1, <1>3
<1>8. ASSUME NEW n, fields = [f EXCEPT !.name = n] PROVE Sound
  <2>1. IsFunOn(fields, NameFields) /\ fields.company = f.company /\ fields.warehouse = f.warehouse
    BY <1>2, <1>8 DEF IsFunOn, NameFields
  <2> QED BY <2>1, <1>3
<1> HIDE DEF Sound
<1>9. \/ \E p : fields = [f EXCEPT !.purpose = p]
      \/ g.scope = "known" /\ \E c \in DOMAIN Scope : fields = Ask!WithCompany(f, c)
      \/ f.company # Ask!NoText /\ \E w \in Scope[f.company] \cup {Ask!NoText} : fields = [f EXCEPT !.warehouse = w]
      \/ \E t : fields = Ask!WithType(f, t)
      \/ \E n : fields = [f EXCEPT !.name = n]
  BY <1>1 DEF Ask!Edited
<1>10. Sound BY <1>4, <1>5, <1>6, <1>7, <1>8, <1>9
<1> QED BY <1>10 DEF Sound

LEMMA EditKeeps == ASSUME AskingInv, NEW fields \in Ask!Edited, Ask!Edit(fields) PROVE AskingInv'
<1>1. PICK g : g = form OBVIOUS
<1>2. PICK f : f = [g EXCEPT !.fields = fields] OBVIOUS
<1>3. FormSound(g) /\ UNCHANGED runs /\ Ask!SetForm(f) BY <1>1, <1>2 DEF AskingInv, Ask!Edit
<1>4. /\ IsFunOn(fields, NameFields) /\ Fits(fields)
      /\ g.scope # "known" => fields.company = Ask!NoText /\ fields.warehouse = Ask!NoText
  BY <1>1, <1>3, EditedSound
<1>5. /\ IsFunOn(f, FormFields) /\ f.fields = fields /\ f.scope = g.scope /\ f.enabled = g.enabled
      /\ f.at = g.at /\ f.sent = g.sent /\ f.submits = g.submits /\ f.coached = g.coached
  BY <1>2, <1>3 DEF FormSound, IsFunOn, FormFields
<1>6. FormSound(f) BY <1>3, <1>4, <1>5 DEF FormSound
<1> QED BY <1>1, <1>3, <1>5, <1>6, FormOnlyKeeps

LEMMA SubmitFormKeeps == ASSUME AskingInv, Ask!SubmitForm PROVE AskingInv'
<1>1. PICK g : g = form OBVIOUS
<1>2. PICK f : f = [g EXCEPT !.enabled = FALSE, !.at = "sent", !.sent = g.fields, !.submits = g.submits + 1] OBVIOUS
<1>3. FormSound(g) /\ Counted(g) /\ UNCHANGED runs /\ Ask!SetForm(f)
  BY <1>1, <1>2 DEF AskingInv, Ask!SubmitForm
<1>4. /\ IsFunOn(f, FormFields) /\ f.fields = g.fields /\ f.scope = g.scope /\ f.at = "sent"
      /\ f.sent = g.fields /\ f.submits = g.submits + 1
  BY <1>2, <1>3 DEF FormSound, IsFunOn, FormFields
<1>5. FormSound(f) BY <1>3, <1>4 DEF FormSound
<1>6. Len(runs) \in Nat /\ g.submits \in Nat /\ RunsGrow BY <1>3, SameRuns DEF AskingInv, RunsSound, Counted
<1>7. f.submits \in Nat /\ ((\A d \in Dialogs : ~dialogs[d].open) => Len(runs') + (IF f.at = "sent" THEN 1 ELSE 0) <= f.submits)
  BY <1>3, <1>4, <1>6 DEF Counted
<1> QED BY <1>3, <1>5, <1>6, <1>7, FormKeeps

LEMMA ServeFormKeeps == ASSUME AskingInv, Ask!ServeForm PROVE AskingInv'
<1>1. PICK g : g = form OBVIOUS
<1>2. FormSound(g) /\ Counted(g) /\ RunsSound /\ g.at = "sent" BY <1>1 DEF AskingInv, Ask!ServeForm
<1>3. CASE Ask!MayStart(g.sent) /\ Ask!Issue(g.sent.company, Ask!NoText) /\ Ask!SetForm([g EXCEPT !.at = "made"])
  <2>1. PICK f : f = [g EXCEPT !.at = "made"] OBVIOUS
  <2>2. /\ IsFunOn(f, FormFields) /\ f.fields = g.fields /\ f.scope = g.scope /\ f.at = "made" /\ f.submits = g.submits
    BY <1>2, <2>1 DEF FormSound, IsFunOn, FormFields
  <2>3. FormSound(f) BY <1>2, <2>2 DEF FormSound
  <2>4. PICK company \in DOMAIN Scope, goal \in Questions \cup {Ask!NoText} : Ask!Issue(company, goal)
    BY <1>3 DEF Ask!MayStart
  <2>5. RunsGrow /\ Len(runs) \in Nat /\ Len(runs') = Len(runs) + 1 BY <1>2, <2>4, Grown
  <2>6. f.submits \in Nat /\ ((\A d \in Dialogs : ~dialogs[d].open) => Len(runs') + (IF f.at = "sent" THEN 1 ELSE 0) <= f.submits)
    BY <1>2, <2>2, <2>5 DEF Counted
  <2> QED BY <1>3, <2>1, <2>3, <2>5, <2>6, FormKeeps
<1>4. CASE Ask!SetForm([g EXCEPT !.at = "refused"]) /\ UNCHANGED runs
  <2>1. PICK f : f = [g EXCEPT !.at = "refused"] OBVIOUS
  <2>2. /\ IsFunOn(f, FormFields) /\ f.fields = g.fields /\ f.scope = g.scope /\ f.at = "refused" /\ f.submits = g.submits
    BY <1>2, <2>1 DEF FormSound, IsFunOn, FormFields
  <2>3. FormSound(f) BY <1>2, <2>2 DEF FormSound
  <2> QED BY <1>1, <1>4, <2>1, <2>2, <2>3, FormOnlyKeeps
<1> QED BY <1>1, <1>3, <1>4 DEF Ask!ServeForm

\* The callbacks: the form rests, and its button is back or a Coach Run was started
LEMMA RestKeeps ==
  ASSUME AskingInv, UNCHANGED runs, NEW g, g = form, NEW f, Ask!SetForm(f), IsFunOn(f, FormFields),
         f.fields = g.fields, f.scope = g.scope, f.at = "idle", f.submits = g.submits, f.enabled \/ f.coached
  PROVE  AskingInv'
<1>1. FormSound(g) BY DEF AskingInv
<1>2. FormSound(f) BY <1>1 DEF FormSound
<1> QED BY <1>2, FormOnlyKeeps

LEMMA FormRestsKeeps == ASSUME AskingInv, Ask!FormAnswered \/ Ask!FormFails PROVE AskingInv'
<1>1. PICK g : g = form OBVIOUS
<1>2. FormSound(g) /\ UNCHANGED runs BY <1>1 DEF AskingInv, Ask!FormAnswered, Ask!FormFails
<1>3. CASE Ask!SetForm([g EXCEPT !.at = "idle", !.sent = Ask!Blank, !.coached = TRUE])
  <2>1. PICK f : f = [g EXCEPT !.at = "idle", !.sent = Ask!Blank, !.coached = TRUE] OBVIOUS
  <2>2. /\ IsFunOn(f, FormFields) /\ f.fields = g.fields /\ f.scope = g.scope /\ f.at = "idle" /\ f.submits = g.submits
        /\ f.coached
    BY <1>2, <2>1 DEF FormSound, IsFunOn, FormFields
  <2> QED BY <1>1, <1>2, <1>3, <2>1, <2>2, RestKeeps
<1>4. CASE Ask!SetForm([g EXCEPT !.at = "idle", !.sent = Ask!Blank, !.enabled = TRUE])
  <2>1. PICK f : f = [g EXCEPT !.at = "idle", !.sent = Ask!Blank, !.enabled = TRUE] OBVIOUS
  <2>2. /\ IsFunOn(f, FormFields) /\ f.fields = g.fields /\ f.scope = g.scope /\ f.at = "idle" /\ f.submits = g.submits
        /\ f.enabled
    BY <1>2, <2>1 DEF FormSound, IsFunOn, FormFields
  <2> QED BY <1>1, <1>2, <1>4, <2>1, <2>2, RestKeeps
<1> QED BY <1>1, <1>3, <1>4 DEF Ask!FormAnswered, Ask!FormFails

LEMMA AskingStays == ASSUME AskingInv, UNCHANGED <<dialogs, form, runs>> PROVE AskingInv'
BY DEF AskingInv, RunsSound, DialogsSound, DialogSound, AnswerTrue, OwnRun, FormSound, Fits, Counted, IsFunOn

LEMMA AskingKeeps == ASSUME AskingInv, Ask!DialogStep \/ Ask!FormStep PROVE AskingInv'
<1>1. ASSUME NEW doc, NEW saved, Ask!Move(doc, saved) PROVE AskingInv' BY <1>1, AskingStays DEF Ask!Move
<1>2. ASSUME NEW d \in Dialogs, Ask!OpenDialog(d) PROVE AskingInv' BY <1>2, OpenDialogKeeps
<1>3. ASSUME NEW d \in Dialogs, NEW question \in Questions, Ask!Submit(d, question) PROVE AskingInv'
  BY <1>3, SubmitKeeps
<1>4. ASSUME NEW d \in Dialogs, Ask!ServeIssue(d) PROVE AskingInv' BY <1>4, ServeIssueKeeps
<1>5. ASSUME NEW d \in Dialogs, Ask!Issued(d) PROVE AskingInv' BY <1>5, IssuedKeeps
<1>6. ASSUME NEW d \in Dialogs, Ask!ServeAsk(d) PROVE AskingInv' BY <1>6, ServeAskKeeps
<1>7. ASSUME NEW d \in Dialogs, Ask!Answered(d) PROVE AskingInv' BY <1>7, AnsweredKeeps
<1>8. ASSUME NEW d \in Dialogs, Ask!DialogFails(d) PROVE AskingInv' BY <1>8, DialogFailsKeeps
<1>9. CASE Ask!DialogStep BY <1>1, <1>2, <1>3, <1>4, <1>5, <1>6, <1>7, <1>8, <1>9 DEF Ask!DialogStep
<1>10. CASE Ask!FormStep
  BY <1>10, ScopeArrivesKeeps, EditKeeps, SubmitFormKeeps, ServeFormKeeps, FormRestsKeeps DEF Ask!FormStep
<1> QED BY <1>9, <1>10

LEMMA AskingStarts == ASSUME NEW doc, Ask!AskingInit(doc) PROVE AskingInv
<1>1. dialogs = [d \in Dialogs |-> Ask!Closed] /\ form = Ask!Fresh /\ runs = <<>> BY DEF Ask!AskingInit
<1>2. RunsSound /\ Len(runs) = 0 BY <1>1 DEF RunsSound
<1>3. DialogSound(Ask!Closed)
  <2>1. AnswerTrue(Ask!NoAnswer) BY DEF AnswerTrue
  <2>2. 0 \in 0 .. Len(runs) BY <1>2
  <2> DEFINE x == Ask!Closed
  <2>3. /\ IsFunOn(x, DialogFields) /\ ~x.busy /\ ~x.capability /\ x.at = "idle" /\ x.question = Ask!NoText
        /\ x.run = 0 /\ x.answer = Ask!NoAnswer /\ x.shown = Ask!NoAnswer
    BY DEF Ask!Closed, IsFunOn, DialogFields
  <2> HIDE DEF x
  <2>4. DialogSound(x) BY <2>1, <2>2, <2>3 DEF DialogSound
  <2> QED BY <2>4 DEF x
<1>4. Ask!Closed.run = 0 BY DEF Ask!Closed
<1>5. DialogsSound BY <1>1, <1>3, <1>4 DEF DialogsSound, OwnRun, IsFunOn
<1>6. FormSound(Ask!Fresh)
  BY DEF FormSound, Ask!Fresh, Ask!Blank, Fits, IsFunOn, FormFields, NameFields
<1>7. Ask!Fresh.submits = 0 /\ Ask!Fresh.at = "idle" BY DEF Ask!Fresh
<1>8. Counted(form) BY <1>1, <1>2, <1>7 DEF Counted
<1> QED BY <1>1, <1>2, <1>5, <1>6, <1>8 DEF AskingInv

---------------------------------------------------------------------------
(***************************************************************************)
(* The pages.                                                              *)
(***************************************************************************)
LEMMA PageStaysTrue == ASSUME PageInv, UNCHANGED <<governance, page>> PROVE PageInv'
<1>1. UNCHANGED <<actions, approvals, reservations, calls, run, views>> BY DEF governance, page
<1>2. \A c \in Calls : CallTrue(calls'[c]) BY <1>1 DEF PageInv
<1>3. ASSUME NEW p \in Kinds PROVE ViewTrue(views'[p]) /\ LoadingWaits(views'[p]) /\ BusyMovesOn(p)
  <2>1. ViewTrue(views'[p]) /\ LoadingWaits(views'[p]) BY <1>1 DEF PageInv
  <2>2. BusyMovesOn(p) BY <1>1, SameBusy
  <2> QED BY <2>1, <2>2
<1> QED BY <1>1, <1>2, <1>3, PageStep

LEMMA PageMovesTrue == ASSUME GovernanceInv, PageInv, [RunsNext]_<<governance, page>> PROVE PageInv'
<1>1. CASE PageNext BY <1>1, PageNextTrue
<1>2. CASE ServerNext /\ UNCHANGED page BY <1>2, ServerKeepsPage
<1>3. CASE UNCHANGED <<governance, page>> BY <1>3, PageStaysTrue
<1> QED BY <1>1, <1>2, <1>3 DEF RunsNext

\* What the page of a Run shows is what the server recorded; what it waits for will come
LEMMA PageIsHonest == ASSUME GovernanceInv, PageInv PROVE PageAnswers /\ NoFalseSuccess
<1>1. PageAnswers BY DEF PageInv, BusyWaits, LoadingWaits, GivesBack, PageAnswers
<1>2. ASSUME NEW p \in Kinds,
             NEW shown \in views[p].answers \cup {[cards |-> views[p].cards, row |-> views[p].row]}
      PROVE  ShownTrue(shown)
  <2>1. ViewTrue(views[p]) BY DEF PageInv
  <2>2. CASE shown \in views[p].answers BY <2>1, <2>2 DEF ViewTrue
  <2>3. CASE shown = [cards |-> views[p].cards, row |-> views[p].row]
    <3>1. shown.cards = views[p].cards /\ shown.row = views[p].row BY <2>3
    <3> QED BY <2>1, <3>1 DEF ViewTrue, ShownTrue
  <2> QED BY <2>2, <2>3
<1>3. ASSUME NEW shown, ShownTrue(shown)
      PROVE  /\ Terminal(shown.row) => run.state = shown.row.state
             /\ \A card \in shown.cards :
                  /\ card.content = actions[card.action].content
                  /\ card.state \in {"EXECUTED", "DECLINED", "EXPIRED"} => actions[card.action].state = card.state
                  /\ card.state = "APPROVED" => Allowing(card.action) # Nobody
  <2>1. Terminal(shown.row) => run.state = shown.row.state BY <1>3 DEF ShownTrue, RowTrue
  <2>2. ASSUME NEW card \in shown.cards, card.state = "APPROVED" PROVE Allowing(card.action) # Nobody
    <3>1. card.action \in Actions /\ Allows(card.action) # {} BY <1>3, <2>2 DEF ShownTrue, CardTrue
    <3>2. VerdictSound(card.action) BY <3>1 DEF GovernanceInv, RecordsSound
    <3> QED BY <3>1, <3>2, AllowingIsUser
  <2>3. ASSUME NEW card \in shown.cards
        PROVE  /\ card.content = actions[card.action].content
               /\ card.state \in {"EXECUTED", "DECLINED", "EXPIRED"} => actions[card.action].state = card.state
    BY <1>3 DEF ShownTrue, CardTrue, Ended
  <2> QED BY <2>1, <2>2, <2>3
<1>4. NoFalseSuccess BY <1>2, <1>3 DEF NoFalseSuccess
<1> QED BY <1>1, <1>4

\* What a dialog shows is the answer to its question, and the form's button comes back
LEMMA AskingIsHonest == ASSUME AskingInv PROVE Ask!DialogsAnswer /\ Ask!FormAnswers
<1>1. ASSUME NEW d \in Dialogs
      PROVE  LET x == dialogs[d] IN
             /\ x.capability => x.busy
             /\ ~x.busy => x.at = "idle"
             /\ \A shown \in {x.shown, x.answer} \ {Ask!NoAnswer} :
                  /\ runs[shown.run].goal = shown.question
                  /\ runs[shown.run].company = Documents[shown.doc].company
                  /\ ~x.busy => shown.question = x.question
             /\ \A e \in Dialogs \ {d} : x.run # 0 => dialogs[e].run # x.run
  <2>1. PICK x : x = dialogs[d] OBVIOUS
  <2>2. DialogSound(x) /\ OwnRun(d) BY <2>1 DEF AskingInv, DialogsSound
  <2>3. (x.capability => x.busy) /\ (~x.busy => x.at = "idle") BY <2>2 DEF DialogSound
  <2>4. ASSUME NEW shown \in {x.shown, x.answer} \ {Ask!NoAnswer}
        PROVE  /\ runs[shown.run].goal = shown.question
               /\ runs[shown.run].company = Documents[shown.doc].company
               /\ ~x.busy => shown.question = x.question
    <3>1. shown # Ask!NoAnswer /\ AnswerTrue(shown) BY <2>2 DEF DialogSound
    <3>2. ~x.busy => shown.question = x.question BY <2>2 DEF DialogSound
    <3> QED BY <3>1, <3>2 DEF AnswerTrue
  <2>5. \A e \in Dialogs \ {d} : x.run # 0 => dialogs[e].run # x.run BY <2>1, <2>2 DEF OwnRun
  <2> QED BY <2>1, <2>3, <2>4, <2>5
<1>2. Ask!DialogsAnswer BY <1>1 DEF Ask!DialogsAnswer
<1>3. FormSound(form) /\ Counted(form) /\ Len(runs) \in Nat BY DEF AskingInv, RunsSound
<1>4. (\A d \in Dialogs : ~dialogs[d].open) => Len(runs) <= form.submits BY <1>3 DEF Counted
<1>5. form.at = "sent" => form.sent.warehouse \in Scope[form.sent.company] \cup {Ask!NoText}
  BY <1>3 DEF FormSound, Fits
<1>6. ~form.enabled => form.at # "idle" \/ form.scope = "none" \/ form.coached BY <1>3 DEF FormSound
<1>7. Ask!FormAnswers BY <1>4, <1>5, <1>6 DEF Ask!FormAnswers
<1> QED BY <1>2, <1>7

\* The server's records stay sound, the page of a Run shows what they hold and the pages a Run is
\* asked for what came of the requests: runs.js, contextual_coach.js and new_run.js against api.py
THEOREM PagesInvariant == PagesSpec => [](GovernanceInv /\ PageInv /\ AskingInv)
<1> DEFINE Inv == GovernanceInv /\ PageInv /\ AskingInv
<1>1. ASSUME PagesInit PROVE Inv
  <2>1. RunsInit /\ \E doc \in DOMAIN Documents : Ask!AskingInit(doc) BY <1>1 DEF PagesInit
  <2> QED BY <2>1, GovernanceStarts, InitPageTrue, AskingStarts
<1>2. ASSUME Inv, [PagesNext]_<<governance, page, asking>> PROVE Inv'
  <2>1. [RunsNext]_<<governance, page>> BY <1>2 DEF PagesNext
  <2>2. Ask!DialogStep \/ Ask!FormStep \/ UNCHANGED asking BY <1>2 DEF PagesNext
  <2>3. GovernanceInv' BY <1>2, <2>1, GovernanceKeeps
  <2>4. PageInv' BY <1>2, <2>1, PageMovesTrue
  <2>5. AskingInv' BY <1>2, <2>2, AskingKeeps, AskingStays DEF asking
  <2> QED BY <2>3, <2>4, <2>5
<1> QED BY <1>1, <1>2, PTL DEF PagesSpec

\* No request or answer that is late, lost or out of order leaves a page unusable or lets it show
\* what did not happen: for any users, actions, documents, dialogs and number of requests
THEOREM PagesStayHonest == PagesSpec => []PagesAreHonest
<1>1. GovernanceInv /\ PageInv /\ AskingInv => PagesAreHonest
  BY PageIsHonest, AskingIsHonest DEF PagesAreHonest
<1> QED BY <1>1, PagesInvariant, PTL
=============================================================================
