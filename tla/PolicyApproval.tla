--------------------------- MODULE PolicyApproval ---------------------------
(***************************************************************************)
(* Who may propose, approve and start one governed action: the contracts   *)
(* of governance/contracts.py, the five policy gates and the decisions of  *)
(* governance/policy.py, the records of governance/service.py.             *)
(*                                                                         *)
(* Every write is a request in two steps.  It opens its REPEATABLE READ    *)
(* snapshot (authentication reads before the handler does), and then works *)
(* under the row locks: the locked row is the current one, the documents   *)
(* loaded after it, and every permission or price it looks up, are the     *)
(* snapshot's.  What a gate looks up is a set of facts that hold; they are *)
(* only lost, MaxLosses of them.  What happens after the reservation is    *)
(* GovernedExecution's and P2PExecution's; Settle stands for it.           *)
(***************************************************************************)
EXTENDS Integers, Sequences, FiniteSets, SequencesExt

CONSTANTS
  Users, Initiator,  \* the accounts; the Run belongs to Initiator
  Managers,          \* those with the role System Manager
  Actions,           \* action ids a client may use
  TypeOf,            \* the action type proposed under each id
  KeyOf,             \* the idempotency key a client uses for each, if it uses its own
  Calls,             \* concurrent requests
  Nobody,
  MaxLosses,         \* facts that stop to hold in one behaviour
  MaxApprovals       \* decisions recorded on one action

VARIABLES
  actions,       \* Synora Proposed Action, by id
  policies,      \* outcome of the Synora Policy Decision of each action
  approvals,     \* Synora Approval Decisions of each action, oldest first
  reservations,  \* Synora Execution Reservation of each action
  held,          \* the facts that hold: <<fact, user or "all">>
  calls          \* the requests

\* A text that is not set
NoText == "none"

ASSUME GovernanceAssumption ==
  /\ Initiator \in Users /\ Nobody \notin Users
  /\ \A a, b \in Actions : KeyOf[a] = KeyOf[b] => a = b
  \* what needs a second person has one to ask
  /\ \A a \in Actions : TypeOf[a] \notin {"CREATE_MR_DRAFT", "CREATE_PO_DRAFT"} => Users # {Initiator}

governance == <<actions, policies, approvals, reservations, held, calls>>

---------------------------------------------------------------------------
(***************************************************************************)
(* The contract of a proposal.                                             *)
(***************************************************************************)
P2P(a) == TypeOf[a] \notin {"CREATE_MR_DRAFT", "CREATE_PO_DRAFT"}
Class(a) == IF P2P(a) THEN "INDEPENDENT_APPROVER" ELSE "INITIATOR_CONFIRMATION"
Rule(a) == IF P2P(a) THEN "FULL_PRE_EXECUTE_RECHECK_P2P_V1" ELSE "FULL_PRE_EXECUTE_RECHECK_V1"

\* _decimal: a number as text, in any notation, becomes its shortest fixed-point form
Notations == [s \in {"2", "2.0", "2e0"} |-> "2"]
Decimal(text) == IF text \in DOMAIN Notations THEN Notations[text] ELSE "invalid"
\* _parse_payload and the parsers of its parts
Payload(raw) == [qty |-> Decimal(raw.qty)]
PayloadValid(raw) == Decimal(raw.qty) # "invalid"
\* _ref_list: sorted, and no reference twice
RefsValid(raw) == raw.refs # <<>> /\ IsInjective(raw.refs)
\* What the digest covers: the summary and the correlation id are left out
Reviewed(raw) == [payload |-> Payload(raw), refs |-> ToSet(raw.refs), key |-> raw.key]
\* build_proposed_action
Valid(raw) ==
  /\ PayloadValid(raw) /\ RefsValid(raw)
  /\ raw.class = Class(raw.action) /\ raw.rule = Rule(raw.action)
  /\ raw.digest \in {"absent", "computed"}

\* What clients send: the same content in two notations, and what the parsers refuse
RawProposals ==
  [action: Actions, key: {KeyOf[a] : a \in Actions}, qty: {"2", "2.0", "0"},
   refs: {<<"e2", "e1">>, <<"e1", "e1">>},
   class: {"INDEPENDENT_APPROVER", "INITIATOR_CONFIRMATION"},
   rule: {Rule(a) : a \in Actions}, digest: {"absent", "computed", "other"}]
Proposals == {raw \in RawProposals : Valid(raw)}

---------------------------------------------------------------------------
(***************************************************************************)
(* The gates: what they look up, and the sequence.                         *)
(***************************************************************************)
GATE_ORDER == <<"identity", "scope", "permission", "deterministic", "workflow_policy">>
Grants(u) == {"scope", "read", "write"} \X {u}
AllFacts == {<<f, "all">> : f \in {"run", "current", "price", "mapping"}} \cup UNION {Grants(u) : u \in Users}
Holds(view, fact) == <<fact, "all">> \in view
Grade(passes) == IF passes THEN "PASS" ELSE "FAIL"

RunIdentity(view, u, approved) ==
  Grade(Holds(view, "run") /\ u = (IF approved = Nobody THEN Initiator ELSE approved))
ScopeIdentity(view, u) == Grade(<<"scope", u>> \in view)
\* The initiator of an independently approved action only needs to read
Required(a, u) == IF P2P(a) /\ u = Initiator THEN {"read"} ELSE {"read", "write"}
Permission(view, a, u) == Grade(\A p \in Required(a, u) : <<p, u>> \in view)
(***************************************************************************)
(* _purchase_price_rate: the resolver's rate, if a row the actor can see   *)
(* and that applies to the supplier, unit and day holds it.  Days: 1 is    *)
(* before and 3 after the transaction.  The resolver is ERPNext's.         *)
(***************************************************************************)
PriceRows(view) ==
  {[rate |-> 9, supplier |-> "any", from |-> 1, upto |-> 1], [rate |-> 7, supplier |-> "other", from |-> 1, upto |-> 3]}
  \cup (IF Holds(view, "price") THEN {[rate |-> 5, supplier |-> "any", from |-> 1, upto |-> 3]} ELSE {})
Applies(row) == row.supplier = "any" /\ row.from <= 2 /\ 2 <= row.upto
ResolverRate(view) == IF Holds(view, "price") THEN 5 ELSE 9
PurchasePriceRate(view) ==
  LET visible == {row.rate : row \in {r \in PriceRows(view) : Applies(r)}}
  IN IF ResolverRate(view) \in visible THEN ResolverRate(view) ELSE 0
\* _deterministic compares it with the proposed rate, 5; what a P2P action reads is P2PExecution's
Deterministic(view, a) == Grade(TypeOf[a] = "CREATE_PO_DRAFT" => PurchasePriceRate(view) = 5)
WorkflowPolicy(view) == IF Holds(view, "mapping") THEN "PASS" ELSE "UNKNOWN"

(***************************************************************************)
(* evaluate_gate_sequence: a gate whose lookup breaks is UNKNOWN, and none *)
(* runs after the first that does not pass.                                *)
(***************************************************************************)
GateChecks(view, a, u, approved, broken) ==
  LET own == <<RunIdentity(view, u, approved), ScopeIdentity(view, u), Permission(view, a, u),
               Deterministic(view, a), WorkflowPolicy(view)>>
      Graded(i) == IF GATE_ORDER[i] = broken THEN "UNKNOWN" ELSE own[i]
  IN [i \in 1..5 |-> IF \A j \in 1..(i - 1) : Graded(j) = "PASS" THEN Graded(i) ELSE "UNKNOWN"]
AllPass(checks) == \A i \in 1..5 : checks[i] = "PASS"
StricterOutcome(left, right) ==
  LET rank == [PASS |-> 0, UNKNOWN |-> 1, FAIL |-> 2] IN IF rank[left] >= rank[right] THEN left ELSE right
\* The outcome evaluate_proposal records
PolicyOutcome(view, checks) ==
  IF Holds(view, "current") /\ StricterOutcome(Grade(AllPass(checks)), checks[5]) = "PASS" THEN "ALLOW" ELSE "REJECT"
\* A lookup that breaks in this request, or none
Breaks == {"none"} \cup {GATE_ORDER[i] : i \in 1..5}

---------------------------------------------------------------------------
(***************************************************************************)
(* Requests.                                                               *)
(***************************************************************************)
Blank == [payload |-> [qty |-> NoText], refs |-> {}, key |-> NoText]
Idle == [phase |-> "idle", user |-> Nobody, op |-> NoText, action |-> NoText, arg |-> NoText, content |-> Blank,
         view |-> {}, version |-> 0, from |-> NoText, attached |-> FALSE, ok |-> FALSE]
Sent(u, op, a, arg, content, from) ==
  [phase |-> "sent", user |-> u, op |-> op, action |-> a, arg |-> arg, content |-> content,
   view |-> {}, version |-> 0, from |-> from, attached |-> TRUE, ok |-> FALSE]
\* A page still has to receive its answer; what another client does with it is its own affair
Answer(c, ok) ==
  calls' = [calls EXCEPT ![c] = IF @.from = "api" THEN Idle
                                ELSE [@ EXCEPT !.phase = "answered", !.ok = ok, !.view = {}, !.version = 0]]
Open(c) ==
  /\ calls[c].phase = "sent" /\ calls[c].op # "run"
  /\ calls' = [calls EXCEPT ![c].phase = "open", ![c].view = held, ![c].version = actions[calls[c].action].version]
  /\ UNCHANGED <<actions, policies, approvals, reservations, held>>
Handling(c, op) == calls[c].phase = "open" /\ calls[c].op = op
\* A GatewayFault before anything was written
Refuse(c) == Answer(c, FALSE) /\ UNCHANGED <<actions, policies, approvals, reservations, held>>

Absent == [state |-> "NONE", version |-> 0, content |-> Blank]
Latest(a) == IF approvals[a] = <<>> THEN [actor |-> Nobody, decision |-> NoText] ELSE Last(approvals[a])
\* _latest_approval: the last ALLOW
Allows(a) == {i \in DOMAIN approvals[a] : approvals[a][i].decision = "ALLOW"}
Allowing(a) == IF Allows(a) = {} THEN Nobody ELSE approvals[a][Max(Allows(a))].actor

(***************************************************************************)
(* transition_action_state: proof, compare-and-set, and a save that        *)
(* refuses a document loaded before the row last changed.                  *)
(***************************************************************************)
Transitions ==
  [s \in {"AWAITING_APPROVAL", "APPROVED"} |->
     IF s = "APPROVED" THEN {"EXECUTED", "EXPIRED"} ELSE {"APPROVED", "DECLINED", "EXPIRED"}]
Proven(a, u) ==
  /\ policies[a] = "ALLOW"
  /\ u # Initiator /\ u \notin Managers => P2P(a)
MayTransition(c, target) ==
  LET a == calls[c].action IN
  /\ target \in {"APPROVED", "DECLINED"} => Proven(a, calls[c].user)
  /\ actions[a].state \in DOMAIN Transitions /\ target \in Transitions[actions[a].state]
  /\ actions[a].version = calls[c].version
Moved(a, target) == [actions EXCEPT ![a].state = target, ![a].version = @ + 1]

---------------------------------------------------------------------------
(***************************************************************************)
(* evaluate_proposal.                                                      *)
(***************************************************************************)
\* persist_proposed_action and the unique indexes
Unclaimed(a, key) ==
  /\ actions[a].state = "NONE"
  /\ \A b \in Actions : actions[b].content.key # key
EvaluateProposal(c, broken) ==
  LET q == calls[c]
      checks == GateChecks(q.view, q.action, q.user, Nobody, broken)
      outcome == PolicyOutcome(q.view, checks)
  IN
  /\ Handling(c, "propose")
  /\ RunIdentity(q.view, q.user, Nobody) = "PASS" /\ Unclaimed(q.action, q.content.key)
  /\ actions' = [actions EXCEPT ![q.action] =
       [state |-> IF outcome = "ALLOW" THEN "AWAITING_APPROVAL" ELSE "POLICY_REJECTED",
        version |-> 2, content |-> q.content]]
  /\ policies' = [policies EXCEPT ![q.action] = outcome]
  /\ Answer(c, TRUE)
  /\ UNCHANGED <<approvals, reservations, held>>
RefuseProposal(c) ==
  /\ Handling(c, "propose")
  /\ ~(RunIdentity(calls[c].view, calls[c].user, Nobody) = "PASS" /\ Unclaimed(calls[c].action, calls[c].content.key))
  /\ Refuse(c)

(***************************************************************************)
(* decide_action.                                                          *)
(***************************************************************************)
\* Mutant: the rights of an approver without the separation from the initiator
ApproverWithRights(view, a, u) ==
  IF P2P(a) THEN <<"read", u>> \in view /\ <<"write", u>> \in view ELSE u = Initiator
ApproverAllowed(view, a, u) ==
  IF P2P(a) THEN u # Initiator /\ <<"read", u>> \in view /\ <<"write", u>> \in view ELSE u = Initiator
Decidable(c, broken) ==
  LET q == calls[c]
      a == q.action
  IN
  /\ q.version > 0 /\ q.content = actions[a].content
  /\ actions[a].state = "AWAITING_APPROVAL"
  /\ Holds(q.view, "current") /\ Holds(q.view, "run")
  /\ ApproverAllowed(q.view, a, q.user)
  /\ P2P(a) => ScopeIdentity(q.view, q.user) = "PASS" /\ Permission(q.view, a, q.user) = "PASS"
  /\ AllPass(GateChecks(q.view, a, Initiator, Nobody, broken))
  /\ policies[a] = "ALLOW"
Target(decision) == IF decision = "ALLOW" THEN "APPROVED" ELSE "DECLINED"
\* The decision is a record of its own, which a refused transition leaves behind
Decide(c, broken) ==
  LET q == calls[c]
      a == q.action
      moves == q.arg # "CHANGES_REQUESTED" /\ MayTransition(c, Target(q.arg))
  IN
  /\ Handling(c, "decide") /\ Decidable(c, broken)
  /\ Len(approvals[a]) < MaxApprovals
  /\ approvals' = [approvals EXCEPT ![a] = Append(@, [actor |-> q.user, decision |-> q.arg])]
  /\ actions' = IF moves THEN Moved(a, Target(q.arg)) ELSE actions
  /\ Answer(c, moves \/ q.arg = "CHANGES_REQUESTED")
  /\ UNCHANGED <<policies, reservations, held>>
RefuseDecision(c, broken) == Handling(c, "decide") /\ ~Decidable(c, broken) /\ Refuse(c)

(***************************************************************************)
(* An execution request, up to its reservation: pre_execute_recheck.       *)
(***************************************************************************)
Bound(c) ==
  LET a == calls[c].action IN
  /\ calls[c].version > 0 /\ calls[c].content = actions[a].content
  /\ actions[a].state = "APPROVED" /\ policies[a] = "ALLOW" /\ Allowing(a) # Nobody
  /\ P2P(a) => calls[c].user = Allowing(a)
Rechecked(c, broken) ==
  LET q == calls[c]
      approved == IF P2P(q.action) THEN Allowing(q.action) ELSE Nobody
  IN Holds(q.view, "current") /\ AllPass(GateChecks(q.view, q.action, q.user, approved, broken))
Unreserved == [by |-> Nobody, status |-> "none"]
Reserve(c, broken) ==
  LET a == calls[c].action IN
  /\ Handling(c, "execute") /\ reservations[a] = Unreserved
  /\ Bound(c) /\ Rechecked(c, broken)
  /\ reservations' = [reservations EXCEPT ![a] = [by |-> calls[c].user, status |-> "EXECUTING"]]
  /\ Answer(c, TRUE)
  /\ UNCHANGED <<actions, policies, approvals, held>>
\* _expire_if_owner: the stale proof of an action its initiator executes is closed
Expire(c, broken) ==
  LET a == calls[c].action IN
  /\ Handling(c, "execute") /\ reservations[a] = Unreserved
  /\ Bound(c) /\ ~Rechecked(c, broken)
  /\ actions' = IF calls[c].user = Initiator /\ MayTransition(c, "EXPIRED") THEN Moved(a, "EXPIRED") ELSE actions
  /\ Answer(c, FALSE)
  /\ UNCHANGED <<policies, approvals, reservations, held>>
\* Not approved for this user, or reserved: the executor is told how far it is
RefuseExecution(c) ==
  LET a == calls[c].action IN
  /\ Handling(c, "execute") /\ (reservations[a] # Unreserved \/ ~Bound(c))
  /\ Answer(c, reservations[a].by = calls[c].user)
  /\ UNCHANGED <<actions, policies, approvals, reservations, held>>

(***************************************************************************)
(* The rest of an execution, and its reconciliation.                       *)
(***************************************************************************)
Closing(a, status) ==
  /\ reservations' = [reservations EXCEPT ![a].status = status]
  /\ actions' = CASE status = "SUCCEEDED" -> Moved(a, "EXECUTED")
                  [] status = "FAILED" -> Moved(a, "EXPIRED")
                  [] OTHER -> actions
Settle(a) ==
  /\ reservations[a].status = "EXECUTING"
  /\ \E status \in {"SUCCEEDED", "FAILED", "RECONCILIATION_REQUIRED"} : Closing(a, status)
  /\ UNCHANGED <<policies, approvals, held, calls>>
Reconcile(c) ==
  LET a == calls[c].action IN
  /\ Handling(c, "reconcile")
  /\ IF reservations[a] = [by |-> calls[c].user, status |-> "RECONCILIATION_REQUIRED"]
     THEN (\E status \in {"SUCCEEDED", "FAILED"} : Closing(a, status)) /\ Answer(c, TRUE)
     ELSE UNCHANGED <<actions, reservations>> /\ Answer(c, FALSE)
  /\ UNCHANGED <<policies, approvals, held>>

\* A permission is withdrawn, the Run is closed, the proposal lapses, a price or a Workflow changes
Lose(fact) ==
  /\ fact \in held /\ Cardinality(AllFacts \ held) < MaxLosses
  /\ held' = held \ {fact}
  /\ UNCHANGED <<actions, policies, approvals, reservations, calls>>

\* A client of the whitelisted endpoints other than the page may send whatever it likes
ApiCall(c, u, op, a, arg, content) ==
  /\ calls[c].phase = "idle"
  /\ calls' = [calls EXCEPT ![c] = Sent(u, op, a, arg, content, "api")]
  /\ UNCHANGED <<actions, policies, approvals, reservations, held>>
Decisions == {"ALLOW", "DECLINE", "CHANGES_REQUESTED"}
Args(op) == IF op = "decide" THEN Decisions ELSE {NoText}
Client(c) ==
  \/ \E raw \in Proposals : ApiCall(c, Initiator, "propose", raw.action, NoText, Reviewed(raw))
  \/ \E u \in Users, a \in Actions, op \in {"decide", "execute"} :
       \E arg \in Args(op), content \in {actions[a].content, Blank} : ApiCall(c, u, op, a, arg, content)

ServeWrites(c) ==
  \/ Open(c)
  \/ \E broken \in Breaks :
       EvaluateProposal(c, broken) \/ Decide(c, broken) \/ RefuseDecision(c, broken)
       \/ Reserve(c, broken) \/ Expire(c, broken)
  \/ RefuseProposal(c) \/ RefuseExecution(c) \/ Reconcile(c)

\* How far each action already is: not proposed, or waiting, approved, executed without a known result
Stages == {"absent", "awaiting", "approved", "uncertain"}
Stored(a, stage) ==
  IF stage = "absent" THEN Absent
  ELSE [state |-> IF stage = "awaiting" THEN "AWAITING_APPROVAL" ELSE "APPROVED",
        version |-> IF stage = "awaiting" THEN 2 ELSE 3,
        content |-> [payload |-> [qty |-> "2"], refs |-> {"e1", "e2"}, key |-> KeyOf[a]]]
Approver(a) == IF P2P(a) THEN CHOOSE u \in Users : u # Initiator ELSE Initiator
GovernanceInit(stage) ==
  /\ actions = [a \in Actions |-> Stored(a, stage[a])]
  /\ policies = [a \in Actions |-> IF stage[a] = "absent" THEN "none" ELSE "ALLOW"]
  /\ approvals = [a \in Actions |-> IF stage[a] \in {"absent", "awaiting"} THEN <<>>
                                   ELSE <<[actor |-> Approver(a), decision |-> "ALLOW"]>>]
  /\ reservations = [a \in Actions |-> IF stage[a] # "uncertain" THEN Unreserved
                                      ELSE [by |-> Approver(a), status |-> "RECONCILIATION_REQUIRED"]]
  /\ held = AllFacts
  /\ calls = [c \in Calls |-> Idle]

---------------------------------------------------------------------------
(***************************************************************************)
(* What the reads return.                                                  *)
(***************************************************************************)
\* _action_response with the latest decision and reservation
Card(a) ==
  [action |-> a, state |-> actions[a].state, content |-> actions[a].content,
   last |-> Latest(a).actor, reservation |-> reservations[a]]
\* list_pending_approvals
Queue(u) ==
  {Card(a) : a \in {b \in Actions :
     /\ P2P(b) /\ ApproverAllowed(held, b, u)
     /\ \/ actions[b].state = "AWAITING_APPROVAL" /\ Holds(held, "current") /\ Holds(held, "run")
        \/ actions[b].state = "APPROVED" /\ Allowing(b) = u /\ Holds(held, "current")
     /\ ScopeIdentity(held, u) = "PASS" /\ Permission(held, b, u) = "PASS"}}
\* get_run: the owner and a System Manager see every action of the Run
MayReadRun(u) == u = Initiator \/ u \in Managers
RunDetail(u) == {Card(a) : a \in {b \in Actions : MayReadRun(u) /\ actions[b].state # "NONE"}}

---------------------------------------------------------------------------
(***************************************************************************)
(* Properties.                                                             *)
(***************************************************************************)
Verdicts(a) == {i \in DOMAIN approvals[a] : approvals[a][i].decision # "CHANGES_REQUESTED"}
\* An action has at most one verdict, and its state follows it: two approvers, two clicks or
\* a late request never leave an approval record that the state does not know of
OneVerdict ==
  \A a \in Actions :
    /\ Cardinality(Verdicts(a)) <= 1
    /\ actions[a].state = "AWAITING_APPROVAL" => Verdicts(a) = {}
    /\ actions[a].state = "DECLINED" <=> \E i \in DOMAIN approvals[a] : approvals[a][i].decision = "DECLINE"
    /\ actions[a].state \in {"APPROVED", "EXECUTED"} => Allowing(a) # Nobody
\* Nobody approves alone what needs a second person, nobody else confirms what is the
\* initiator's, and only the person who approved starts the execution
SeparateDuties ==
  \A a \in Actions :
    /\ \A i \in DOMAIN approvals[a] : P2P(a) <=> approvals[a][i].actor # Initiator
    /\ reservations[a] # Unreserved => reservations[a].by = Allowing(a)
\* An idempotency key belongs to one action
KeysAreOwned ==
  \A a, b \in Actions :
    actions[a].state # "NONE" /\ actions[b].state # "NONE" /\ a # b =>
      actions[a].content.key # actions[b].content.key
\* Two approvers, two clicks, a late request or a reused key leave one verdict per action,
\* by the person who may give it, which the state follows
VerdictsStand == OneVerdict /\ SeparateDuties /\ KeysAreOwned
=============================================================================
