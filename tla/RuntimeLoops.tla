---------------------------- MODULE RuntimeLoops ----------------------------
(***************************************************************************)
(* The runtime's three loops around a model: the tool calling agent        *)
(* (AgentKernel), the contextual Coach (CoachAnswer) and the Planner and   *)
(* Reviewer (PlanReview).  They share no state: a behaviour chooses one    *)
(* request, and the others stay as they are.                               *)
(***************************************************************************)
EXTENDS AgentKernel, CoachAnswer, PlanReview

VARIABLE scene  \* the request this behaviour is about
all == <<scene, vars, coach, review>>

AgentAlone == scene = "agent" /\ Next /\ UNCHANGED <<scene, coach, review>>
CoachAlone == scene = "coach" /\ CoachNext /\ UNCHANGED <<scene, vars, review>>
ReviewAlone == scene = "review" /\ ReviewNext /\ UNCHANGED <<scene, vars, coach>>

\* The other requests do not move
RuntimeInit ==
  /\ scene \in {"agent", "coach", "review"}
  /\ Init /\ CoachInit /\ ReviewInit
  /\ scene # "coach" =>
       document = (CHOOSE d \in Documents : TRUE) /\ question = [fields |-> {}, missing |-> FALSE]
  /\ scene # "review" =>
       /\ mode = "planner_reviewer"
       /\ plan = [risk |-> "NONE", projects |-> TRUE, scoped |-> TRUE, fit |-> TRUE]
RuntimeNext == AgentAlone \/ CoachAlone \/ ReviewAlone

\* The fairness of AgentKernel!FairSpec; nothing is asked of the other two
RuntimeSpec ==
  /\ RuntimeInit /\ [][RuntimeNext]_all
  /\ WF_all(scene = "agent" /\ Begin /\ UNCHANGED <<scene, coach, review>>)
  /\ WF_all(scene = "agent" /\ Prepare /\ UNCHANGED <<scene, coach, review>>)
  /\ WF_all(scene = "agent" /\ Expire /\ UNCHANGED <<scene, coach, review>>)
  /\ WF_all(scene = "agent" /\ TimeOut /\ UNCHANGED <<scene, coach, review>>)
  /\ WF_all(scene = "agent" /\ Receive /\ UNCHANGED <<scene, coach, review>>)

---------------------------------------------------------------------------
\* No loop exceeds its budgets of model calls, tool calls, output and cost, and every call of
\* the Planner and the Reviewer is counted.  (AgentKernel, PlanReview)
BudgetsHold == NeverOverspends /\ ReadsBounded /\ EveryCallIsCounted
\* What the runtime returns passes the app's own validator: the trace of an agent unless the
\* run was cut short, the answer of the Coach, the evidence of the orchestration.
AppAcceptsAnswers ==
  /\ TypeOK /\ RefusedOnlyWhenCut
  /\ CoachTypeOK /\ ValidatorsAgree
  /\ EvidenceIsTaken
\* An execution of the agent ends with one stored attempt.  (run_native_tool_calling)
AgentAlwaysEnds == scene = "agent" => AlwaysEnds
=============================================================================
