----------------------------- MODULE PlanReview -----------------------------
(***************************************************************************)
(* The explanation of a plan (POST /enhance): Frappe sends the             *)
(* deterministic plan to the runtime, which lets a Planner and a Reviewer  *)
(* reword its summary within three model calls (planner_reviewer.py), or   *)
(* one model do so alone (enhance.py), and Frappe checks the evidence      *)
(* before it stores the text.  Anything that fails leaves the              *)
(* deterministic summary in place.                                         *)
(*                                                                         *)
(* A text is "summary" (the plan's own), "reworded" (a model's, with the   *)
(* plan's numbers and risks), "invented" (a model's that changes them) or  *)
(* "safe" (the fixed sentence shown when even the summary fails).          *)
(***************************************************************************)
EXTENDS Integers

CONSTANTS
  MaxModelCalls,  \* MultiAgentLimits.max_model_calls
  MaxToolCalls    \* tool calls one response may ask for; the trace holds three

ASSUME ReviewAssumption == MaxModelCalls \in Nat \ {0} /\ MaxToolCalls \in Nat

VARIABLES
  plan,      \* [risk, projects, scoped, fit]: its findings, whether it projects to a
             \* view, of the trusted scope, and whether its summary passes the validator
  mode,      \* "optional_review" is planner_reviewer without require_reviewer, which
             \* only the evaluation uses
  pc,
  calls,     \* usage: the calls counted for each role
  made,      \* model calls really made (history)
  tools,     \* unauthorized tool calls the responses asked for
  handoffs, revisions,
  candidate, \* the text under review
  overdue,   \* the wall-time budget is spent
  reply,     \* the runtime's HTTP response
  stored     \* what Frappe keeps in the Run Plan

review == <<plan, mode, pc, calls, made, tools, handoffs, revisions, candidate, overdue,
            reply, stored>>
job == <<calls, made, tools, handoffs, revisions, candidate, overdue>>

Modes == {"planner_reviewer", "optional_review", "single_agent"}
ReviewRoles == {"planner", "reviewer"}
\* A response without an orchestration: n model calls, over its context budget or not
Body(http, text, code, n, over) ==
  [http |-> http, text |-> text, code |-> code, calls |-> n, roles |-> 0, validated |-> FALSE,
   tools |-> 0, over |-> over]
Nothing == Body("", "", "", 0, FALSE)
ServerError == Body("500", "", "", 0, FALSE)
Accepting == {"ACCEPTED", "REVISED_ACCEPTED", "ok"}
Written == {"reworded", "invented"}

\* validate_explanation: no number and no risk the plan does not have
Validates(t) == t = "reworded" \/ (t = "summary" /\ plan.fit)
\* safe_deterministic_fallback
Fallback == IF Validates("summary") THEN "summary" ELSE "safe"

ReviewInit ==
  /\ plan \in [risk : {"NONE", "INPUT_REQUIRED", "RECONCILIATION_REQUIRED"},
               projects : BOOLEAN, scoped : BOOLEAN, fit : BOOLEAN]
  /\ mode \in Modes
  /\ pc = "start" /\ calls = [r \in ReviewRoles |-> 0] /\ made = 0 /\ tools = 0
  /\ handoffs = 0 /\ revisions = 0 /\ candidate = "" /\ overdue = FALSE
  /\ reply = Nothing /\ stored = Nothing

---------------------------------------------------------------------------
Total == calls["planner"] + calls["reviewer"]
Answer(r) == reply' = r /\ pc' = "replied" /\ UNCHANGED <<plan, mode, stored>>

\* _make_result and _orchestration_summary.  A trace of more than three tool calls is
\* refused by its own model, and the endpoint answers 500.
Finish(code, text, counted, asked) ==
  Answer(IF asked > 3 THEN ServerError
         ELSE [http |-> "200", text |-> text, code |-> code,
               calls |-> counted["planner"] + counted["reviewer"], roles |-> 2,
               validated |-> code \in Accepting, tools |-> asked, over |-> FALSE])

\* _provider_fallback_response: no provider is configured
NoProvider ==
  /\ pc = "start"
  /\ Answer(IF mode = "single_agent"
            THEN Body("200", Fallback, "fallback_error", 0, FALSE)
            ELSE Body("200", IF plan.projects /\ plan.scoped THEN "summary" ELSE "safe",
                      "MODEL_ERROR", 0, FALSE))
  /\ UNCHANGED job

\* The checks run_planner_reviewer makes before the first model call
Refusal ==
  CASE ~plan.projects -> "INVALID_OUTPUT"
    [] plan.projects /\ ~plan.scoped -> "SCOPE_MISMATCH"
    [] plan.projects /\ plan.scoped /\ plan.risk = "RECONCILIATION_REQUIRED" -> "REVIEW_ESCALATED"
    [] plan.projects /\ plan.scoped /\ plan.risk = "INPUT_REQUIRED" -> "DETERMINISTIC_FALLBACK"
    [] OTHER -> ""
Start ==
  /\ pc = "start" /\ mode # "single_agent"
  /\ \/ /\ Refusal # ""
        /\ Finish(Refusal, IF Refusal \in {"INVALID_OUTPUT", "SCOPE_MISMATCH"} THEN "safe"
                           ELSE Fallback, calls, tools)
     \/ /\ Refusal = "" /\ pc' = "planner"
        /\ UNCHANGED <<plan, mode, reply, stored>>
  /\ UNCHANGED job

\* The wall-time budget runs out
Deadline ==
  /\ ~overdue /\ pc \in {"planner", "reviewer", "revision"}
  /\ overdue' = TRUE
  /\ UNCHANGED <<plan, mode, pc, calls, made, tools, handoffs, revisions, candidate, reply, stored>>

---------------------------------------------------------------------------
(***************************************************************************)
(* call_role: one bounded model call of a role.                            *)
(***************************************************************************)
RoleOf == IF pc = "reviewer" THEN "reviewer" ELSE "planner"
CallBudget == [r \in ReviewRoles |-> IF r = "planner" THEN 2 ELSE 1]
Admitted == ~overdue /\ calls[RoleOf] < CallBudget[RoleOf] /\ Total < MaxModelCalls
InRole == pc \in {"planner", "reviewer", "revision"}
Counted == [calls EXCEPT ![RoleOf] = @ + 1]

\* No call: the time or the calls are used up
Denied ==
  /\ InRole /\ ~Admitted
  /\ Finish(IF overdue THEN "TIMEOUT" ELSE "BUDGET_EXCEEDED", Fallback, calls, tools)
  /\ UNCHANGED job
\* The call is made and fails: it times out, the provider fails, the usage is missing or
\* above the cap, the response comes after the deadline, the output does not parse, or it
\* names another plan
FailureCodes == {"TIMEOUT", "MODEL_ERROR", "BUDGET_EXCEEDED", "INVALID_OUTPUT", "DIGEST_MISMATCH"}
CallFails(code) ==
  /\ InRole /\ Admitted
  /\ calls' = Counted /\ made' = made + 1
  /\ Finish(code, Fallback, calls', tools)
  /\ UNCHANGED <<tools, handoffs, revisions, candidate, overdue>>
\* The response asks for tools
AsksTools(k) ==
  /\ InRole /\ Admitted
  /\ calls' = Counted /\ made' = made + 1 /\ tools' = tools + k
  /\ Finish("INVALID_OUTPUT", Fallback, calls', tools')
  /\ UNCHANGED <<handoffs, revisions, candidate, overdue>>

Stay == UNCHANGED <<plan, mode, reply, stored>>
\* The Planner's candidate; the plan's own summary may go without a review
PlannerWrites(text) ==
  /\ pc = "planner" /\ Admitted
  /\ calls' = Counted /\ made' = made + 1
  /\ \/ /\ mode = "optional_review" /\ text = "summary" /\ Validates(text)
        /\ Finish("ACCEPTED", text, calls', tools)
        /\ UNCHANGED <<handoffs, candidate>>
     \/ /\ ~(mode = "optional_review" /\ text = "summary" /\ Validates(text))
        /\ candidate' = text /\ handoffs' = handoffs + 1 /\ pc' = "reviewer" /\ Stay
  /\ UNCHANGED <<tools, revisions, overdue>>
\* The Reviewer's decision
Accept ==
  Finish(IF Validates(candidate) THEN "ACCEPTED" ELSE "DETERMINISTIC_FALLBACK",
         IF Validates(candidate) THEN candidate ELSE Fallback, calls', tools)
ReviewerDecides(decision) ==
  /\ pc = "reviewer" /\ Admitted
  /\ calls' = Counted /\ made' = made + 1
  /\ \/ decision = "ACCEPT" /\ Accept /\ UNCHANGED <<handoffs, revisions>>
     \/ decision = "REVISE" /\ revisions' = 1 /\ handoffs' = handoffs + 1
        /\ pc' = "revision" /\ Stay
     \/ /\ decision \in {"REJECT", "ESCALATE"}
        /\ Finish(IF decision = "REJECT" THEN "REVIEW_REJECTED" ELSE "REVIEW_ESCALATED",
                  Fallback, calls', tools)
        /\ UNCHANGED <<handoffs, revisions>>
  /\ UNCHANGED <<tools, candidate, overdue>>
\* The one revision: the deterministic validator decides, no second review
AcceptRevision(text) ==
  Finish("REVISED_ACCEPTED", text, calls', tools)
JudgeRevision(text) ==
  IF Validates(text) THEN AcceptRevision(text)
  ELSE Finish("DETERMINISTIC_FALLBACK", Fallback, calls', tools)
PlannerRevises(text) ==
  /\ pc = "revision" /\ Admitted
  /\ calls' = Counted /\ made' = made + 1
  /\ candidate' = text
  /\ JudgeRevision(text)
  /\ UNCHANGED <<tools, handoffs, revisions, overdue>>

---------------------------------------------------------------------------
(***************************************************************************)
(* enhance_plan: one model alone.                                          *)
(***************************************************************************)
Evidence(code, text, n, over) == Body("200", text, code, n, over)
\* The plan needs a human, or its prompt does not fit
NoEnhancement ==
  /\ pc = "start" /\ mode = "single_agent"
  /\ Answer(Evidence(IF plan.risk # "NONE" THEN "fallback_deterministic"
                     ELSE "fallback_context_budget", Fallback, 0, FALSE))
  /\ UNCHANGED job
\* The call fails, or its prompt usage exceeds the context budget
Enhance(code, text, over) ==
  /\ pc = "start" /\ mode = "single_agent" /\ plan.risk = "NONE"
  /\ made' = made + 1
  /\ Answer(Evidence(code, text, 1, over))
  /\ UNCHANGED <<calls, tools, handoffs, revisions, candidate, overdue>>
EnhanceFails(over) ==
  Enhance(IF over THEN "fallback_context_budget" ELSE "fallback_error", Fallback, over)
EnhanceWrites(text, over, asksTools) ==
  LET fine == ~over /\ ~asksTools /\ Validates(text) IN
  Enhance(IF over THEN "fallback_context_budget" ELSE IF fine THEN "ok" ELSE "fallback_validation",
          IF fine THEN text ELSE Fallback, over)

---------------------------------------------------------------------------
(***************************************************************************)
(* Frappe: _enhance_plan_via_runtime.                                      *)
(***************************************************************************)
\* Its own fallback shows the summary as it is
FrappeFallback ==
  [http |-> "", text |-> "summary", code |-> "MODEL_ERROR", calls |-> 0, roles |-> 2,
   validated |-> FALSE, tools |-> 0, over |-> FALSE]
\* _safe_orchestration_evidence and _safe_context_evidence
FrappeAccepts(r) ==
  /\ r.http = "200"
  /\ mode # "single_agent" => r.roles = 2 /\ r.calls <= 3 /\ r.tools <= 3
  /\ r.over => r.code = "fallback_context_budget"
KeepReply ==
  /\ pc = "replied" /\ stored = Nothing
  /\ stored' = IF FrappeAccepts(reply) THEN reply ELSE FrappeFallback
  /\ pc' = "stored"
  /\ UNCHANGED <<plan, mode, job, reply>>
\* The runtime is unreachable or too slow; nobody tells it, and it goes on
LinkFails ==
  /\ stored = Nothing /\ pc # "stored"
  /\ stored' = FrappeFallback
  /\ UNCHANGED <<plan, mode, pc, job, reply>>

Done == (pc = "stored" \/ (pc = "replied" /\ stored # Nothing)) /\ UNCHANGED review

ReviewNext ==
  \/ NoProvider \/ Start \/ Deadline \/ Denied
  \/ \E code \in FailureCodes : CallFails(code)
  \/ \E k \in 1..MaxToolCalls : AsksTools(k)
  \/ \E text \in Written \cup {"summary"} : PlannerWrites(text) \/ PlannerRevises(text)
  \/ \E d \in {"ACCEPT", "REVISE", "REJECT", "ESCALATE"} : ReviewerDecides(d)
  \/ NoEnhancement
  \/ \E over \in BOOLEAN : EnhanceFails(over)
  \/ \E text \in Written, over, asksTools \in BOOLEAN : EnhanceWrites(text, over, asksTools)
  \/ KeepReply \/ LinkFails \/ Done

ReviewSpec == ReviewInit /\ [][ReviewNext]_review

---------------------------------------------------------------------------
(***************************************************************************)
(* Properties.                                                             *)
(***************************************************************************)
\* Whatever the two roles write, and wherever the chain stops, the Run Plan holds model
\* text only if the deterministic validator passed that very text, and never together with
\* evidence of a fallback; a plan that needs input or reconciliation, or of another scope,
\* never shows model text.  (run_planner_reviewer, enhance_plan, _enhance_plan_via_runtime)
ModelTextIsVouchedFor ==
  stored.text \in Written =>
    /\ Validates(stored.text) /\ stored.code \in Accepting
    /\ plan.risk = "NONE" /\ (mode # "single_agent" => plan.scoped /\ stored.validated)
\* The reply accounts for every model call that was made, on each of the ways a call can
\* end (answer, error, time-out, late answer, tool calls), and their number stays within
\* the budgets although a revision reopens the Planner.  (call_role, _make_result)
EveryCallIsCounted ==
  /\ reply.http = "200" => reply.calls = made
  /\ made <= MaxModelCalls /\ calls["planner"] <= 2 /\ calls["reviewer"] <= 1
\* The evidence the orchestration returns is evidence the app takes: its text is lost to
\* a fallback only if no provider was configured or the endpoint failed.
\* (_orchestration_summary, _safe_orchestration_evidence)
EvidenceIsTaken ==
  reply.http = "200" /\ reply.roles = 2 => FrappeAccepts(reply)
=============================================================================
