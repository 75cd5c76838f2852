------------------------- MODULE RuntimeLoopsProofs -------------------------
(***************************************************************************)
(* Proofs about RuntimeLoops and the three loops it composes.              *)
(***************************************************************************)
EXTENDS RuntimeLoops, FiniteSetTheorems, TLAPS

(***************************************************************************)
(* The Planner and the Reviewer, for any budget of model calls and any     *)
(* number of tool calls a response asks for.                               *)
(*                                                                         *)
(* Two facts carry the proofs.  A role is only ever called for a plan that *)
(* passed every check of Refusal and in the mode of two roles, so whatever *)
(* a role's step answers is about such a plan.  And a step that answers    *)
(* goes through one operator, Finish: what is true of the record it builds *)
(* is shown once (FinishIsSound) and each of the ways a call can end only  *)
(* has to show that the text it passes on was validated and that the       *)
(* calls it reports are the calls it counted.                              *)
(***************************************************************************)
Texts == Written \cup {"", "summary", "safe"}
Statuses == {"", "200", "500"}
Codes ==
  FailureCodes \cup Accepting
    \cup {"", "SCOPE_MISMATCH", "REVIEW_ESCALATED", "REVIEW_REJECTED", "DETERMINISTIC_FALLBACK",
          "fallback_deterministic", "fallback_context_budget", "fallback_error",
          "fallback_validation"}
Replies ==
  [http : Statuses, text : Texts, code : Codes, calls : Nat, roles : Nat, validated : BOOLEAN,
   tools : Nat, over : BOOLEAN]
InRoles == {"planner", "reviewer", "revision"}

ReviewTypeOK ==
  /\ plan \in [risk : {"NONE", "INPUT_REQUIRED", "RECONCILIATION_REQUIRED"},
               projects : BOOLEAN, scoped : BOOLEAN, fit : BOOLEAN]
  /\ mode \in Modes
  /\ pc \in {"start", "replied", "stored"} \cup InRoles
  /\ calls \in [ReviewRoles -> Nat] /\ made \in Nat /\ tools \in Nat
  /\ overdue \in BOOLEAN
  /\ reply \in Replies /\ stored \in Replies

\* A role works on a plan that passed every check, and nothing is answered yet
BeforeReply ==
  /\ pc = "start" => reply = Nothing /\ tools = 0 /\ made = 0
  /\ pc \in InRoles => reply = Nothing /\ tools = 0 /\ Refusal = "" /\ mode # "single_agent"

\* The usage a role reports is the calls that were made
AccountHolds ==
  /\ mode # "single_agent" => made = Total
  /\ made <= MaxModelCalls /\ calls["planner"] <= 2 /\ calls["reviewer"] <= 1

\* A reply carries model text only if the validator passed it
Vouched(r) ==
  r.text \in Written =>
    /\ Validates(r.text) /\ r.code \in Accepting
    /\ plan.risk = "NONE" /\ (mode # "single_agent" => plan.scoped /\ r.validated)

\* A reply of two roles that Frappe takes, about n model calls
Taken(r, n) ==
  /\ r.http = "200" => r.calls = n
  /\ r.http = "200" /\ r.roles = 2 => FrappeAccepts(r)

ReviewInv ==
  /\ ReviewTypeOK /\ BeforeReply /\ AccountHolds
  /\ Vouched(reply) /\ Taken(reply, made) /\ Vouched(stored)

---------------------------------------------------------------------------
(***************************************************************************)
(* The records the steps answer with.                                      *)
(***************************************************************************)
LEMMA FallbackIsNoModelText ==
  Fallback \in Texts \ Written
<1>1. Fallback = "summary" \/ Fallback = "safe"
  BY Zenon DEF Fallback
<1> QED
  BY <1>1 DEF Written, Texts

LEMMA BodyIsReply ==
  ASSUME NEW h \in Statuses, NEW x \in Texts, NEW c \in Codes, NEW n \in Nat, NEW o \in BOOLEAN
  PROVE /\ Body(h, x, c, n, o) \in Replies
        /\ x \notin Written => Vouched(Body(h, x, c, n, o))
        /\ Taken(Body(h, x, c, n, o), n)
        /\ h # "200" => \A k : Taken(Body(h, x, c, n, o), k)
<1>1. Body(h, x, c, n, o) \in Replies
  BY DEF Body, Replies
<1>2. /\ Body(h, x, c, n, o).http = h /\ Body(h, x, c, n, o).text = x
      /\ Body(h, x, c, n, o).calls = n /\ Body(h, x, c, n, o).roles = 0
  BY DEF Body
<1> QED
  BY <1>1, <1>2 DEF Vouched, Taken

LEMMA NothingIsSound ==
  /\ Nothing \in Replies /\ Vouched(Nothing) /\ \A n : Taken(Nothing, n)
  /\ ServerError \in Replies /\ Vouched(ServerError) /\ \A n : Taken(ServerError, n)
  /\ FrappeFallback \in Replies /\ Vouched(FrappeFallback)
<1>1. "" \in Texts \ Written /\ "" \in Codes
  BY DEF Texts, Codes, Written
<1>2. ASSUME NEW h \in Statuses, h # "200"
      PROVE /\ Body(h, "", "", 0, FALSE) \in Replies /\ Vouched(Body(h, "", "", 0, FALSE))
            /\ \A k : Taken(Body(h, "", "", 0, FALSE), k)
  <2>1. 0 \in Nat /\ FALSE \in BOOLEAN
    OBVIOUS
  <2> QED
    BY <1>1, <1>2, <2>1, BodyIsReply, Zenon
<1>5. /\ Nothing \in Replies /\ Vouched(Nothing) /\ \A n : Taken(Nothing, n)
      /\ ServerError \in Replies /\ Vouched(ServerError) /\ \A n : Taken(ServerError, n)
  <2>1. {"", "500"} \subseteq Statuses /\ "" # "200" /\ "500" # "200"
    BY DEF Statuses
  <2> QED
    BY <1>2, <2>1, Zenon DEF Nothing, ServerError
<1>3. FrappeFallback \in Replies
  BY DEF FrappeFallback, Replies, Statuses, Texts, Codes, FailureCodes
<1>4. Vouched(FrappeFallback)
  BY DEF FrappeFallback, Vouched, Written
<1> QED
  BY <1>3, <1>4, <1>5

\* What the checks before the first call leave: a plan that needs nobody, of the scope.
LEMMA AdmittedPlan ==
  ASSUME ReviewTypeOK, Refusal = ""
  PROVE plan.risk = "NONE" /\ plan.projects /\ plan.scoped
<1>1. /\ plan.projects \in BOOLEAN /\ plan.scoped \in BOOLEAN
      /\ plan.risk \in {"NONE", "INPUT_REQUIRED", "RECONCILIATION_REQUIRED"}
  BY DEF ReviewTypeOK
<1>2. plan.projects
  <2>1. ~plan.projects => Refusal = "INVALID_OUTPUT"
    BY <1>1 DEF Refusal
  <2> QED
    BY <2>1
<1>3. plan.scoped
  <2>1. plan.projects /\ ~plan.scoped => Refusal = "SCOPE_MISMATCH"
    BY <1>1 DEF Refusal
  <2> QED
    BY <1>2, <2>1
<1>4. plan.risk # "RECONCILIATION_REQUIRED"
  <2>1. plan.projects /\ plan.scoped /\ plan.risk = "RECONCILIATION_REQUIRED"
          => Refusal = "REVIEW_ESCALATED"
    BY <1>1 DEF Refusal
  <2> QED
    BY <1>2, <1>3, <2>1
<1>5. plan.risk # "INPUT_REQUIRED"
  <2>1. plan.projects /\ plan.scoped /\ plan.risk = "INPUT_REQUIRED"
          => Refusal = "DETERMINISTIC_FALLBACK"
    BY <1>1 DEF Refusal
  <2> QED
    BY <1>2, <1>3, <2>1
<1> QED
  BY <1>1, <1>2, <1>3, <1>4, <1>5

\* Model text leaves a role only when it was validated, for an admitted plan, as accepted
Earned(code, text) ==
  text \in Written => Validates(text) /\ code \in Accepting /\ Refusal = ""

\* The record of _make_result: what it says of the text and of the calls is true if it was
\* true of its arguments.  (_make_result, _orchestration_summary)
LEMMA FinishIsSound ==
  ASSUME ReviewTypeOK, NEW code \in Codes, NEW text \in Texts,
         NEW counted \in [ReviewRoles -> Nat], NEW wanted \in Nat,
         counted["planner"] <= 2, counted["reviewer"] <= 1,
         Earned(code, text),
         Finish(code, text, counted, wanted)
  PROVE /\ reply' \in Replies /\ Vouched(reply')
        /\ Taken(reply', counted["planner"] + counted["reviewer"])
        /\ pc' = "replied" /\ UNCHANGED <<plan, mode, stored>>
<1> DEFINE Counts == counted["planner"] + counted["reviewer"]
<1>1. PICK n \in Nat : n = Counts /\ n <= 3
  <2>1. counted["planner"] \in Nat /\ counted["reviewer"] \in Nat
    BY DEF ReviewRoles
  <2> QED
    BY <2>1
<1>2. PICK v \in BOOLEAN : v <=> (code \in Accepting)
  OBVIOUS
<1> DEFINE sent == [http |-> "200", text |-> text, code |-> code, calls |-> n, roles |-> 2,
                    validated |-> v, tools |-> wanted, over |-> FALSE]
           failed == ServerError
<1>3. reply' = IF wanted > 3 THEN failed ELSE sent
  BY <1>1, <1>2, Zenon DEF Finish, Answer
<1>4. pc' = "replied" /\ UNCHANGED <<plan, mode, stored>>
  BY Zenon DEF Finish, Answer
<1>5. failed \in Replies /\ Vouched(failed) /\ Taken(failed, n)
  BY NothingIsSound
<1>6. sent \in Replies
  BY DEF Replies, Statuses
<1>7. /\ sent.http = "200" /\ sent.text = text /\ sent.code = code /\ sent.calls = n
      /\ sent.roles = 2 /\ sent.validated = v /\ sent.tools = wanted /\ sent.over = FALSE
  BY DEF sent
<1> HIDE DEF sent, failed
<1>8. Vouched(sent)
  <2>1. SUFFICES ASSUME text \in Written
                 PROVE Validates(sent.text) /\ sent.code \in Accepting /\ plan.risk = "NONE"
                       /\ plan.scoped /\ sent.validated
    BY <1>7, Zenon DEF Vouched
  <2>3. Validates(text) /\ code \in Accepting /\ Refusal = ""
    BY <2>1, Zenon DEF Earned
  <2>2. plan.risk = "NONE" /\ plan.scoped
    BY <2>3, AdmittedPlan
  <2> QED
    BY <1>2, <1>7, <2>2, <2>3, Zenon
<1>9. CASE wanted > 3
  <2>1. reply' = failed
    BY <1>3, <1>9
  <2> QED
    BY <1>1, <1>4, <1>5, <2>1, Zenon
<1>10. CASE ~(wanted > 3)
  <2>1. reply' = sent /\ wanted <= 3
    BY <1>3, <1>10
  <2>2. FrappeAccepts(sent)
    BY <1>1, <1>7, <2>1, Zenon DEF FrappeAccepts
  <2>3. Taken(sent, n)
    BY <1>7, <2>2, Zenon DEF Taken
  <2> QED
    BY <1>1, <1>4, <1>6, <1>8, <2>1, <2>3, Zenon
<1> QED
  BY <1>9, <1>10

\* The step that counts a call counts it for one role, within its budget.  (call_role)
LEMMA CountedOnce ==
  ASSUME ReviewTypeOK, AccountHolds, BeforeReply, pc \in InRoles, Admitted
  PROVE /\ Counted \in [ReviewRoles -> Nat]
        /\ Counted["planner"] <= 2 /\ Counted["reviewer"] <= 1
        /\ Counted["planner"] + Counted["reviewer"] = made + 1
        /\ made + 1 <= MaxModelCalls /\ made + 1 \in Nat
<1>1. calls["planner"] \in Nat /\ calls["reviewer"] \in Nat /\ made = Total
  BY DEF ReviewTypeOK, AccountHolds, BeforeReply, ReviewRoles
<1>2. Total < MaxModelCalls /\ MaxModelCalls \in Nat
  BY ReviewAssumption DEF Admitted
<1>3. CASE pc = "reviewer"
  <2>1. Counted = [calls EXCEPT !["reviewer"] = @ + 1] /\ calls["reviewer"] < 1
    BY <1>3 DEF Counted, RoleOf, Admitted, CallBudget, ReviewRoles
  <2> QED
    BY <1>1, <1>2, <2>1 DEF ReviewTypeOK, ReviewRoles, Total, AccountHolds
<1>4. CASE pc # "reviewer"
  <2>1. Counted = [calls EXCEPT !["planner"] = @ + 1] /\ calls["planner"] < 2
    BY <1>4 DEF Counted, RoleOf, Admitted, CallBudget, ReviewRoles
  <2> QED
    BY <1>1, <1>2, <2>1 DEF ReviewTypeOK, ReviewRoles, Total, AccountHolds
<1> QED
  BY <1>3, <1>4

\* The plan and the mode of a request never change, so what is said of a reply stays true.
LEMMA SameRequest ==
  ASSUME UNCHANGED <<plan, mode>>
  PROVE /\ Refusal' = Refusal
        /\ \A r : Vouched(r)' <=> Vouched(r)
        /\ \A r, n : Taken(r, n)' <=> Taken(r, n)
<1>1. plan' = plan /\ mode' = mode
  OBVIOUS
<1>2. Refusal' = Refusal
  BY <1>1, Zenon DEF Refusal
<1>3. \A r : Vouched(r)' <=> Vouched(r)
  BY <1>1, Zenon DEF Vouched, Validates
<1>4. \A r, n : Taken(r, n)' <=> Taken(r, n)
  BY <1>1, Zenon DEF Taken, FrappeAccepts
<1> QED
  BY <1>2, <1>3, <1>4

---------------------------------------------------------------------------
(***************************************************************************)
(* The steps that answer: each shows only that its text is earned.         *)
(***************************************************************************)
LEMMA AnsweredStep ==
  ASSUME ReviewInv, UNCHANGED <<plan, mode, stored>>, pc' = "replied",
         calls' \in [ReviewRoles -> Nat], made' \in Nat, tools' \in Nat, overdue' \in BOOLEAN,
         reply' \in Replies, Vouched(reply'), Taken(reply', made'), AccountHolds'
  PROVE ReviewInv'
<1>1. /\ ReviewTypeOK /\ Vouched(stored)
  BY Zenon DEF ReviewInv
<1>2. ReviewTypeOK'
  BY <1>1 DEF ReviewTypeOK
<1>3. BeforeReply'
  BY DEF BeforeReply, InRoles
<1>4. Vouched(reply)'
  BY SameRequest
<1>5. Vouched(stored)'
  BY <1>1, SameRequest
<1>6. Taken(reply, made)'
  BY SameRequest
<1> QED
  BY <1>2, <1>3, <1>4, <1>5, <1>6, Zenon DEF ReviewInv

LEMMA FallbackIsEarned ==
  ASSUME NEW code
  PROVE Fallback \in Texts /\ Earned(code, Fallback)
BY FallbackIsNoModelText DEF Earned

\* A role that is called ends the chain: the reply counts the call.
LEMMA RoleAnswers ==
  ASSUME ReviewInv, pc \in InRoles, Admitted,
         NEW code \in Codes, NEW text \in Texts, NEW wanted \in Nat, Earned(code, text),
         calls' = Counted, made' = made + 1, tools' \in Nat, overdue' = overdue,
         Finish(code, text, Counted, wanted)
  PROVE ReviewInv'
<1>1. ReviewTypeOK /\ BeforeReply /\ AccountHolds
  BY Zenon DEF ReviewInv
<1>2. /\ Counted \in [ReviewRoles -> Nat]
      /\ Counted["planner"] <= 2 /\ Counted["reviewer"] <= 1
      /\ Counted["planner"] + Counted["reviewer"] = made + 1
      /\ made + 1 <= MaxModelCalls /\ made + 1 \in Nat
  BY <1>1, CountedOnce
<1>3. /\ reply' \in Replies /\ Vouched(reply')
      /\ Taken(reply', Counted["planner"] + Counted["reviewer"])
      /\ pc' = "replied" /\ UNCHANGED <<plan, mode, stored>>
  BY <1>1, <1>2, FinishIsSound
<1>4. AccountHolds'
  BY <1>2 DEF AccountHolds, Total
<1>5. Taken(reply', made')
  BY <1>2, <1>3
<1>6. overdue' \in BOOLEAN
  BY <1>1 DEF ReviewTypeOK
<1> QED
  BY <1>2, <1>3, <1>4, <1>5, <1>6, AnsweredStep

LEMMA CodesOfReplies ==
  /\ FailureCodes \cup Accepting \subseteq Codes
  /\ {"TIMEOUT", "BUDGET_EXCEEDED", "INVALID_OUTPUT", "SCOPE_MISMATCH", "REVIEW_ESCALATED",
      "REVIEW_REJECTED", "DETERMINISTIC_FALLBACK", "MODEL_ERROR", "fallback_deterministic",
      "fallback_context_budget", "fallback_error", "fallback_validation"} \subseteq Codes
  /\ Written \cup {"summary", "safe"} \subseteq Texts
BY DEF Codes, FailureCodes, Texts

LEMMA InRoleIs ==
  ASSUME ReviewInv, InRole
  PROVE pc \in InRoles /\ tools = 0
BY DEF ReviewInv, InRole, InRoles, BeforeReply

\* The chain ends without a call: its budget is used up, or its plan was refused.
LEMMA ChainAnswers ==
  ASSUME ReviewInv, mode # "single_agent",
         NEW code \in Codes, NEW text \in Texts, Earned(code, text),
         UNCHANGED job, Finish(code, text, calls, tools)
  PROVE ReviewInv'
<1>1. ReviewTypeOK /\ AccountHolds
  BY Zenon DEF ReviewInv
<1>2. /\ calls \in [ReviewRoles -> Nat] /\ tools \in Nat /\ made \in Nat /\ overdue \in BOOLEAN
      /\ calls' = calls /\ tools' = tools /\ made' = made /\ overdue' = overdue
  BY <1>1, Zenon DEF ReviewTypeOK, job
<1>3. calls["planner"] <= 2 /\ calls["reviewer"] <= 1 /\ made = Total
  BY <1>1 DEF AccountHolds
<1>4. /\ reply' \in Replies /\ Vouched(reply')
      /\ Taken(reply', calls["planner"] + calls["reviewer"])
      /\ pc' = "replied" /\ UNCHANGED <<plan, mode, stored>>
  BY <1>1, <1>2, <1>3, FinishIsSound
<1>5. AccountHolds'
  BY <1>1, <1>2, <1>4 DEF AccountHolds, Total
<1>6. Taken(reply', made')
  BY <1>2, <1>3, <1>4 DEF Total
<1> QED
  BY <1>2, <1>4, <1>5, <1>6, AnsweredStep

EarnedAlone(code, text) ==
  text \in Written =>
    Validates(text) /\ code \in Accepting /\ plan.risk = "NONE" /\ mode = "single_agent"

\* One model alone: a body without an orchestration.
LEMMA SingleAnswers ==
  ASSUME ReviewInv, pc = "start", NEW text \in Texts, NEW code \in Codes, NEW over \in BOOLEAN,
         NEW n \in {0, 1}, n = 1 => mode = "single_agent",
         EarnedAlone(code, text),
         made' = made + n, UNCHANGED <<calls, tools, overdue>>,
         NEW body, body = Body("200", text, code, n, over), Answer(body)
  PROVE ReviewInv'
<1>1. ReviewTypeOK /\ AccountHolds /\ BeforeReply
  BY Zenon DEF ReviewInv
<1>2. made = 0 /\ made' = n /\ n \in Nat
  <2>1. made = 0
    BY <1>1, Zenon DEF BeforeReply
  <2> QED
    BY <2>1
<1>3. "200" \in Statuses
  BY DEF Statuses
<1>4. body \in Replies /\ (text \notin Written => Vouched(body)) /\ Taken(body, n)
  BY <1>2, <1>3, BodyIsReply, Zenon
<1>5. body.text = text /\ body.code = code
  BY Zenon DEF Body
<1>6. reply' = body /\ pc' = "replied" /\ UNCHANGED <<plan, mode, stored>>
  BY Zenon DEF Answer
<1>7. Vouched(body)
  <2>1. CASE text \in Written
    BY <1>5, <2>1, Zenon DEF Vouched, EarnedAlone
  <2>2. CASE text \notin Written
    BY <1>4, <2>2, Zenon
  <2> QED
    BY <2>1, <2>2, Zenon
<1>8. AccountHolds'
  <2>1. made' <= MaxModelCalls
    BY <1>2, ReviewAssumption
  <2>2. Total' = Total /\ (mode # "single_agent" => made' = made)
    BY <1>2, Zenon DEF Total
  <2> QED
    BY <1>1, <1>6, <2>1, <2>2 DEF AccountHolds
<1>9. /\ calls' \in [ReviewRoles -> Nat] /\ made' \in Nat /\ tools' \in Nat
      /\ overdue' \in BOOLEAN
  BY <1>1, <1>2 DEF ReviewTypeOK
<1>10. reply' \in Replies /\ Vouched(reply') /\ Taken(reply', made')
  BY <1>2, <1>4, <1>6, <1>7, Zenon
<1> QED
  BY <1>6, <1>8, <1>9, <1>10, AnsweredStep

\* The chain goes on to a role: the request, the reply and what is stored stay.
LEMMA ChainGoesOn ==
  ASSUME ReviewInv, Stay, pc' \in InRoles,
         mode # "single_agent", Refusal = "", tools = 0, reply = Nothing,
         calls' \in [ReviewRoles -> Nat], made' \in Nat, tools' = tools, overdue' \in BOOLEAN,
         AccountHolds'
  PROVE ReviewInv'
<1>1. /\ ReviewTypeOK /\ Vouched(reply) /\ Vouched(stored)
      /\ plan' = plan /\ mode' = mode /\ reply' = reply /\ stored' = stored
  BY Zenon DEF ReviewInv, Stay
<1>2. ReviewTypeOK'
  BY <1>1 DEF ReviewTypeOK
<1>3. BeforeReply'
  <2>1. pc' # "start"
    BY DEF InRoles
  <2>2. Refusal' = ""
    BY <1>1, SameRequest, Zenon
  <2> QED
    BY <1>1, <2>1, <2>2 DEF BeforeReply, Nothing, Body
<1>4. Vouched(reply)' /\ Vouched(stored)'
  BY <1>1, SameRequest
<1>5. Taken(reply, made)'
  <2>1. Taken(Nothing, made')
    BY NothingIsSound, Zenon
  <2> QED
    BY <1>1, <2>1, SameRequest
<1> QED
  BY <1>2, <1>3, <1>4, <1>5, Zenon DEF ReviewInv

---------------------------------------------------------------------------
(***************************************************************************)
(* One lemma for each part of the next-state relation.                     *)
(***************************************************************************)
LEMMA NoProviderStep ==
  ASSUME ReviewInv, NoProvider
  PROVE ReviewInv'
<1>1. pc = "start" /\ UNCHANGED <<calls, made, tools, overdue>>
  BY Zenon DEF NoProvider, job
<1>2. made' = made + 0
  <2>1. made \in Nat
    BY Zenon DEF ReviewInv, ReviewTypeOK
  <2> QED
    BY <1>1, <2>1
<1>3. FALSE \in BOOLEAN /\ 0 \in {0, 1} /\ 0 # 1
  OBVIOUS
<1>4. CASE mode = "single_agent"
  <2>1. PICK body : body = Body("200", Fallback, "fallback_error", 0, FALSE) /\ Answer(body)
    BY <1>4, Zenon DEF NoProvider
  <2>2. EarnedAlone("fallback_error", Fallback) /\ Fallback \in Texts /\ "fallback_error" \in Codes
    BY FallbackIsNoModelText, CodesOfReplies DEF EarnedAlone
  <2> QED
    BY <1>1, <1>2, <1>3, <2>1, <2>2, SingleAnswers, Zenon
<1>5. CASE mode # "single_agent"
  <2>1. PICK text \in {"summary", "safe"} :
          \E body : body = Body("200", text, "MODEL_ERROR", 0, FALSE) /\ Answer(body)
    BY <1>5, Zenon DEF NoProvider
  <2>2. PICK body : body = Body("200", text, "MODEL_ERROR", 0, FALSE) /\ Answer(body)
    BY <2>1
  <2>3. text \in Texts \ Written /\ "MODEL_ERROR" \in Codes
    BY CodesOfReplies DEF Written
  <2>4. EarnedAlone("MODEL_ERROR", text)
    BY <2>3, Zenon DEF EarnedAlone
  <2> QED
    BY <1>1, <1>2, <1>3, <2>2, <2>3, <2>4, SingleAnswers, Zenon
<1> QED
  BY <1>4, <1>5

LEMMA StartStep ==
  ASSUME ReviewInv, Start
  PROVE ReviewInv'
<1>1. pc = "start" /\ mode # "single_agent" /\ UNCHANGED job
  BY Zenon DEF Start
<1>2. CASE Refusal # ""
  <2>1. Refusal \in {"INVALID_OUTPUT", "SCOPE_MISMATCH", "REVIEW_ESCALATED",
                     "DETERMINISTIC_FALLBACK"}
    BY <1>2, Zenon DEF Refusal
  <2>2. PICK text \in {"safe", Fallback} : Finish(Refusal, text, calls, tools)
    BY <1>2, Zenon DEF Start
  <2>3. text \in Texts \ Written
    BY FallbackIsNoModelText, CodesOfReplies DEF Written
  <2>4. Refusal \in Codes
    BY <2>1, CodesOfReplies
  <2>5. Earned(Refusal, text)
    BY <2>3, Zenon DEF Earned
  <2> QED
    BY <1>1, <2>2, <2>3, <2>4, <2>5, ChainAnswers, Zenon
<1>3. CASE Refusal = ""
  <2>1. pc' = "planner" /\ Stay
    BY <1>3, Zenon DEF Start, Stay
  <2>2. /\ reply = Nothing /\ tools = 0 /\ ReviewTypeOK /\ AccountHolds
    BY <1>1, Zenon DEF ReviewInv, BeforeReply
  <2>3. UNCHANGED <<calls, made, tools, overdue>> /\ mode' = mode
    BY <1>1, <2>1, Zenon DEF job, Stay
  <2>4. AccountHolds'
    BY <2>2, <2>3, Zenon DEF AccountHolds, Total
  <2>5. calls' \in [ReviewRoles -> Nat] /\ made' \in Nat /\ overdue' \in BOOLEAN
    BY <2>2, <2>3, Zenon DEF ReviewTypeOK
  <2>6. pc' \in InRoles
    BY <2>1 DEF InRoles
  <2> QED
    BY <1>1, <1>3, <2>1, <2>2, <2>3, <2>4, <2>5, <2>6, ChainGoesOn, Zenon
<1> QED
  BY <1>2, <1>3

LEMMA DeadlineStep ==
  ASSUME ReviewInv, Deadline
  PROVE ReviewInv'
<1>1. /\ pc \in InRoles /\ Stay /\ UNCHANGED <<pc, calls, made, tools>> /\ overdue' = TRUE
  BY Zenon DEF Deadline, InRoles, Stay
<1>2. /\ reply = Nothing /\ tools = 0 /\ Refusal = "" /\ mode # "single_agent"
      /\ ReviewTypeOK /\ AccountHolds
  BY <1>1, Zenon DEF ReviewInv, BeforeReply
<1>3. AccountHolds'
  <2>1. mode' = mode
    BY <1>1, Zenon DEF Stay
  <2> QED
    BY <1>1, <1>2, <2>1, Zenon DEF AccountHolds, Total
<1>4. calls' \in [ReviewRoles -> Nat] /\ made' \in Nat /\ overdue' \in BOOLEAN /\ pc' \in InRoles
  BY <1>1, <1>2, Zenon DEF ReviewTypeOK
<1> QED
  BY <1>1, <1>2, <1>3, <1>4, ChainGoesOn, Zenon

LEMMA DeniedStep ==
  ASSUME ReviewInv, Denied
  PROVE ReviewInv'
<1>1. pc \in InRoles /\ UNCHANGED job
  BY InRoleIs, Zenon DEF Denied
<1>2. mode # "single_agent"
  BY <1>1, Zenon DEF ReviewInv, BeforeReply
<1>3. PICK code \in {"TIMEOUT", "BUDGET_EXCEEDED"} : Finish(code, Fallback, calls, tools)
  BY Zenon DEF Denied
<1>4. code \in Codes
  BY CodesOfReplies
<1>5. Fallback \in Texts /\ Earned(code, Fallback)
  BY FallbackIsEarned
<1> QED
  BY <1>1, <1>2, <1>3, <1>4, <1>5, ChainAnswers, Zenon

LEMMA CallFailsStep ==
  ASSUME ReviewInv, NEW code \in FailureCodes, CallFails(code)
  PROVE ReviewInv'
<1>1. pc \in InRoles /\ tools = 0 /\ Admitted
  BY InRoleIs, Zenon DEF CallFails
<1>2. /\ calls' = Counted /\ made' = made + 1 /\ tools' = tools /\ overdue' = overdue
      /\ Finish(code, Fallback, Counted, tools)
  BY Zenon DEF CallFails
<1>3. code \in Codes /\ tools \in Nat /\ tools' \in Nat
  BY <1>1, <1>2, CodesOfReplies
<1>4. Fallback \in Texts /\ Earned(code, Fallback)
  BY FallbackIsEarned
<1> QED
  BY <1>1, <1>2, <1>3, <1>4, RoleAnswers, Zenon

LEMMA AsksToolsStep ==
  ASSUME ReviewInv, NEW k \in 1..MaxToolCalls, AsksTools(k)
  PROVE ReviewInv'
<1>1. pc \in InRoles /\ tools = 0 /\ Admitted
  BY InRoleIs, Zenon DEF AsksTools
<1>2. /\ calls' = Counted /\ made' = made + 1 /\ tools' = tools + k /\ overdue' = overdue
      /\ Finish("INVALID_OUTPUT", Fallback, Counted, tools')
  BY Zenon DEF AsksTools
<1>3. "INVALID_OUTPUT" \in Codes
  BY CodesOfReplies
<1>4. PICK wanted \in Nat : wanted = tools'
  <2>1. tools' \in Nat
    BY <1>1, <1>2, ReviewAssumption
  <2> QED
    BY <2>1
<1>5. tools' \in Nat /\ Finish("INVALID_OUTPUT", Fallback, Counted, wanted)
  BY <1>2, <1>4, Zenon
<1>6. Fallback \in Texts /\ Earned("INVALID_OUTPUT", Fallback)
  BY FallbackIsEarned
<1> QED
  BY <1>1, <1>2, <1>3, <1>4, <1>5, <1>6, RoleAnswers, Zenon

LEMMA RoleGoesOn ==
  ASSUME ReviewInv, pc \in InRoles, Admitted, Stay, pc' \in InRoles,
         calls' = Counted, made' = made + 1, tools' = tools, overdue' = overdue
  PROVE ReviewInv'
<1>1. /\ ReviewTypeOK /\ BeforeReply /\ AccountHolds
      /\ reply = Nothing /\ tools = 0 /\ Refusal = "" /\ mode # "single_agent"
  BY Zenon DEF ReviewInv, BeforeReply
<1>2. /\ Counted \in [ReviewRoles -> Nat]
      /\ Counted["planner"] <= 2 /\ Counted["reviewer"] <= 1
      /\ Counted["planner"] + Counted["reviewer"] = made + 1
      /\ made + 1 <= MaxModelCalls /\ made + 1 \in Nat
  BY <1>1, CountedOnce
<1>3. AccountHolds'
  BY <1>2 DEF AccountHolds, Total
<1>4. calls' \in [ReviewRoles -> Nat] /\ made' \in Nat
  BY <1>2, Zenon
<1>5. overdue' \in BOOLEAN
  BY <1>1, Zenon DEF ReviewTypeOK
<1> QED
  BY <1>1, <1>3, <1>4, <1>5, ChainGoesOn, Zenon

LEMMA PlannerWritesStep ==
  ASSUME ReviewInv, NEW text \in Written \cup {"summary"}, PlannerWrites(text)
  PROVE ReviewInv'
<1>1. /\ pc \in InRoles /\ Admitted
      /\ calls' = Counted /\ made' = made + 1 /\ tools' = tools /\ overdue' = overdue
  BY Zenon DEF PlannerWrites, InRoles
<1>2. CASE text = "summary" /\ Finish("ACCEPTED", text, Counted, tools)
  <2>1. Earned("ACCEPTED", text)
    BY <1>2 DEF Earned, Written
  <2>2. "ACCEPTED" \in Codes /\ text \in Texts
    BY <1>2, CodesOfReplies DEF Accepting
  <2>3. tools = 0 /\ tools \in Nat /\ tools' \in Nat
    <3>1. tools = 0
      BY <1>1, Zenon DEF ReviewInv, BeforeReply
    <3> QED
      BY <1>1, <3>1
  <2> QED
    BY <1>1, <1>2, <2>1, <2>2, <2>3, RoleAnswers, Zenon
<1>3. CASE pc' = "reviewer" /\ Stay
  <2>1. pc' \in InRoles
    BY <1>3 DEF InRoles
  <2> QED
    BY <1>1, <1>3, <2>1, RoleGoesOn, Zenon
<1> QED
  BY <1>1, <1>2, <1>3, Zenon DEF PlannerWrites

LEMMA ReviewerDecidesStep ==
  ASSUME ReviewInv, NEW decision, ReviewerDecides(decision)
  PROVE ReviewInv'
<1>1. /\ pc \in InRoles /\ Admitted
      /\ calls' = Counted /\ made' = made + 1 /\ tools' = tools /\ overdue' = overdue
  BY Zenon DEF ReviewerDecides, InRoles
<1>2. Refusal = "" /\ tools = 0
  BY <1>1, Zenon DEF ReviewInv, BeforeReply
<1>3. tools \in Nat /\ tools' \in Nat
  BY <1>1, <1>2
<1>4. ASSUME NEW code \in Codes, NEW text \in Texts, Earned(code, text),
             Finish(code, text, Counted, tools)
      PROVE ReviewInv'
  BY <1>1, <1>3, <1>4, RoleAnswers, Zenon
<1>5. CASE Accept
  <2>1. CASE Validates(candidate)
    <3>1. Finish("ACCEPTED", candidate, Counted, tools)
      BY <1>1, <1>5, <2>1, Zenon DEF Accept
    <3>2. candidate = "reworded" \/ candidate = "summary"
      BY <2>1, Zenon DEF Validates
    <3>3. "ACCEPTED" \in Codes /\ "ACCEPTED" \in Accepting /\ candidate \in Texts
      BY <3>2, CodesOfReplies DEF Accepting, Written
    <3>4. Earned("ACCEPTED", candidate)
      BY <1>2, <2>1, <3>3, Zenon DEF Earned
    <3> QED
      BY <1>4, <3>1, <3>3, <3>4
  <2>2. CASE ~Validates(candidate)
    <3>1. Finish("DETERMINISTIC_FALLBACK", Fallback, Counted, tools)
      BY <1>1, <1>5, <2>2, Zenon DEF Accept
    <3>2. "DETERMINISTIC_FALLBACK" \in Codes
      BY CodesOfReplies
    <3> QED
      BY <1>4, <3>1, <3>2, FallbackIsEarned
  <2> QED
    BY <2>1, <2>2
<1>6. CASE pc' = "revision" /\ Stay
  <2>1. pc' \in InRoles
    BY <1>6 DEF InRoles
  <2> QED
    BY <1>1, <1>6, <2>1, RoleGoesOn, Zenon
<1>7. CASE \E code \in {"REVIEW_REJECTED", "REVIEW_ESCALATED"} :
             Finish(code, Fallback, Counted, tools)
  <2>1. PICK code \in {"REVIEW_REJECTED", "REVIEW_ESCALATED"} :
             Finish(code, Fallback, Counted, tools)
    BY <1>7
  <2>2. code \in Codes
    BY CodesOfReplies
  <2> QED
    BY <1>4, <2>1, <2>2, FallbackIsEarned
<1> QED
  BY <1>1, <1>5, <1>6, <1>7, Zenon DEF ReviewerDecides

LEMMA PlannerRevisesStep ==
  ASSUME ReviewInv, NEW text \in Written \cup {"summary"}, PlannerRevises(text)
  PROVE ReviewInv'
<1>1. /\ pc \in InRoles /\ Admitted
      /\ calls' = Counted /\ made' = made + 1 /\ tools' = tools /\ overdue' = overdue
  BY Zenon DEF PlannerRevises, InRoles
<1>2. Refusal = "" /\ tools = 0
  BY <1>1, Zenon DEF ReviewInv, BeforeReply
<1>3. tools \in Nat /\ tools' \in Nat
  BY <1>1, <1>2
<1>4. CASE Validates(text)
  <2>1. Finish("REVISED_ACCEPTED", text, Counted, tools)
    BY <1>1, <1>4, Zenon DEF PlannerRevises, JudgeRevision, AcceptRevision
  <2>2. "REVISED_ACCEPTED" \in Codes /\ "REVISED_ACCEPTED" \in Accepting /\ text \in Texts
    BY CodesOfReplies DEF Accepting
  <2>3. Earned("REVISED_ACCEPTED", text)
    BY <1>2, <1>4, <2>2, Zenon DEF Earned
  <2> QED
    BY <1>1, <1>3, <2>1, <2>2, <2>3, RoleAnswers, Zenon
<1>5. CASE ~Validates(text)
  <2>1. Finish("DETERMINISTIC_FALLBACK", Fallback, Counted, tools)
    BY <1>1, <1>5, Zenon DEF PlannerRevises, JudgeRevision
  <2>2. "DETERMINISTIC_FALLBACK" \in Codes
    BY CodesOfReplies
  <2>3. Fallback \in Texts /\ Earned("DETERMINISTIC_FALLBACK", Fallback)
    BY FallbackIsEarned
  <2> QED
    BY <1>1, <1>3, <2>1, <2>2, <2>3, RoleAnswers, Zenon
<1> QED
  BY <1>4, <1>5

LEMMA NoEnhancementStep ==
  ASSUME ReviewInv, NoEnhancement
  PROVE ReviewInv'
<1>1. pc = "start" /\ UNCHANGED <<calls, made, tools, overdue>>
  BY Zenon DEF NoEnhancement, job
<1>2. made' = made + 0
  <2>1. made \in Nat
    BY Zenon DEF ReviewInv, ReviewTypeOK
  <2> QED
    BY <1>1, <2>1
<1>3. FALSE \in BOOLEAN /\ 0 \in {0, 1} /\ 0 # 1
  OBVIOUS
<1>4. PICK code \in {"fallback_deterministic", "fallback_context_budget"} :
        \E body : body = Body("200", Fallback, code, 0, FALSE) /\ Answer(body)
  BY Zenon DEF NoEnhancement, Evidence
<1>5. PICK body : body = Body("200", Fallback, code, 0, FALSE) /\ Answer(body)
  BY <1>4
<1>6. EarnedAlone(code, Fallback) /\ Fallback \in Texts /\ code \in Codes
  BY FallbackIsNoModelText, CodesOfReplies DEF EarnedAlone
<1> QED
  BY <1>1, <1>2, <1>3, <1>5, <1>6, SingleAnswers, Zenon

LEMMA EnhanceStep ==
  ASSUME ReviewInv, NEW code \in Codes, NEW text \in Texts, NEW over \in BOOLEAN,
         Enhance(code, text, over),
         text \in Written => Validates(text) /\ code \in Accepting
  PROVE ReviewInv'
<1>1. /\ pc = "start" /\ mode = "single_agent" /\ plan.risk = "NONE" /\ made' = made + 1
      /\ UNCHANGED <<calls, tools, overdue>>
  BY Zenon DEF Enhance
<1>2. PICK body : body = Body("200", text, code, 1, over) /\ Answer(body)
  BY Zenon DEF Enhance, Evidence
<1>3. EarnedAlone(code, text)
  BY <1>1, Zenon DEF EarnedAlone
<1>4. 1 \in {0, 1}
  BY Zenon
<1> QED
  BY <1>1, <1>2, <1>3, <1>4, SingleAnswers, Zenon

LEMMA EnhanceFailsStep ==
  ASSUME ReviewInv, NEW over \in BOOLEAN, EnhanceFails(over)
  PROVE ReviewInv'
<1>1. PICK code \in {"fallback_context_budget", "fallback_error"} : Enhance(code, Fallback, over)
  BY Zenon DEF EnhanceFails
<1>2. code \in Codes /\ Fallback \in Texts /\ Fallback \notin Written
  BY FallbackIsNoModelText, CodesOfReplies
<1> QED
  BY <1>1, <1>2, EnhanceStep, Zenon

LEMMA EnhanceWritesStep ==
  ASSUME ReviewInv, NEW text \in Written, NEW over \in BOOLEAN, NEW asksTools \in BOOLEAN,
         EnhanceWrites(text, over, asksTools)
  PROVE ReviewInv'
<1>1. CASE ~over /\ ~asksTools /\ Validates(text)
  <2>1. Enhance("ok", text, over)
    BY <1>1, Zenon DEF EnhanceWrites
  <2>2. "ok" \in Codes /\ "ok" \in Accepting /\ text \in Texts
    BY CodesOfReplies DEF Accepting
  <2> QED
    BY <1>1, <2>1, <2>2, EnhanceStep, Zenon
<1>2. CASE ~(~over /\ ~asksTools /\ Validates(text))
  <2>1. PICK code \in {"fallback_context_budget", "fallback_validation"} :
          Enhance(code, Fallback, over)
    BY <1>2, Zenon DEF EnhanceWrites
  <2>2. code \in Codes /\ Fallback \in Texts /\ Fallback \notin Written
    BY FallbackIsNoModelText, CodesOfReplies
  <2> QED
    BY <2>1, <2>2, EnhanceStep, Zenon
<1> QED
  BY <1>1, <1>2

\* Frappe only chooses between the reply and its own fallback.
LEMMA KeptStep ==
  ASSUME ReviewInv, UNCHANGED <<plan, mode, job, reply>>, pc' \in {pc, "stored"},
         stored' \in {stored, reply, FrappeFallback}
  PROVE ReviewInv'
<1>1. /\ ReviewTypeOK /\ BeforeReply /\ AccountHolds
      /\ Vouched(reply) /\ Taken(reply, made) /\ Vouched(stored)
  BY Zenon DEF ReviewInv
<1>2. /\ plan' = plan /\ mode' = mode /\ reply' = reply /\ calls' = calls /\ made' = made
      /\ tools' = tools /\ overdue' = overdue
  BY Zenon DEF job
<1>3. stored' \in Replies /\ Vouched(stored')
  <2>1. stored \in Replies /\ reply \in Replies
    BY <1>1, Zenon DEF ReviewTypeOK
  <2> QED
    BY <1>1, <2>1, NothingIsSound, Zenon
<1>4. ReviewTypeOK'
  <2>1. pc' \in {"start", "replied", "stored"} \cup InRoles
    BY <1>1, Zenon DEF ReviewTypeOK
  <2> QED
    BY <1>1, <1>2, <1>3, <2>1, Zenon DEF ReviewTypeOK
<1>5. BeforeReply'
  <2>1. Refusal' = Refusal
    BY <1>2, SameRequest, Zenon
  <2>2. pc' = pc \/ (pc' # "start" /\ pc' \notin InRoles)
    BY DEF InRoles
  <2> QED
    BY <1>1, <1>2, <2>1, <2>2, Zenon DEF BeforeReply, Nothing, Body
<1>6. AccountHolds'
  BY <1>1, <1>2, Zenon DEF AccountHolds, Total
<1>7. Vouched(reply)' /\ Taken(reply, made)' /\ Vouched(stored)'
  BY <1>1, <1>2, <1>3, SameRequest
<1> QED
  BY <1>4, <1>5, <1>6, <1>7, Zenon DEF ReviewInv

LEMMA ReviewStarts ==
  ASSUME ReviewInit
  PROVE ReviewInv
<1>1. ReviewTypeOK
  <2>1. Nothing \in Replies
    BY NothingIsSound
  <2> QED
    BY <2>1 DEF ReviewInit, ReviewTypeOK
<1>2. BeforeReply
  BY DEF ReviewInit, BeforeReply, InRoles
<1>3. AccountHolds
  <2>1. made = 0 /\ calls = [r \in ReviewRoles |-> 0]
    BY Zenon DEF ReviewInit
  <2>2. calls["planner"] = 0 /\ calls["reviewer"] = 0
    BY <2>1 DEF ReviewRoles
  <2> QED
    BY <2>1, <2>2, ReviewAssumption DEF AccountHolds, Total
<1>4. Vouched(reply) /\ Taken(reply, made) /\ Vouched(stored)
  BY NothingIsSound, Zenon DEF ReviewInit
<1> QED
  BY <1>1, <1>2, <1>3, <1>4, Zenon DEF ReviewInv

LEMMA ReviewSteps ==
  ASSUME ReviewInv, [ReviewNext]_review
  PROVE ReviewInv'
<1>1. CASE NoProvider \/ Start \/ Deadline \/ Denied
  BY <1>1, NoProviderStep, StartStep, DeadlineStep, DeniedStep
<1>2. ASSUME NEW code \in FailureCodes, CallFails(code)
      PROVE ReviewInv'
  BY <1>2, CallFailsStep
<1>3. ASSUME NEW k \in 1..MaxToolCalls, AsksTools(k)
      PROVE ReviewInv'
  BY <1>3, AsksToolsStep
<1>4. ASSUME NEW text \in Written \cup {"summary"}, PlannerWrites(text) \/ PlannerRevises(text)
      PROVE ReviewInv'
  BY <1>4, PlannerWritesStep, PlannerRevisesStep
<1>5. ASSUME NEW d \in {"ACCEPT", "REVISE", "REJECT", "ESCALATE"}, ReviewerDecides(d)
      PROVE ReviewInv'
  BY <1>5, ReviewerDecidesStep
<1>6. CASE NoEnhancement
  BY <1>6, NoEnhancementStep
<1>7. ASSUME NEW over \in BOOLEAN, EnhanceFails(over)
      PROVE ReviewInv'
  BY <1>7, EnhanceFailsStep
<1>8. ASSUME NEW text \in Written, NEW over \in BOOLEAN, NEW asksTools \in BOOLEAN,
             EnhanceWrites(text, over, asksTools)
      PROVE ReviewInv'
  BY <1>8, EnhanceWritesStep
<1>9. CASE KeepReply
  BY <1>9, KeptStep, Zenon DEF KeepReply
<1>10. CASE LinkFails
  BY <1>10, KeptStep, Zenon DEF LinkFails
<1>11. CASE UNCHANGED review
  BY <1>11, KeptStep, Zenon DEF review, job
<1> QED
  BY <1>1, <1>2, <1>3, <1>4, <1>5, <1>6, <1>7, <1>8, <1>9, <1>10, <1>11, Zenon DEF ReviewNext, Done

---------------------------------------------------------------------------
(***************************************************************************)
(* The theorems.                                                           *)
(***************************************************************************)
\* The strengthening every behaviour satisfies: who may be called, what the account says,
\* and what a reply may hold.  (run_planner_reviewer, enhance_plan)
THEOREM ReviewInvariant == ReviewSpec => []ReviewInv
<1>1. ReviewInit => ReviewInv
  BY ReviewStarts
<1>2. ReviewInv /\ [ReviewNext]_review => ReviewInv'
  BY ReviewSteps
<1> QED
  BY <1>1, <1>2, PTL DEF ReviewSpec

\* For every budget: a reply counts exactly the model calls that were made, they keep to
\* the budgets of the chain and of each role, and what the orchestration reports is
\* evidence the app takes.  (call_role, _make_result, _safe_orchestration_evidence)
THEOREM RepliesAreAccountedFor == ReviewSpec => [](EveryCallIsCounted /\ EvidenceIsTaken)
<1>1. ReviewInv => EveryCallIsCounted /\ EvidenceIsTaken
  BY Zenon DEF ReviewInv, AccountHolds, Taken, EveryCallIsCounted, EvidenceIsTaken
<1> QED
  BY <1>1, ReviewInvariant, PTL

---------------------------------------------------------------------------
(***************************************************************************)
(* The tool calling agent, for any tools, arguments, contents and budgets. *)
(*                                                                         *)
(* The preflight is a check made before the call, against usage as it then *)
(* is; what it reserved is still free when the call is charged, because    *)
(* nothing else is charged while a call is awaited.  So the invariant      *)
(* keeps the preflight's two inequalities as long as the loop is at the    *)
(* provider.  A read is counted in the same step that starts it, and a     *)
(* call that is started was never seen before.                             *)
(***************************************************************************)
KernelFields == {"pc", "step", "code"}
AgentTypeOK ==
  /\ DOMAIN kernel = KernelFields
  /\ usage \in [output : Nat, cost : Nat] /\ honest \in BOOLEAN
  /\ asked \subseteq Tools \X Args /\ counts \in [Tools -> Nat]
  /\ reads \in [Tools \X Args -> Nat]

\* What the preflight reserved for the call in flight is still free
ReservationHolds ==
  kernel.pc = "model" =>
    /\ Units \in Nat
    /\ usage.output + MaxOutput <= MaxTotalOutput
    /\ usage.cost + Reserved(Units) <= MaxCost

\* A call is read when it is first seen, and its tool is counted for it
ReadsCounted ==
  /\ \A c \in Tools \X Args : reads[c] <= 1 /\ (reads[c] > 0 => c \in asked)
  /\ \A t \in Tools :
       /\ IsFiniteSet(CallsMade(t))
       /\ Cardinality(CallsMade(t)) <= counts[t] /\ Cardinality(CallsMade(t)) <= MaxCallsPerTool

AgentInv == AgentTypeOK /\ ReservationHolds /\ NeverOverspends /\ ReadsCounted

LEMMA CostIsSubadditive ==
  ASSUME NEW p \in Nat, NEW o \in Nat, NEW u \in Nat, NEW m \in Nat, p <= u, o <= m
  PROVE CostOf(p + o) \in Nat /\ CostOf(p + o) <= CostOf(u) + CostOf(m)
BY DEF CostOf

\* The rendering the request is made of has a size.
LEMMA UnitsAreCounted ==
  ASSUME Fitting # {}
  PROVE Units \in Nat
<1>1. Fitting \subseteq 1..4
  BY DEF Fitting
<1>2. PICK r \in Fitting : \A s \in Fitting : r <= s
  <2>1. CASE 1 \in Fitting
    BY <1>1, <2>1
  <2>2. CASE 1 \notin Fitting /\ 2 \in Fitting
    BY <1>1, <2>2
  <2>3. CASE 1 \notin Fitting /\ 2 \notin Fitting /\ 3 \in Fitting
    BY <1>1, <2>3
  <2>4. CASE Fitting = {4}
    BY <2>4
  <2>5. Fitting = {4} \/ 1 \in Fitting \/ 2 \in Fitting \/ 3 \in Fitting
    <3>1. PICK r \in Fitting : TRUE
      OBVIOUS
    <3>2. \A s \in Fitting : s = 1 \/ s = 2 \/ s = 3 \/ s = 4
      BY <1>1
    <3> QED
      BY <3>1, <3>2
  <2> QED
    BY <2>1, <2>2, <2>3, <2>4, <2>5
<1>3. Rendering \in Fitting
  BY <1>2, Zenon DEF Rendering, Min
<1>4. Renderings[Rendering] \in 0..ContextBudget
  BY <1>3, Zenon DEF Fitting
<1>5. ContextBudget \in Nat
  BY KernelAssumption
<1> QED
  BY <1>4, <1>5 DEF Units

LEMMA KernelMoves ==
  ASSUME DOMAIN kernel = KernelFields
  PROVE /\ \A events, code : Stop(events, code) \/ Refuse(events, code) =>
             DOMAIN kernel' = KernelFields /\ kernel'.pc = "stopped"
        /\ \A events, at : Continue(events, at) =>
             DOMAIN kernel' = KernelFields /\ kernel'.pc = at
<1>1. ASSUME NEW at, NEW code
      PROVE /\ DOMAIN [kernel EXCEPT !.pc = at, !.code = code] = KernelFields
            /\ [kernel EXCEPT !.pc = at, !.code = code].pc = at
  BY DEF KernelFields
<1>2. ASSUME NEW at
      PROVE DOMAIN [kernel EXCEPT !.pc = at] = KernelFields /\ [kernel EXCEPT !.pc = at].pc = at
  BY DEF KernelFields
<1>3. ASSUME NEW events, NEW code, Stop(events, code)
      PROVE DOMAIN kernel' = KernelFields /\ kernel'.pc = "stopped"
  BY <1>1, <1>3, Zenon DEF Stop
<1>4. ASSUME NEW events, NEW code, Refuse(events, code)
      PROVE DOMAIN kernel' = KernelFields /\ kernel'.pc = "stopped"
  BY <1>3, <1>4, Zenon DEF Refuse
<1>5. ASSUME NEW events, NEW at, Continue(events, at)
      PROVE DOMAIN kernel' = KernelFields /\ kernel'.pc = at
  BY <1>2, <1>5, Zenon DEF Continue
<1> QED
  BY <1>3, <1>4, <1>5, Zenon

---------------------------------------------------------------------------
(***************************************************************************)
(* Its steps.                                                              *)
(***************************************************************************)
\* A step that charges nothing, starts no read and does not ask the provider.
LEMMA UnchargedStep ==
  ASSUME AgentInv, DOMAIN kernel' = KernelFields, kernel'.pc # "model" \/ kernel' = kernel,
         UNCHANGED <<usage, honest, asked, counts, reads>>,
         kernel'.pc = "model" => found' = found
  PROVE AgentInv'
<1>1. AgentTypeOK /\ ReservationHolds /\ NeverOverspends /\ ReadsCounted
  BY Zenon DEF AgentInv
<1>2. AgentTypeOK'
  BY <1>1 DEF AgentTypeOK
<1>3. ReservationHolds'
  <2>1. SUFFICES ASSUME kernel'.pc = "model"
                 PROVE ReservationHolds'
    BY Zenon DEF ReservationHolds
  <2>2. kernel' = kernel /\ found' = found
    BY <2>1
  <2>3. Units' = Units
    BY <2>2, Zenon DEF Units, Rendering, Renderings, Fitting
  <2> QED
    BY <1>1, <2>2, <2>3, Zenon DEF ReservationHolds, Reserved
<1>4. NeverOverspends'
  BY <1>1, Zenon DEF NeverOverspends
<1>5. ReadsCounted'
  BY <1>1, Zenon DEF ReadsCounted, CallsMade
<1> QED
  BY <1>2, <1>3, <1>4, <1>5, Zenon DEF AgentInv

LEMMA BudgetConstants ==
  /\ MaxOutput \in Nat /\ MaxTotalOutput \in Nat /\ MaxCost \in Nat
  /\ ContextBudget \in Nat /\ MaxCallsPerTool \in Nat
BY KernelAssumption

\* A charge keeps to the reservation if the provider keeps to the caps.
\* (BudgetAccount.preflight and record)
LEMMA ChargeKeepsBudget ==
  ASSUME AgentInv, kernel.pc = "model", NEW prompt \in PromptUsage, NEW output \in OutputUsage,
         Charge(prompt, output)
  PROVE /\ usage' \in [output : Nat, cost : Nat] /\ honest' \in BOOLEAN
        /\ NeverOverspends'
<1>1. /\ usage \in [output : Nat, cost : Nat] /\ Units \in Nat
      /\ usage.output + MaxOutput <= MaxTotalOutput
      /\ usage.cost + Reserved(Units) <= MaxCost
  BY Zenon DEF AgentInv, AgentTypeOK, ReservationHolds
<1>2. prompt \in Nat /\ output \in Nat
  BY <1>1, BudgetConstants DEF PromptUsage, OutputUsage
<1>3. usage' = [output |-> usage.output + output, cost |-> usage.cost + CostOf(prompt + output)]
  BY Zenon DEF Charge, Charged
<1>4. CostOf(prompt + output) \in Nat /\ CostOf(Units) \in Nat /\ CostOf(MaxOutput) \in Nat
  BY <1>1, <1>2, BudgetConstants DEF CostOf
<1>5. usage' \in [output : Nat, cost : Nat] /\ usage'.output = usage.output + output
      /\ usage'.cost = usage.cost + CostOf(prompt + output)
  BY <1>1, <1>2, <1>3, <1>4
<1>6. honest' \in BOOLEAN /\ (honest' => output <= MaxOutput /\ prompt <= Units)
  BY Zenon DEF Charge
<1>7. ASSUME output <= MaxOutput, prompt <= Units
      PROVE usage'.cost <= MaxCost /\ usage'.output <= MaxTotalOutput
  <2>1. CostOf(prompt + output) <= CostOf(Units) + CostOf(MaxOutput)
    BY <1>1, <1>2, <1>7, BudgetConstants, CostIsSubadditive
  <2>2. usage.cost + CostOf(Units) + CostOf(MaxOutput) <= MaxCost
    BY <1>1, <1>4 DEF Reserved
  <2>3. usage.cost \in Nat /\ usage.output \in Nat
    BY <1>1
  <2> QED
    BY <1>1, <1>2, <1>4, <1>5, <1>7, <2>1, <2>2, <2>3, BudgetConstants
<1>8. NeverOverspends'
  BY <1>6, <1>7, Zenon DEF NeverOverspends
<1> QED
  BY <1>5, <1>6, <1>8

\* A charged response, whatever it holds, that starts no read.
LEMMA ChargedStep ==
  ASSUME AgentInv, kernel.pc = "model", NEW prompt \in PromptUsage, NEW output \in OutputUsage,
         Charge(prompt, output), DOMAIN kernel' = KernelFields, kernel'.pc # "model",
         asked' \subseteq Tools \X Args, counts' \in [Tools -> Nat],
         reads' \in [Tools \X Args -> Nat], ReadsCounted'
  PROVE AgentInv'
<1>1. /\ usage' \in [output : Nat, cost : Nat] /\ honest' \in BOOLEAN
      /\ NeverOverspends'
  BY ChargeKeepsBudget
<1>2. AgentTypeOK'
  BY <1>1, Zenon DEF AgentTypeOK
<1>3. ReservationHolds'
  BY Zenon DEF ReservationHolds
<1> QED
  BY <1>1, <1>2, <1>3, Zenon DEF AgentInv

LEMMA ChargedStop ==
  ASSUME AgentInv, kernel.pc = "model", NEW prompt \in PromptUsage, NEW output \in OutputUsage,
         Charge(prompt, output), DOMAIN kernel' = KernelFields, kernel'.pc = "stopped",
         UNCHANGED <<asked, counts, reads>>
  PROVE AgentInv'
<1>1. /\ asked \subseteq Tools \X Args /\ counts \in [Tools -> Nat]
      /\ reads \in [Tools \X Args -> Nat] /\ ReadsCounted
  BY Zenon DEF AgentInv, AgentTypeOK
<1>2. ReadsCounted'
  BY <1>1, Zenon DEF ReadsCounted, CallsMade
<1>3. kernel'.pc # "model"
  OBVIOUS
<1>4. /\ asked' \subseteq Tools \X Args /\ counts' \in [Tools -> Nat]
      /\ reads' \in [Tools \X Args -> Nat]
  BY <1>1
<1> QED
  BY <1>2, <1>3, <1>4, ChargedStep, Zenon

\* What a step of the loop that only stops, or charges and stops, may be.
LEMMA ModelStops ==
  ASSUME AgentInv, NEW prompt \in PromptUsage, NEW output \in OutputUsage,
         \/ \E b \in {"", "TOKEN_BUDGET"} : ModelFails(prompt, output, b)
         \/ Overspends(prompt, output)
         \/ \E code : RejectsCall(prompt, output, code)
         \/ RejectsText(prompt, output)
         \/ \E refs, wrong : Concludes(prompt, output, refs, wrong)
  PROVE AgentInv'
<1>1. DOMAIN kernel = KernelFields
  BY Zenon DEF AgentInv, AgentTypeOK
<1>2. /\ kernel.pc = "model" /\ Charge(prompt, output) /\ UNCHANGED <<asked, counts, reads>>
      /\ \E events, code : Stop(events, code) \/ Refuse(events, code)
  <2>1. CASE \E b \in {"", "TOKEN_BUDGET"} : ModelFails(prompt, output, b)
    BY <2>1, Zenon DEF ModelFails
  <2>2. CASE Overspends(prompt, output)
    BY <2>2, Zenon DEF Overspends
  <2>3. CASE \E code : RejectsCall(prompt, output, code)
    BY <2>3, Zenon DEF RejectsCall, Answered
  <2>4. CASE RejectsText(prompt, output)
    BY <2>4, Zenon DEF RejectsText, Answered
  <2>5. CASE \E refs, wrong : Concludes(prompt, output, refs, wrong)
    BY <2>5, Zenon DEF Concludes, Answered
  <2> QED
    BY <2>1, <2>2, <2>3, <2>4, <2>5
<1>3. DOMAIN kernel' = KernelFields /\ kernel'.pc = "stopped"
  BY <1>1, <1>2, KernelMoves, Zenon
<1> QED
  BY <1>2, <1>3, ChargedStop, Zenon

\* One more call of a tool, read once.  (RepeatedCallGuard, ToolFrequencyGuard)
LEMMA OneMoreRead ==
  ASSUME AgentInv, NEW c \in Tools \X Args, ~Repeated(c), ~TooFrequent(c),
         asked' = asked \cup {c}, counts' = [counts EXCEPT ![c[1]] = @ + 1],
         reads' = [reads EXCEPT ![c] = @ + 1]
  PROVE /\ counts' \in [Tools -> Nat] /\ reads' \in [Tools \X Args -> Nat]
        /\ ReadsCounted'
<1>1. /\ asked \subseteq Tools \X Args /\ counts \in [Tools -> Nat]
      /\ reads \in [Tools \X Args -> Nat] /\ ReadsCounted
  BY Zenon DEF AgentInv, AgentTypeOK
<1>2. c[1] \in Tools /\ c \notin asked /\ counts[c[1]] + 1 <= MaxCallsPerTool
      /\ counts[c[1]] \in Nat /\ MaxCallsPerTool \in Nat
  BY <1>1, BudgetConstants DEF Repeated, TooFrequent
<1>3. counts' \in [Tools -> Nat] /\ reads' \in [Tools \X Args -> Nat]
      /\ counts'[c[1]] = counts[c[1]] + 1
      /\ \A t \in Tools : t # c[1] => counts'[t] = counts[t]
      /\ reads'[c] = reads[c] + 1 /\ \A d \in Tools \X Args : d # c => reads'[d] = reads[d]
  BY <1>1, <1>2
<1>4. reads[c] = 0
  BY <1>1, <1>2 DEF ReadsCounted
<1>5. \A d \in Tools \X Args : reads'[d] <= 1 /\ (reads'[d] > 0 => d \in asked')
  BY <1>1, <1>3, <1>4 DEF ReadsCounted
<1>6. ASSUME NEW t \in Tools
      PROVE /\ IsFiniteSet(CallsMade(t)')
            /\ Cardinality(CallsMade(t)') <= counts'[t]
            /\ Cardinality(CallsMade(t)') <= MaxCallsPerTool
  <2>1. /\ IsFiniteSet(CallsMade(t)) /\ Cardinality(CallsMade(t)) <= counts[t]
        /\ Cardinality(CallsMade(t)) <= MaxCallsPerTool
    BY <1>1 DEF ReadsCounted
  <2>2. Cardinality(CallsMade(t)) \in Nat /\ counts[t] \in Nat
    BY <1>1, <2>1, FS_CardinalityType
  <2>3. CASE t # c[1]
    <3>1. CallsMade(t)' = CallsMade(t)
      BY <1>3, <2>3 DEF CallsMade
    <3> QED
      BY <1>3, <2>1, <2>3, <3>1
  <2>4. CASE t = c[1]
    <3>1. CallsMade(t)' = CallsMade(t) \cup {c} /\ c \notin CallsMade(t)
      BY <1>3, <1>4, <2>4 DEF CallsMade
    <3>2. /\ IsFiniteSet(CallsMade(t) \cup {c})
          /\ Cardinality(CallsMade(t) \cup {c}) = Cardinality(CallsMade(t)) + 1
      BY <2>1, <3>1, FS_AddElement
    <3>3. Cardinality(CallsMade(t)) + 1 <= counts[t] + 1 /\ counts'[t] = counts[t] + 1
      BY <1>3, <2>1, <2>2, <2>4
    <3>4. Cardinality(CallsMade(t)) + 1 <= MaxCallsPerTool
      BY <1>2, <2>1, <2>2, <2>4
    <3> QED
      BY <3>1, <3>2, <3>3, <3>4
  <2> QED
    BY <2>3, <2>4
<1>7. ReadsCounted'
  BY <1>5, <1>6 DEF ReadsCounted
<1> QED
  BY <1>3, <1>7

LEMMA CallsToolStep ==
  ASSUME AgentInv, NEW prompt \in PromptUsage, NEW output \in OutputUsage,
         NEW c \in Tools \X Args, CallsTool(prompt, output, c)
  PROVE AgentInv'
<1>1. /\ DOMAIN kernel = KernelFields /\ asked \subseteq Tools \X Args
      /\ counts \in [Tools -> Nat] /\ reads \in [Tools \X Args -> Nat] /\ ReadsCounted
  BY Zenon DEF AgentInv, AgentTypeOK
<1>2. /\ kernel.pc = "model" /\ Charge(prompt, output) /\ asked' = asked \cup {c}
      /\ counts' = IF Repeated(c) THEN counts ELSE [counts EXCEPT ![c[1]] = @ + 1]
  BY Zenon DEF CallsTool, Answered
<1>3. \/ /\ reads' = reads
         /\ \E events, code : Stop(events, code) \/ Refuse(events, code)
      \/ /\ ~Repeated(c) /\ ~TooFrequent(c) /\ reads' = [reads EXCEPT ![c] = @ + 1]
         /\ \E events : Continue(events, "tool")
  BY Zenon DEF CallsTool
<1>4. DOMAIN kernel' = KernelFields /\ kernel'.pc # "model"
  <2>1. DOMAIN kernel' = KernelFields /\ (kernel'.pc = "stopped" \/ kernel'.pc = "tool")
    BY <1>1, <1>3, KernelMoves, Zenon
  <2> QED
    BY <2>1
<1>5. asked' \subseteq Tools \X Args
  BY <1>1, <1>2
<1>6. CASE ~Repeated(c) /\ ~TooFrequent(c) /\ reads' = [reads EXCEPT ![c] = @ + 1]
  <2>1. counts' \in [Tools -> Nat] /\ reads' \in [Tools \X Args -> Nat] /\ ReadsCounted'
    BY <1>2, <1>6, OneMoreRead, Zenon
  <2> QED
    BY <1>2, <1>4, <1>5, <2>1, ChargedStep, Zenon
<1>7. CASE reads' = reads
  <2>1. counts' \in [Tools -> Nat] /\ \A t \in Tools : counts[t] <= counts'[t]
    BY <1>1, <1>2
  <2>2. \A d \in Tools \X Args : reads'[d] <= 1 /\ (reads'[d] > 0 => d \in asked')
    BY <1>1, <1>2, <1>7 DEF ReadsCounted
  <2>3. ASSUME NEW t \in Tools
        PROVE /\ IsFiniteSet(CallsMade(t)')
              /\ Cardinality(CallsMade(t)') <= counts'[t]
              /\ Cardinality(CallsMade(t)') <= MaxCallsPerTool
    <3>1. CallsMade(t)' = CallsMade(t)
      BY <1>7, Zenon DEF CallsMade
    <3>2. /\ IsFiniteSet(CallsMade(t)) /\ Cardinality(CallsMade(t)) <= counts[t]
          /\ Cardinality(CallsMade(t)) <= MaxCallsPerTool
      BY <1>1 DEF ReadsCounted
    <3>3. Cardinality(CallsMade(t)) \in Nat /\ counts[t] \in Nat /\ counts'[t] \in Nat
          /\ counts[t] <= counts'[t]
      BY <1>1, <2>1, <3>2, FS_CardinalityType
    <3>4. Cardinality(CallsMade(t)) <= counts'[t]
      BY <3>2, <3>3
    <3> QED
      BY <3>1, <3>2, <3>4, Zenon
  <2>4. ReadsCounted'
    BY <2>2, <2>3 DEF ReadsCounted
  <2>5. reads' \in [Tools \X Args -> Nat]
    BY <1>1, <1>7
  <2> QED
    BY <1>2, <1>4, <1>5, <2>1, <2>4, <2>5, ChargedStep, Zenon
<1> QED
  BY <1>3, <1>6, <1>7

\* The request is only sent after the preflight: what it reserves is free.
MayAsk == Fitting # {} /\ Preflight(Units) = ""
LEMMA PreflightReserves ==
  ASSUME AgentInv, MayAsk
  PROVE /\ Units \in Nat /\ usage.output + MaxOutput <= MaxTotalOutput
        /\ usage.cost + Reserved(Units) <= MaxCost
<1>1. Units \in Nat
  BY UnitsAreCounted, Zenon DEF MayAsk
<1>2. usage.output \in Nat /\ usage.cost \in Nat
  <2>1. usage \in [output : Nat, cost : Nat]
    BY Zenon DEF AgentInv, AgentTypeOK
  <2> QED
    BY <2>1
<1>3. Reserved(Units) \in Nat
  BY <1>1, BudgetConstants DEF Reserved, CostOf
<1>4. ~late /\ ~(usage.output + MaxOutput > MaxTotalOutput)
  <2>1. usage.output + MaxOutput > MaxTotalOutput
          => ~(usage.output + MaxOutput <= MaxTotalOutput)
    BY <1>2, BudgetConstants
  <2>2. "" # "WALL_TIME_BUDGET" /\ "" # "TOKEN_BUDGET"
    OBVIOUS
  <2>3. ~late
    BY <2>2, Zenon DEF MayAsk, Preflight
  <2> QED
    BY <2>1, <2>2, <2>3, Zenon DEF MayAsk, Preflight
<1>5. usage.output + MaxOutput <= MaxTotalOutput
  <2>1. ~(usage.output + MaxOutput > MaxTotalOutput)
    BY <1>4
  <2> QED
    BY <1>2, <2>1, BudgetConstants
<1>6. ~(usage.cost + Reserved(Units) > MaxCost)
  <2>1. "" # "COST_BUDGET"
    OBVIOUS
  <2> QED
    BY <1>4, <1>5, <2>1, Zenon DEF MayAsk, Preflight
<1> QED
  BY <1>1, <1>2, <1>3, <1>5, <1>6, BudgetConstants

LEMMA PrepareStep ==
  ASSUME AgentInv, Prepare
  PROVE AgentInv'
<1>1. DOMAIN kernel = KernelFields
  BY Zenon DEF AgentInv, AgentTypeOK
<1>2. UNCHANGED <<usage, honest, asked, counts, reads>> /\ found' = found
  BY Zenon DEF Prepare, loop
<1>3. \/ \E events, code : Stop(events, code) \/ Refuse(events, code)
      \/ /\ Fitting # {} /\ Preflight(Units) = "" /\ \E events : Continue(events, "model")
  BY Zenon DEF Prepare
<1>4. CASE \E events, code : Stop(events, code) \/ Refuse(events, code)
  <2>1. DOMAIN kernel' = KernelFields /\ kernel'.pc = "stopped"
    BY <1>1, <1>4, KernelMoves, Zenon
  <2>2. kernel'.pc # "model"
    BY <2>1
  <2> QED
    BY <1>2, <2>1, <2>2, UnchargedStep, Zenon
<1>5. CASE Fitting # {} /\ Preflight(Units) = "" /\ \E events : Continue(events, "model")
  <2>1. DOMAIN kernel' = KernelFields
    BY <1>1, <1>5, KernelMoves, Zenon
  <2>2. AgentTypeOK /\ NeverOverspends /\ ReadsCounted
    BY Zenon DEF AgentInv
  <2>3. Units' = Units
    BY <1>2, Zenon DEF Units, Rendering, Renderings, Fitting
  <2>4. AgentTypeOK'
    BY <1>2, <2>1, <2>2 DEF AgentTypeOK
  <2>5. ReservationHolds'
    BY <1>2, <1>5, <2>3, PreflightReserves, Zenon DEF ReservationHolds, Reserved, MayAsk
  <2>6. NeverOverspends' /\ ReadsCounted'
    BY <1>2, <2>2, Zenon DEF NeverOverspends, ReadsCounted, CallsMade
  <2> QED
    BY <2>4, <2>5, <2>6, Zenon DEF AgentInv
<1> QED
  BY <1>3, <1>4, <1>5

LEMMA OtherAgentStep ==
  ASSUME AgentInv,
         \/ Begin \/ ModelBreaks \/ ToolStep \/ TimeOut \/ Cancelled \/ Expire \/ Receive
         \/ HangUp \/ Finished
  PROVE AgentInv'
<1>1. DOMAIN kernel = KernelFields
  BY Zenon DEF AgentInv, AgentTypeOK
<1>2. UNCHANGED <<usage, honest, asked, counts, reads>>
  BY Zenon DEF Begin, ModelBreaks, ToolStep, ToolAnswers, ToolFails, TimeOut, ModelTimesOut,
               ToolTimesOut, Cancelled, Expire, Receive, HangUp, Finished, loop, vars
<1>3. CASE Begin
  <2>1. \/ \E code : kernel' = [pc |-> "stopped", step |-> 0, code |-> code]
        \/ kernel' = [kernel EXCEPT !.pc = "top", !.step = 1]
    BY <1>3, Zenon DEF Begin
  <2>2. DOMAIN kernel' = KernelFields /\ kernel'.pc # "model"
    <3>1. CASE \E code : kernel' = [pc |-> "stopped", step |-> 0, code |-> code]
      BY <3>1 DEF KernelFields
    <3>2. CASE kernel' = [kernel EXCEPT !.pc = "top", !.step = 1]
      BY <1>1, <3>2 DEF KernelFields
    <3> QED
      BY <2>1, <3>1, <3>2
  <2> QED
    BY <1>2, <2>2, UnchargedStep, Zenon
<1>4. ASSUME NEW events, NEW code, Stop(events, code)
      PROVE AgentInv'
  <2>1. DOMAIN kernel' = KernelFields /\ kernel'.pc = "stopped"
    BY <1>1, <1>4, KernelMoves, Zenon
  <2>2. kernel'.pc # "model"
    BY <2>1
  <2> QED
    BY <1>2, <2>1, <2>2, UnchargedStep, Zenon
<1>5. CASE ModelBreaks \/ TimeOut \/ Cancelled \/ ToolFails
  BY <1>4, <1>5, Zenon DEF ModelBreaks, TimeOut, ModelTimesOut, ToolTimesOut, Cancelled, ToolFails
<1>6. CASE \E content \in Contents, redacted \in BOOLEAN : ToolAnswers(content, redacted)
  <2>1. PICK content \in Contents, redacted \in BOOLEAN : ToolAnswers(content, redacted)
    BY <1>6, Zenon
  <2>2. \/ \E events, code : Stop(events, code)
        \/ kernel' = [kernel EXCEPT !.pc = "top", !.step = @ + 1]
    BY <2>1, Zenon DEF ToolAnswers
  <2>3. CASE kernel' = [kernel EXCEPT !.pc = "top", !.step = @ + 1]
    <3>1. DOMAIN kernel' = KernelFields /\ kernel'.pc # "model"
      BY <1>1, <2>3 DEF KernelFields
    <3> QED
      BY <1>2, <3>1, UnchargedStep, Zenon
  <2> QED
    BY <1>4, <2>2, <2>3, Zenon
<1>7. CASE Expire \/ Receive \/ Finished
  <2>1. kernel' = kernel /\ found' = found
    BY <1>7, Zenon DEF Expire, Receive, Finished, loop, vars
  <2> QED
    BY <1>1, <1>2, <2>1, UnchargedStep, Zenon
<1>8. CASE HangUp
  <2>1. found' = found
    BY <1>8, Zenon DEF HangUp, loop
  <2>2. kernel' = [kernel EXCEPT !.pc = "stopped"] \/ kernel' = kernel
    BY <1>8, Zenon DEF HangUp
  <2>3. DOMAIN kernel' = KernelFields /\ (kernel'.pc # "model" \/ kernel' = kernel)
    <3>1. CASE kernel' = [kernel EXCEPT !.pc = "stopped"]
      BY <1>1, <3>1 DEF KernelFields
    <3>2. CASE kernel' = kernel
      BY <1>1, <3>2
    <3> QED
      BY <2>2, <3>1, <3>2
  <2> QED
    BY <1>2, <2>1, <2>3, UnchargedStep, Zenon
<1> QED
  BY <1>3, <1>5, <1>6, <1>7, <1>8, Zenon DEF ToolStep

LEMMA ModelStepKeeps ==
  ASSUME AgentInv, ModelStep
  PROVE AgentInv'
<1>1. PICK prompt \in PromptUsage, output \in OutputUsage :
        \/ \E b \in {"", "TOKEN_BUDGET"} : ModelFails(prompt, output, b)
        \/ Overspends(prompt, output)
        \/ \E code \in {"MODEL_ERROR", "TOOL_NOT_ALLOWED", "INVALID_TOOL_ARGS"} :
             RejectsCall(prompt, output, code)
        \/ RejectsText(prompt, output)
        \/ \E refs \in References, wrong \in BOOLEAN : Concludes(prompt, output, refs, wrong)
        \/ \E c \in Tools \X Args : CallsTool(prompt, output, c)
  BY Zenon DEF ModelStep
<1>2. CASE \E c \in Tools \X Args : CallsTool(prompt, output, c)
  BY <1>2, CallsToolStep, Zenon
<1>3. CASE ~ \E c \in Tools \X Args : CallsTool(prompt, output, c)
  BY <1>1, <1>3, ModelStops, Zenon
<1> QED
  BY <1>2, <1>3

LEMMA AgentStep ==
  ASSUME AgentInv, [Next]_vars
  PROVE AgentInv'
<1>1. CASE Prepare
  BY <1>1, PrepareStep
<1>2. CASE ModelStep
  BY <1>2, ModelStepKeeps
<1>3. CASE UNCHANGED vars
  <2>1. /\ UNCHANGED <<usage, honest, asked, counts, reads>> /\ kernel' = kernel
        /\ found' = found
    BY <1>3, Zenon DEF vars
  <2>2. DOMAIN kernel' = KernelFields
    BY <2>1, Zenon DEF AgentInv, AgentTypeOK
  <2> QED
    BY <2>1, <2>2, UnchargedStep, Zenon
<1> QED
  BY <1>1, <1>2, <1>3, OtherAgentStep, Zenon DEF Next

LEMMA AgentStarts ==
  ASSUME Init
  PROVE AgentInv
<1>1. /\ kernel = [pc |-> "idle", step |-> 0, code |-> ""] /\ asked = {}
      /\ counts = [t \in Tools |-> 0] /\ reads = [c \in Tools \X Args |-> 0]
      /\ usage = [output |-> 0, cost |-> 0]
  BY Zenon DEF Init
<1>2. AgentTypeOK
  <2>1. DOMAIN kernel = KernelFields
    BY <1>1 DEF KernelFields
  <2>2. usage \in [output : Nat, cost : Nat]
    BY <1>1
  <2>3. honest \in BOOLEAN
    BY Zenon DEF Init
  <2>4. /\ asked \subseteq Tools \X Args /\ counts \in [Tools -> Nat]
        /\ reads \in [Tools \X Args -> Nat]
    BY <1>1
  <2> QED
    BY <2>1, <2>2, <2>3, <2>4, Zenon DEF AgentTypeOK
<1>3. ReservationHolds
  <2>1. kernel.pc # "model"
    BY <1>1
  <2> QED
    BY <2>1, Zenon DEF ReservationHolds
<1>4. NeverOverspends
  <2>1. usage.cost = 0 /\ usage.output = 0
    BY <1>1
  <2>2. usage.cost <= MaxCost /\ usage.output <= MaxTotalOutput
    BY <2>1, BudgetConstants
  <2> QED
    BY <2>2, Zenon DEF NeverOverspends
<1>5. ReadsCounted
  <2>1. ASSUME NEW t \in Tools
        PROVE CallsMade(t) = {}
    <3>1. \A c \in Tools \X Args : ~(reads[c] > 0)
      <4>1. \A c \in Tools \X Args : reads[c] = 0
        BY <1>1, Zenon
      <4> QED
        BY <4>1
    <3> QED
      BY <3>1, Zenon DEF CallsMade
  <2>2. IsFiniteSet({}) /\ Cardinality({}) = 0
    BY FS_EmptySet
  <2>3. \A c \in Tools \X Args : reads[c] = 0
    BY <1>1, Zenon
  <2>4. \A c \in Tools \X Args : reads[c] <= 1 /\ (reads[c] > 0 => c \in asked)
    BY <2>3
  <2>5. \A t \in Tools : 0 <= counts[t] /\ 0 <= MaxCallsPerTool
    <3>1. \A t \in Tools : counts[t] = 0
      BY <1>1, Zenon
    <3> QED
      BY <3>1, BudgetConstants
  <2> QED
    BY <2>1, <2>2, <2>4, <2>5, Zenon DEF ReadsCounted
<1> QED
  BY <1>2, <1>3, <1>4, <1>5, Zenon DEF AgentInv

\* For any tools, arguments and budgets: what the preflight reserved stays free while a
\* call is at the provider, and a read is counted by the step that starts it.
\* (BudgetAccount, RepeatedCallGuard, ToolFrequencyGuard)
THEOREM AgentInvariant == Spec => []AgentInv
<1>1. Init => AgentInv
  BY AgentStarts
<1>2. AgentInv /\ [Next]_vars => AgentInv'
  BY AgentStep
<1> QED
  BY <1>1, <1>2, PTL DEF Spec

---------------------------------------------------------------------------
(***************************************************************************)
(* The trace of the agent, for any tools, contents and budgets.            *)
(*                                                                         *)
(* Frappe reads the trace event by event, and so does the proof: what each *)
(* kind of event makes of the trace is shown once, and then what a step of *)
(* the loop leaves of it.  Between two steps the trace is one that Frappe  *)
(* would accept so far, with the tool in flight pending and nothing else;  *)
(* where a step stops, it is accepted under the step's code, or was cut    *)
(* inside an action.                                                       *)
(***************************************************************************)
TraceFields == {"ok", "pending", "context", "models", "last", "observed", "proposal", "claim",
                "validated", "over", "altered"}
TraceTyped(v) ==
  /\ DOMAIN v = TraceFields
  /\ v.ok \in BOOLEAN /\ v.validated \in BOOLEAN /\ v.over \in BOOLEAN /\ v.altered \in BOOLEAN
  /\ v.claim \in BOOLEAN
  /\ v.context \subseteq 1..MaxSteps /\ v.models \subseteq 1..MaxSteps
  /\ v.observed \subseteq Digests /\ v.proposal \subseteq Digests

\* r is v but for the fields of S
SameBut(v, r, S) == DOMAIN r = TraceFields /\ \A f \in TraceFields \ S : r[f] = v[f]

---------------------------------------------------------------------------
(***************************************************************************)
(* What an event makes of a trace.  (_validate_trace_semantics)            *)
(***************************************************************************)
LEMMA PlainIs ==
  ASSUME NEW kind
  PROVE Plain(kind).kind = kind /\ Plain(kind).step = kernel.step /\ Plain(kind).marks = {}
BY Zenon DEF Plain, Event

LEMMA QuietEvent ==
  ASSUME NEW v, NEW e, e.kind = "skill.loaded" \/ e.kind = "guard.checked"
  PROVE Add(v, e) = v
<1>1. ReadEvent(v, e) = v
  BY Zenon DEF ReadEvent
<1> QED
  BY <1>1, Zenon DEF Add

LEMMA QuietAdds ==
  ASSUME NEW v
  PROVE Add(v, Plain("skill.loaded")) = v /\ Add(v, Plain("guard.checked")) = v
<1>1. PICK e : e = Plain("skill.loaded")
  OBVIOUS
<1>2. PICK f : f = Plain("guard.checked")
  OBVIOUS
<1>3. e.kind = "skill.loaded" /\ f.kind = "guard.checked"
  BY <1>1, <1>2, PlainIs, Zenon
<1>4. Add(v, e) = v /\ Add(v, f) = v
  BY <1>3, QuietEvent, Zenon
<1> QED
  BY <1>1, <1>2, <1>4, Zenon

LEMMA ContextEvent ==
  ASSUME NEW v, TraceTyped(v), NEW e, e.kind = "context.assembled"
  PROVE LET r == Add(v, e)
        IN /\ SameBut(v, r, {"ok", "over", "context", "last"})
           /\ r.context = v.context \cup {e.step} /\ r.last = <<"context.assembled", e.step>>
           /\ r.ok = (v.ok /\ (e.step \in v.context => e.step \in v.models /\ "actual" \in e.marks))
           /\ r.over = (v.over \/ "over" \in e.marks)
<1>1. ReadEvent(v, e) =
        [v EXCEPT !.ok = @ /\ (e.step \in v.context => e.step \in v.models /\ "actual" \in e.marks),
                          !.over = @ \/ "over" \in e.marks,
                          !.context = @ \cup {e.step}, !.last = <<e.kind, e.step>>]
  BY Zenon DEF ReadEvent
<1> QED
  BY <1>1 DEF Add, TraceTyped, TraceFields, SameBut

LEMMA CompressedEvent ==
  ASSUME NEW v, TraceTyped(v), NEW e, e.kind = "context.compressed"
  PROVE LET r == Add(v, e)
        IN /\ SameBut(v, r, {"ok", "last"})
           /\ r.ok = (v.ok /\ v.last = <<"context.assembled", e.step>>)
<1>1. ReadEvent(v, e) = [v EXCEPT !.ok = @ /\ v.last = <<"context.assembled", e.step>>,
                          !.last = <<e.kind, e.step>>]
  BY Zenon DEF ReadEvent
<1> QED
  BY <1>1 DEF Add, TraceTyped, TraceFields, SameBut

LEMMA RequestedEvent ==
  ASSUME NEW v, TraceTyped(v), NEW e, e.kind = "model.requested"
  PROVE LET r == Add(v, e)
        IN /\ SameBut(v, r, {"ok", "models", "last"})
           /\ r.ok = (v.ok /\ e.step \in v.context) /\ r.models = v.models \cup {e.step}
<1>1. ReadEvent(v, e) = [v EXCEPT !.ok = @ /\ e.step \in v.context,
                          !.models = @ \cup {e.step}, !.last = <<>>]
  BY Zenon DEF ReadEvent
<1> QED
  BY <1>1 DEF Add, TraceTyped, TraceFields, SameBut

\* An event of an action that only changes what is pending.
LEMMA ActionEvent ==
  ASSUME NEW v, NEW e
  PROVE LET r == ReadEvent(v, e)
        IN /\ e.kind = "action.proposed" =>
                r = Pending(v, v.pending = <<>>, <<"action", e.tool, e.step>>)
           /\ e.kind = "action.validated" =>
                r = Pending(v, v.pending = <<"action", e.tool, e.step>>, <<"validated", e.tool, e.step>>)
           /\ e.kind \in {"action.rejected", "final.rejected"} => r = Pending(v, TRUE, <<>>)
           /\ e.kind = "tool.started" =>
                r = Pending(v, v.pending = <<"validated", e.tool, e.step>>, <<"tool", e.tool, e.step>>)
           /\ e.kind = "tool.failed" => r = Pending(v, v.pending = <<"tool", e.tool, e.step>>, <<>>)
<1>1. ASSUME e.kind = "action.proposed"
      PROVE ReadEvent(v, e) = Pending(v, v.pending = <<>>, <<"action", e.tool, e.step>>)
  BY <1>1, Zenon DEF ReadEvent
<1>2. ASSUME e.kind = "action.validated"
      PROVE ReadEvent(v, e)
              = Pending(v, v.pending = <<"action", e.tool, e.step>>, <<"validated", e.tool, e.step>>)
  BY <1>2, Zenon DEF ReadEvent, Follows
<1>3. ASSUME e.kind \in {"action.rejected", "final.rejected"}
      PROVE ReadEvent(v, e) = Pending(v, TRUE, <<>>)
  BY <1>3, Zenon DEF ReadEvent
<1>4. ASSUME e.kind = "tool.started"
      PROVE ReadEvent(v, e)
              = Pending(v, v.pending = <<"validated", e.tool, e.step>>, <<"tool", e.tool, e.step>>)
  BY <1>4, Zenon DEF ReadEvent, Follows
<1>5. ASSUME e.kind = "tool.failed"
      PROVE ReadEvent(v, e) = Pending(v, v.pending = <<"tool", e.tool, e.step>>, <<>>)
  BY <1>5, Zenon DEF ReadEvent, Follows
<1> QED
  BY <1>1, <1>2, <1>3, <1>4, <1>5, Zenon

LEMMA ObservedEvent ==
  ASSUME NEW v, TraceTyped(v), NEW e, e.kind = "tool.observed"
  PROVE LET r == Add(v, e)
        IN /\ SameBut(v, r, {"ok", "pending", "observed", "altered"})
           /\ r.ok = (v.ok /\ v.pending = <<"tool", e.tool, e.step>>) /\ r.pending = <<>>
           /\ r.observed = v.observed \cup e.data /\ r.altered = (v.altered \/ "altered" \in e.marks)
<1> DEFINE p == Pending(v, v.pending = <<"tool", e.tool, e.step>>, <<>>)
<1>1. ReadEvent(v, e) = [p EXCEPT !.observed = @ \cup e.data, !.altered = @ \/ "altered" \in e.marks]
  BY Zenon DEF ReadEvent, Follows
<1>2. /\ SameBut(v, p, {"ok", "pending"}) /\ p.ok = (v.ok /\ v.pending = <<"tool", e.tool, e.step>>)
      /\ p.pending = <<>>
  BY DEF Pending, TraceTyped, TraceFields, SameBut
<1> HIDE DEF p
<1> QED
  BY <1>1, <1>2 DEF Add, TraceTyped, TraceFields, SameBut

LEMMA ProposedEvent ==
  ASSUME NEW v, TraceTyped(v), NEW e, e.kind = "final.proposed"
  PROVE LET r == Add(v, e)
        IN /\ SameBut(v, r, {"ok", "pending", "proposal", "claim"})
           /\ r.ok = (v.ok /\ v.pending = <<>>) /\ r.pending = <<"final">>
           /\ r.proposal = e.data /\ r.claim = ("number" \in e.marks)
<1> DEFINE p == Pending(v, v.pending = <<>>, <<"final">>)
<1>1. ReadEvent(v, e) = [p EXCEPT !.proposal = e.data, !.claim = "number" \in e.marks]
  BY Zenon DEF ReadEvent
<1>2. SameBut(v, p, {"ok", "pending"}) /\ p.ok = (v.ok /\ v.pending = <<>>) /\ p.pending = <<"final">>
  BY DEF Pending, TraceTyped, TraceFields, SameBut
<1> HIDE DEF p
<1> QED
  BY <1>1, <1>2 DEF Add, TraceTyped, TraceFields, SameBut

LEMMA ValidatedEvent ==
  ASSUME NEW v, TraceTyped(v), NEW e, e.kind = "final.validated"
  PROVE LET r == Add(v, e)
        IN /\ SameBut(v, r, {"ok", "pending", "validated"})
           /\ r.ok = (v.ok /\ v.pending = <<"final">>) /\ r.pending = <<>> /\ r.validated = TRUE
<1> DEFINE p == Pending(v, v.pending = <<"final">>, <<>>)
<1>1. ReadEvent(v, e) = [p EXCEPT !.validated = TRUE]
  BY Zenon DEF ReadEvent
<1>2. SameBut(v, p, {"ok", "pending"}) /\ p.ok = (v.ok /\ v.pending = <<"final">>) /\ p.pending = <<>>
  BY DEF Pending, TraceTyped, TraceFields, SameBut
<1> HIDE DEF p
<1> QED
  BY <1>1, <1>2 DEF Add, TraceTyped, TraceFields, SameBut

---------------------------------------------------------------------------
(***************************************************************************)
(* The trace between two steps and at the stop.                            *)
(***************************************************************************)
\* Nothing is pending, and no event is of a step after n
Rests(v, n) ==
  v.pending = <<>> /\ v.over = FALSE /\ v.context \subseteq 1..n /\ v.models \subseteq 1..n
InFlight(v, n) ==
  /\ v.pending = <<"tool", call[1], n>> /\ v.over = FALSE
  /\ v.context \subseteq 1..n /\ v.models \subseteq 1..n

\* Frappe accepts v under the code, or the run was cut, or redaction altered v
Accepts(v, code) ==
  /\ v.ok = TRUE /\ v.pending = <<>> /\ v.altered = FALSE
  /\ v.over = TRUE => code = "CONTEXT_BUDGET"
  /\ code = "FINAL_ANSWER" =>
       /\ v.validated = TRUE /\ v.claim = FALSE
       /\ v.proposal # {} /\ v.proposal \subseteq v.observed
CutCodes == {"REPEATED_CALL", "TOOL_FREQUENCY", "WALL_TIME_BUDGET", "CANCELLED"}
Settled(v, code) ==
  \/ Accepts(v, code)
  \/ code \in CutCodes /\ v.pending # <<>>
  \/ v.altered = TRUE

TraceInv ==
  /\ TraceTyped(trace) /\ trace.ok = TRUE /\ Range(found) \subseteq trace.observed
  /\ kernel.pc = "idle" => trace = Fresh /\ kernel.code # "FINAL_ANSWER"
  /\ kernel.pc = "top" => Rests(trace, kernel.step - 1)
  /\ kernel.pc = "model" =>
       Rests(trace, kernel.step) /\ kernel.step \in trace.context /\ kernel.step \in trace.models
  /\ kernel.pc = "tool" => InFlight(trace, kernel.step)
  /\ kernel.pc = "stopped" => Settled(trace, kernel.code)

\* What it takes for a trace to be the last one: nothing is pending, and nobody concluded.
LEMMA RestingIsSettled ==
  ASSUME NEW v, TraceTyped(v), v.ok = TRUE, v.pending = <<>>, NEW code, code # "FINAL_ANSWER",
         v.over = TRUE => code = "CONTEXT_BUDGET"
  PROVE Settled(v, code)
BY DEF TraceTyped, Settled, Accepts

LEMMA StopSettles ==
  ASSUME DOMAIN kernel = KernelFields, NEW v, TraceTyped(v), v.ok = TRUE, NEW code, Stop(v, code),
         Range(found') \subseteq v.observed, Settled(v, code)
  PROVE TraceInv'
<1>1. trace' = v /\ kernel' = [kernel EXCEPT !.pc = "stopped", !.code = code]
  BY Zenon DEF Stop
<1>2. kernel'.pc = "stopped" /\ kernel'.code = code
  BY <1>1 DEF KernelFields
<1>3. TraceTyped(trace)' /\ Settled(trace', kernel'.code)
  BY <1>1, <1>2, Zenon DEF TraceTyped
<1>4. Settled(trace, kernel.code)'
  BY <1>3, Zenon DEF Settled, Accepts
<1>5. trace'.ok = TRUE /\ Range(found)' \subseteq trace'.observed
  BY <1>1, Zenon
<1>6. kernel'.pc # "idle" /\ kernel'.pc # "top" /\ kernel'.pc # "model" /\ kernel'.pc # "tool"
  BY <1>2
<1> QED
  BY <1>3, <1>4, <1>5, <1>6, Zenon DEF TraceInv

LEMMA RefuseSettles ==
  ASSUME DOMAIN kernel = KernelFields, NEW v, TraceTyped(v), v.ok = TRUE, NEW code, Refuse(v, code),
         Range(found') \subseteq v.observed, Settled(v, code)
  PROVE TraceInv'
<1>1. Add(v, Plain("guard.checked")) = v
  BY QuietAdds, Zenon
<1> QED
  BY <1>1, StopSettles, Zenon DEF Refuse

LEMMA SomethingPends == \A stage, tool, n : <<stage, tool, n>> # <<>>
OBVIOUS

\* A stop with the trace as it is.
LEMMA StopAsIs ==
  ASSUME DOMAIN kernel = KernelFields, TraceInv, found' = found, NEW code, code # "FINAL_ANSWER",
         \/ kernel.pc \in {"top", "model"}
         \/ kernel.pc = "tool" /\ code \in CutCodes,
         Stop(trace, code) \/ Refuse(trace, code)
  PROVE TraceInv'
<1>1. TraceTyped(trace) /\ trace.ok = TRUE /\ Range(found') \subseteq trace.observed
  BY Zenon DEF TraceInv
<1>2. Settled(trace, code)
  <2>1. CASE kernel.pc \in {"top", "model"}
    <3>1. trace.pending = <<>> /\ trace.over = FALSE
      BY <2>1 DEF TraceInv, Rests
    <3> QED
      BY <1>1, <3>1, RestingIsSettled
  <2>2. CASE kernel.pc = "tool" /\ code \in CutCodes
    <3>1. trace.pending # <<>>
      BY <2>2, SomethingPends, Zenon DEF TraceInv, InFlight
    <3> QED
      BY <2>2, <3>1 DEF Settled
  <2> QED
    BY <2>1, <2>2
<1> QED
  BY <1>1, <1>2, StopSettles, RefuseSettles, Zenon

---------------------------------------------------------------------------
(***************************************************************************)
(* Preparing a request.                                                    *)
(***************************************************************************)
Skills == Add(trace, Plain("skill.loaded"))
Full == Add(Skills, Plain("context.assembled"))
Context == IF Rendering = 1 THEN Full ELSE Add(Full, Plain("context.compressed"))

LEMMA ContextRests ==
  ASSUME TraceInv, kernel.pc = "top", kernel.step \in 1..MaxSteps, MaxSteps \in Nat
  PROVE /\ Skills = trace
        /\ TraceTyped(Context) /\ Context.ok = TRUE /\ Rests(Context, kernel.step)
        /\ kernel.step \in Context.context /\ Range(found) \subseteq Context.observed
<1>0. /\ TraceTyped(trace) /\ trace.ok = TRUE /\ Range(found) \subseteq trace.observed
      /\ Rests(trace, kernel.step - 1)
  BY Zenon DEF TraceInv
<1>1. Skills = trace
  BY QuietAdds, Zenon DEF Skills
<1>2. PICK e : e = Plain("context.assembled")
  OBVIOUS
<1>3. e.kind = "context.assembled" /\ e.step = kernel.step /\ e.marks = {}
  BY <1>2, PlainIs, Zenon
<1>4. Full = Add(trace, e)
  BY <1>1, <1>2, Zenon DEF Full
<1>5. PICK full : full = Full
  OBVIOUS
<1>6. /\ SameBut(trace, full, {"ok", "over", "context", "last"})
      /\ full.context = trace.context \cup {kernel.step}
      /\ full.last = <<"context.assembled", kernel.step>>
      /\ full.ok = (trace.ok /\ (kernel.step \in trace.context => kernel.step \in trace.models /\ "actual" \in e.marks))
      /\ full.over = (trace.over \/ "over" \in e.marks)
  BY <1>0, <1>3, <1>4, <1>5, ContextEvent
<1>7. kernel.step \notin trace.context
  BY <1>0 DEF Rests
<1>8. /\ full.ok = TRUE /\ full.over = FALSE /\ full.pending = trace.pending /\ full.models = trace.models
      /\ full.observed = trace.observed /\ full.altered = trace.altered /\ full.claim = trace.claim
      /\ full.validated = trace.validated /\ full.proposal = trace.proposal /\ DOMAIN full = TraceFields
  BY <1>0, <1>3, <1>6, <1>7 DEF SameBut, TraceFields, Rests
<1>9. TraceTyped(full) /\ Rests(full, kernel.step)
  BY <1>0, <1>6, <1>8 DEF TraceTyped, Rests
<1>10. CASE Rendering = 1
  <2>1. Context = full
    BY <1>5, <1>10, Zenon DEF Context
  <2> QED
    BY <1>0, <1>1, <1>6, <1>8, <1>9, <2>1
<1>11. CASE Rendering # 1
  <2>1. PICK d : d = Plain("context.compressed")
    OBVIOUS
  <2>2. d.kind = "context.compressed" /\ d.step = kernel.step
    BY <2>1, PlainIs, Zenon
  <2>3. PICK short : short = Context
    OBVIOUS
  <2>4. short = Add(full, d)
    BY <1>5, <1>11, <2>1, <2>3, Zenon DEF Context
  <2>5. SameBut(full, short, {"ok", "last"})
        /\ short.ok = (full.ok /\ full.last = <<"context.assembled", d.step>>)
    BY <1>9, <2>2, <2>4, CompressedEvent
  <2>6. short.ok = TRUE
    BY <1>6, <1>8, <2>2, <2>5
  <2>7. /\ short.over = full.over /\ short.pending = full.pending
        /\ short.models = full.models /\ short.context = full.context
        /\ short.observed = full.observed /\ short.altered = full.altered /\ short.claim = full.claim
        /\ short.validated = full.validated /\ short.proposal = full.proposal
        /\ DOMAIN short = TraceFields
    BY <2>5 DEF SameBut, TraceFields
  <2>8. TraceTyped(short) /\ Rests(short, kernel.step)
    BY <1>9, <2>6, <2>7 DEF TraceTyped, Rests
  <2> QED
    BY <1>0, <1>1, <1>6, <1>8, <2>3, <2>6, <2>7, <2>8
<1> QED
  BY <1>10, <1>11

LEMMA PrepareTrace ==
  ASSUME DOMAIN kernel = KernelFields, TraceInv, kernel.step \in 1..MaxSteps, MaxSteps \in Nat, Prepare
  PROVE TraceInv'
<1>0. kernel.pc = "top" /\ found' = found
  BY Zenon DEF Prepare, loop
<1>1. /\ Skills = trace
      /\ TraceTyped(Context) /\ Context.ok = TRUE /\ Rests(Context, kernel.step)
      /\ kernel.step \in Context.context /\ Range(found) \subseteq Context.observed
  BY <1>0, ContextRests
<1>2. \/ Refuse(trace, "CONTEXT_INVALID") \/ Refuse(Skills, "CONTEXT_BUDGET")
      \/ Preflight(Units) # "" /\ Refuse(Context, Preflight(Units))
      \/ Stop(Context, "WALL_TIME_BUDGET")
      \/ Continue(Add(Context, Plain("model.requested")), "model")
  BY Zenon DEF Prepare, Skills, Full, Context
<1>3. CASE Refuse(trace, "CONTEXT_INVALID") \/ Refuse(Skills, "CONTEXT_BUDGET")
  BY <1>0, <1>1, <1>3, StopAsIs
<1>4. ASSUME NEW code, code # "FINAL_ANSWER", Refuse(Context, code) \/ Stop(Context, code)
      PROVE TraceInv'
  <2>1. Settled(Context, code)
    BY <1>1, <1>4, RestingIsSettled DEF Rests
  <2> QED
    BY <1>0, <1>1, <1>4, <2>1, StopSettles, RefuseSettles
<1>5. Preflight(Units) # "FINAL_ANSWER"
  BY Zenon DEF Preflight
<1>6. CASE Continue(Add(Context, Plain("model.requested")), "model")
  <2>1. PICK e : e = Plain("model.requested")
    OBVIOUS
  <2>2. e.kind = "model.requested" /\ e.step = kernel.step
    BY <2>1, PlainIs, Zenon
  <2>3. PICK v, r : v = Context /\ r = Add(v, e)
    OBVIOUS
  <2>4. SameBut(v, r, {"ok", "models", "last"})
        /\ r.ok = (v.ok /\ e.step \in v.context) /\ r.models = v.models \cup {e.step}
    BY <1>1, <2>2, <2>3, RequestedEvent
  <2>5. /\ r.ok = TRUE /\ r.over = v.over /\ r.pending = v.pending /\ r.context = v.context
        /\ r.observed = v.observed /\ r.altered = v.altered /\ r.claim = v.claim
        /\ r.validated = v.validated /\ r.proposal = v.proposal /\ DOMAIN r = TraceFields
    BY <1>1, <2>2, <2>3, <2>4 DEF SameBut, TraceFields
  <2>6. /\ TraceTyped(r) /\ Rests(r, kernel.step) /\ kernel.step \in r.context /\ kernel.step \in r.models
        /\ Range(found) \subseteq r.observed
    BY <1>1, <2>2, <2>3, <2>4, <2>5 DEF TraceTyped, Rests
  <2>7. trace' = r /\ kernel' = [kernel EXCEPT !.pc = "model"]
    BY <1>6, <2>1, <2>3, Zenon DEF Continue
  <2>8. kernel'.pc = "model" /\ kernel'.step = kernel.step
    BY <2>7 DEF KernelFields
  <2>9. TraceTyped(trace)' /\ Rests(trace, kernel.step)'
    BY <2>6, <2>7, <2>8, Zenon DEF TraceTyped, Rests
  <2>10. trace'.ok = TRUE /\ Range(found)' \subseteq trace'.observed
         /\ kernel'.step \in trace'.context /\ kernel'.step \in trace'.models
    BY <1>0, <2>5, <2>6, <2>7, <2>8
  <2>11. kernel'.pc # "idle" /\ kernel'.pc # "top" /\ kernel'.pc # "tool" /\ kernel'.pc # "stopped"
    BY <2>8
  <2> QED
    BY <2>9, <2>10, <2>11, Zenon DEF TraceInv
<1> QED
  BY <1>2, <1>3, <1>4, <1>5, <1>6

---------------------------------------------------------------------------
(***************************************************************************)
(* What an answer of the provider adds.                                    *)
(***************************************************************************)
\* r is v with next pending
Staged(v, r, next) ==
  TraceTyped(r) /\ SameBut(v, r, {"pending"}) /\ r.pending = next

\* An event that comes when it may only changes what is pending.
LEMMA StageAdds ==
  ASSUME NEW v, TraceTyped(v), v.ok = TRUE, NEW e
  PROVE LET r == Add(v, e)
        IN /\ e.kind = "action.proposed" /\ v.pending = <<>>
                => Staged(v, r, <<"action", e.tool, e.step>>)
           /\ e.kind = "action.validated" /\ v.pending = <<"action", e.tool, e.step>>
                => Staged(v, r, <<"validated", e.tool, e.step>>)
           /\ e.kind = "action.rejected" \/ e.kind = "final.rejected" => Staged(v, r, <<>>)
           /\ e.kind = "tool.started" /\ v.pending = <<"validated", e.tool, e.step>>
                => Staged(v, r, <<"tool", e.tool, e.step>>)
           /\ e.kind = "tool.failed" /\ v.pending = <<"tool", e.tool, e.step>> => Staged(v, r, <<>>)
<1>1. ASSUME e.kind = "action.proposed", v.pending = <<>>
      PROVE Staged(v, Add(v, e), <<"action", e.tool, e.step>>)
  <2>1. ReadEvent(v, e) = Pending(v, v.pending = <<>>, <<"action", e.tool, e.step>>)
    BY <1>1, ActionEvent
  <2> QED
    BY <1>1, <2>1 DEF Add, Pending, Staged, SameBut, TraceTyped, TraceFields
<1>2. ASSUME e.kind = "action.validated", v.pending = <<"action", e.tool, e.step>>
      PROVE Staged(v, Add(v, e), <<"validated", e.tool, e.step>>)
  <2>1. ReadEvent(v, e)
          = Pending(v, v.pending = <<"action", e.tool, e.step>>, <<"validated", e.tool, e.step>>)
    BY <1>2, ActionEvent
  <2> QED
    BY <1>2, <2>1 DEF Add, Pending, Staged, SameBut, TraceTyped, TraceFields
<1>3. ASSUME e.kind = "action.rejected" \/ e.kind = "final.rejected"
      PROVE Staged(v, Add(v, e), <<>>)
  <2>1. ReadEvent(v, e) = Pending(v, TRUE, <<>>)
    BY <1>3, ActionEvent
  <2> QED
    BY <2>1 DEF Add, Pending, Staged, SameBut, TraceTyped, TraceFields
<1>4. ASSUME e.kind = "tool.started", v.pending = <<"validated", e.tool, e.step>>
      PROVE Staged(v, Add(v, e), <<"tool", e.tool, e.step>>)
  <2>1. ReadEvent(v, e)
          = Pending(v, v.pending = <<"validated", e.tool, e.step>>, <<"tool", e.tool, e.step>>)
    BY <1>4, ActionEvent
  <2> QED
    BY <1>4, <2>1 DEF Add, Pending, Staged, SameBut, TraceTyped, TraceFields
<1>5. ASSUME e.kind = "tool.failed", v.pending = <<"tool", e.tool, e.step>>
      PROVE Staged(v, Add(v, e), <<>>)
  <2>1. ReadEvent(v, e) = Pending(v, v.pending = <<"tool", e.tool, e.step>>, <<>>)
    BY <1>5, ActionEvent
  <2> QED
    BY <1>5, <2>1 DEF Add, Pending, Staged, SameBut, TraceTyped, TraceFields
<1> QED
  BY <1>1, <1>2, <1>3, <1>4, <1>5, Zenon

LEMMA StagedKeeps ==
  ASSUME NEW v, TraceTyped(v), v.ok = TRUE, NEW r, NEW next, Staged(v, r, next)
  PROVE /\ TraceTyped(r) /\ r.ok = TRUE /\ r.pending = next /\ r.over = v.over
        /\ r.context = v.context /\ r.models = v.models /\ r.observed = v.observed
        /\ r.proposal = v.proposal
BY DEF Staged, SameBut, TraceFields

\* The usage of a call is an event of the step the loop is in.
LEMMA ReportedIs ==
  ASSUME TraceInv, kernel.pc = "model", NEW prompt
  PROVE LET r == Reported(prompt)
        IN /\ TraceTyped(r) /\ r.ok = TRUE /\ r.pending = <<>> /\ r.over = OverContext(prompt)
           /\ r.context \subseteq 1..kernel.step /\ r.models \subseteq 1..kernel.step
           /\ r.observed = trace.observed /\ Range(found) \subseteq r.observed
<1>1. /\ TraceTyped(trace) /\ trace.ok = TRUE /\ Range(found) \subseteq trace.observed
      /\ Rests(trace, kernel.step) /\ kernel.step \in trace.context /\ kernel.step \in trace.models
  BY Zenon DEF TraceInv
<1>2. PICK e : e = Assembled(prompt)
  OBVIOUS
<1>3. e.kind = "context.assembled" /\ e.step = kernel.step
      /\ e.marks = {"actual"} \cup If("over", OverContext(prompt))
  BY <1>2, Zenon DEF Assembled, Event
<1>4. "actual" \in e.marks /\ ("over" \in e.marks <=> OverContext(prompt))
  BY <1>3 DEF If
<1>5. PICK r : r = Reported(prompt)
  OBVIOUS
<1>6. r = Add(trace, e)
  BY <1>2, <1>5, Zenon DEF Reported
<1>7. /\ SameBut(trace, r, {"ok", "over", "context", "last"})
      /\ r.context = trace.context \cup {e.step}
      /\ r.ok = (trace.ok /\ (e.step \in trace.context => e.step \in trace.models /\ "actual" \in e.marks))
      /\ r.over = (trace.over \/ "over" \in e.marks)
  BY <1>1, <1>3, <1>6, ContextEvent
<1>8. /\ r.ok = TRUE /\ r.over = OverContext(prompt) /\ r.pending = trace.pending
      /\ r.models = trace.models /\ r.context = trace.context
      /\ r.observed = trace.observed /\ r.altered = trace.altered /\ r.claim = trace.claim
      /\ r.validated = trace.validated /\ r.proposal = trace.proposal /\ DOMAIN r = TraceFields
  BY <1>1, <1>3, <1>4, <1>7 DEF SameBut, TraceFields, Rests, OverContext
<1>9. TraceTyped(r)
  <2>1. r.over \in BOOLEAN
    BY <1>7
  <2> QED
    BY <1>1, <1>8, <2>1 DEF TraceTyped
<1> QED
  BY <1>1, <1>5, <1>8, <1>9 DEF Rests

LEMMA StopCode ==
  ASSUME NEW prompt, NEW output
  PROVE /\ UsageStop(prompt, output) # "FINAL_ANSWER"
        /\ OverContext(prompt) => UsageStop(prompt, output) = "CONTEXT_BUDGET"
        /\ UsageStop(prompt, output) = "" => OverContext(prompt) = FALSE
<1>1. Overrun(prompt, output) # "FINAL_ANSWER"
  BY Zenon DEF Overrun
<1>2. OverContext(prompt) = TRUE \/ OverContext(prompt) = FALSE
  BY DEF OverContext
<1> QED
  BY <1>1, <1>2, Zenon DEF UsageStop

\* The loop stops with what the usage is.
LEMMA UsageStops ==
  ASSUME DOMAIN kernel = KernelFields, TraceInv, kernel.pc = "model", found' = found, NEW prompt,
         NEW code, code # "FINAL_ANSWER", OverContext(prompt) => code = "CONTEXT_BUDGET",
         Stop(Reported(prompt), code) \/ Refuse(Reported(prompt), code)
  PROVE TraceInv'
<1>1. PICK r : r = Reported(prompt)
  OBVIOUS
<1>2. /\ TraceTyped(r) /\ r.ok = TRUE /\ r.pending = <<>> /\ r.over = OverContext(prompt)
      /\ Range(found) \subseteq r.observed
  BY <1>1, ReportedIs
<1>3. Settled(r, code)
  BY <1>2, RestingIsSettled
<1> QED
  BY <1>1, <1>2, <1>3, StopSettles, RefuseSettles

\* A call or a text that is rejected.
LEMMA RejectionStops ==
  ASSUME DOMAIN kernel = KernelFields, TraceInv, kernel.pc = "model", found' = found, NEW prompt,
         OverContext(prompt) = FALSE, NEW code, code # "FINAL_ANSWER",
         NEW kind, kind = "action.rejected" \/ kind = "final.rejected",
         Stop(Add(Reported(prompt), Plain(kind)), code)
  PROVE TraceInv'
<1>1. PICK v, e, r : v = Reported(prompt) /\ e = Plain(kind) /\ r = Add(v, e)
  OBVIOUS
<1>2. /\ TraceTyped(v) /\ v.ok = TRUE /\ v.pending = <<>> /\ v.over = FALSE
      /\ Range(found) \subseteq v.observed
  BY <1>1, ReportedIs
<1>3. e.kind = kind
  BY <1>1, PlainIs, Zenon
<1>4. Staged(v, r, <<>>)
  BY <1>1, <1>2, <1>3, StageAdds, Zenon
<1>5. /\ TraceTyped(r) /\ r.ok = TRUE /\ r.pending = <<>> /\ r.over = FALSE
      /\ Range(found) \subseteq r.observed
  BY <1>2, <1>4, StagedKeeps
<1>6. Settled(r, code)
  BY <1>5, RestingIsSettled
<1> QED
  BY <1>1, <1>5, <1>6, StopSettles, Zenon

\* A final answer: it is accepted as supported when Frappe will find it so.
LEMMA ConcludingStops ==
  ASSUME DOMAIN kernel = KernelFields, TraceInv, kernel.pc = "model", NEW prompt, NEW output,
         OverContext(prompt) = FALSE, NEW refs \in References, NEW wrong \in BOOLEAN,
         Concludes(prompt, output, refs, wrong)
  PROVE TraceInv'
<1>1. PICK v, e, r : /\ v = Reported(prompt)
                     /\ e = Event("final.proposed", "", refs, If("number", wrong))
                     /\ r = Add(v, e)
  OBVIOUS
<1>2. /\ TraceTyped(v) /\ v.ok = TRUE /\ v.pending = <<>> /\ v.over = FALSE
      /\ Range(found) \subseteq v.observed
  BY <1>1, ReportedIs
<1>3. e.kind = "final.proposed" /\ e.data = refs /\ e.marks = If("number", wrong)
  BY <1>1, Zenon DEF Event
<1>4. /\ SameBut(v, r, {"ok", "pending", "proposal", "claim"})
      /\ r.ok = (v.ok /\ v.pending = <<>>) /\ r.pending = <<"final">>
      /\ r.proposal = refs /\ r.claim = ("number" \in e.marks)
  <2>1. r = Add(v, e)
    BY <1>1, Zenon
  <2> QED
    BY <1>2, <1>3, <2>1, ProposedEvent
<1>5. refs \subseteq Digests
  <2>1. PICK D : D = Digests
    OBVIOUS
  <2>2. refs \in {{}} \cup {{d} : d \in D}
    BY <2>1, Zenon DEF References
  <2>3. refs \subseteq D
    BY <2>2
  <2> QED
    BY <2>1, <2>3, Zenon
<1>60. r.claim = wrong
  <2>1. CASE wrong = TRUE
    BY <1>3, <1>4, <2>1 DEF If
  <2>2. CASE wrong = FALSE
    BY <1>3, <1>4, <2>2 DEF If
  <2> QED
    BY <2>1, <2>2
<1>6. /\ r.ok = TRUE /\ r.claim = wrong /\ r.over = v.over /\ r.observed = v.observed
      /\ r.context = v.context /\ r.models = v.models /\ r.altered = v.altered
      /\ r.validated = v.validated /\ DOMAIN r = TraceFields
  BY <1>2, <1>4, <1>60 DEF SameBut, TraceFields
<1>7. TraceTyped(r)
  BY <1>2, <1>4, <1>5, <1>6 DEF TraceTyped
<1>8. found' = found
  BY Zenon DEF Concludes
<1>9. CASE Supported(refs) /\ ~wrong
  <2>1. PICK f, s : f = Plain("final.validated") /\ s = Add(r, f)
    OBVIOUS
  <2>2. f.kind = "final.validated"
    BY <2>1, PlainIs, Zenon
  <2>3. /\ SameBut(r, s, {"ok", "pending", "validated"})
        /\ s.ok = (r.ok /\ r.pending = <<"final">>) /\ s.pending = <<>> /\ s.validated = TRUE
    BY <1>7, <2>1, <2>2, ValidatedEvent
  <2>4. /\ s.ok = TRUE /\ s.claim = r.claim /\ s.over = r.over /\ s.observed = r.observed
        /\ s.context = r.context /\ s.models = r.models /\ s.altered = r.altered
        /\ s.proposal = r.proposal /\ DOMAIN s = TraceFields
    BY <1>4, <1>6, <2>3 DEF SameBut, TraceFields
  <2>5. TraceTyped(s)
    BY <1>7, <2>3, <2>4 DEF TraceTyped
  <2>6. refs # {} /\ refs \subseteq s.observed /\ s.claim = FALSE
    BY <1>2, <1>6, <1>9, <2>4 DEF Supported
  <2>7. s.over = FALSE /\ s.proposal = refs
    BY <1>2, <1>4, <1>6, <2>4
  <2>8. Settled(s, "FINAL_ANSWER")
    BY <2>3, <2>4, <2>5, <2>6, <2>7 DEF Settled, Accepts, TraceTyped
  <2>9. Stop(s, "FINAL_ANSWER")
    BY <1>1, <1>9, <2>1, Zenon DEF Concludes
  <2> QED
    BY <1>2, <1>6, <1>8, <2>4, <2>5, <2>8, <2>9, StopSettles
<1>10. CASE ~(Supported(refs) /\ ~wrong)
  <2>1. PICK f, s : f = Plain("final.rejected") /\ s = Add(r, f)
    OBVIOUS
  <2>2. f.kind = "final.rejected"
    BY <2>1, PlainIs, Zenon
  <2>3. Staged(r, s, <<>>)
    BY <1>6, <1>7, <2>1, <2>2, StageAdds, Zenon
  <2>4. TraceTyped(s) /\ s.ok = TRUE /\ s.pending = <<>> /\ s.over = FALSE
        /\ Range(found) \subseteq s.observed
    BY <1>2, <1>6, <1>7, <2>3, StagedKeeps
  <2>5. Settled(s, "UNSUPPORTED_FINAL_ANSWER")
    BY <2>4, RestingIsSettled
  <2>6. Stop(s, "UNSUPPORTED_FINAL_ANSWER")
    BY <1>1, <1>10, <2>1, Zenon DEF Concludes
  <2> QED
    BY <1>8, <2>4, <2>5, <2>6, StopSettles
<1> QED
  BY <1>9, <1>10

\* A tool call: announced and admitted; where a guard or the clock stops it, it is pending.
LEMMA CallingTrace ==
  ASSUME DOMAIN kernel = KernelFields, TraceInv, kernel.pc = "model", NEW prompt, NEW output,
         OverContext(prompt) = FALSE, NEW c \in Tools \X Args, CallsTool(prompt, output, c)
  PROVE TraceInv'
<1>1. PICK v, a, e1, e2, e3, p, w, g, s :
        /\ v = Reported(prompt) /\ a = c[1]
        /\ e1 = Event("action.proposed", a, {}, {}) /\ p = Add(v, e1)
        /\ e2 = Event("action.validated", a, {}, {}) /\ w = Add(p, e2)
        /\ g = Add(Add(w, Plain("guard.checked")), Plain("guard.checked"))
        /\ e3 = Event("tool.started", a, {}, {}) /\ s = Add(g, e3)
  OBVIOUS
<1>2. /\ TraceTyped(v) /\ v.ok = TRUE /\ v.pending = <<>> /\ v.over = FALSE
      /\ v.context \subseteq 1..kernel.step /\ v.models \subseteq 1..kernel.step
      /\ Range(found) \subseteq v.observed
  BY <1>1, ReportedIs
<1>3. /\ e1.kind = "action.proposed" /\ e1.tool = a /\ e1.step = kernel.step
      /\ e2.kind = "action.validated" /\ e2.tool = a /\ e2.step = kernel.step
      /\ e3.kind = "tool.started" /\ e3.tool = a /\ e3.step = kernel.step
  <2>1. e1.kind = "action.proposed" /\ e1.tool = a /\ e1.step = kernel.step
    BY <1>1, Zenon DEF Event
  <2>2. e2.kind = "action.validated" /\ e2.tool = a /\ e2.step = kernel.step
    BY <1>1, Zenon DEF Event
  <2>3. e3.kind = "tool.started" /\ e3.tool = a /\ e3.step = kernel.step
    BY <1>1, Zenon DEF Event
  <2> QED
    BY <2>1, <2>2, <2>3, Zenon
<1>4. Staged(v, p, <<"action", a, kernel.step>>)
  <2>1. Staged(v, Add(v, e1), <<"action", e1.tool, e1.step>>)
    BY <1>2, <1>3, StageAdds, Zenon
  <2> QED
    BY <1>1, <1>3, <2>1, Zenon
<1>5. /\ TraceTyped(p) /\ p.ok = TRUE /\ p.pending = <<"action", a, kernel.step>> /\ p.over = FALSE
      /\ p.context = v.context /\ p.models = v.models /\ p.observed = v.observed
  BY <1>2, <1>4, StagedKeeps
<1>6. Staged(p, w, <<"validated", a, kernel.step>>)
  <2>1. Staged(p, Add(p, e2), <<"validated", e2.tool, e2.step>>)
    BY <1>3, <1>5, StageAdds, Zenon
  <2> QED
    BY <1>1, <1>3, <2>1, Zenon
<1>7. /\ TraceTyped(w) /\ w.ok = TRUE /\ w.pending = <<"validated", a, kernel.step>>
      /\ w.over = FALSE /\ w.context = v.context /\ w.models = v.models /\ w.observed = v.observed
  BY <1>5, <1>6, StagedKeeps
<1>8. g = w
  BY <1>1, QuietAdds, Zenon
<1>9. Staged(w, s, <<"tool", a, kernel.step>>)
  <2>1. Staged(w, Add(w, e3), <<"tool", e3.tool, e3.step>>)
    BY <1>3, <1>7, StageAdds, Zenon
  <2> QED
    BY <1>1, <1>3, <1>8, <2>1, Zenon
<1>10. /\ TraceTyped(s) /\ s.ok = TRUE /\ s.pending = <<"tool", a, kernel.step>>
       /\ s.over = FALSE /\ s.context = v.context /\ s.models = v.models /\ s.observed = v.observed
  BY <1>7, <1>9, StagedKeeps
<1>11. found' = found
  BY Zenon DEF CallsTool
<1>12. \/ Refuse(w, "REPEATED_CALL") \/ Refuse(w, "TOOL_FREQUENCY") \/ Stop(s, "WALL_TIME_BUDGET")
       \/ Continue(s, "tool") /\ call' = c
  BY <1>1, Zenon DEF CallsTool
<1>13. CASE Refuse(w, "REPEATED_CALL") \/ Refuse(w, "TOOL_FREQUENCY")
  <2>1. w.pending # <<>>
    BY <1>7, SomethingPends, Zenon
  <2>2. Settled(w, "REPEATED_CALL") /\ Settled(w, "TOOL_FREQUENCY")
    BY <2>1 DEF Settled, CutCodes
  <2> QED
    BY <1>2, <1>7, <1>11, <1>13, <2>2, RefuseSettles
<1>14. CASE Stop(s, "WALL_TIME_BUDGET")
  <2>1. s.pending # <<>>
    BY <1>10, SomethingPends, Zenon
  <2>2. Settled(s, "WALL_TIME_BUDGET")
    BY <2>1 DEF Settled, CutCodes
  <2> QED
    BY <1>2, <1>10, <1>11, <1>14, <2>2, StopSettles
<1>15. CASE Continue(s, "tool") /\ call' = c
  <2>1. trace' = s /\ kernel' = [kernel EXCEPT !.pc = "tool"]
    BY <1>15, Zenon DEF Continue
  <2>2. kernel'.pc = "tool" /\ kernel'.step = kernel.step
    BY <2>1 DEF KernelFields
  <2>3. call'[1] = a
    BY <1>1, <1>15, Zenon
  <2>4. TraceTyped(trace)'
    BY <1>10, <2>1, Zenon DEF TraceTyped
  <2>5. InFlight(trace, kernel.step)'
    <3>1. trace'.pending = <<"tool", call'[1], kernel'.step>>
      BY <1>10, <2>1, <2>2, <2>3, Zenon
    <3>2. trace'.over = FALSE /\ trace'.context \subseteq 1..kernel'.step
          /\ trace'.models \subseteq 1..kernel'.step
      BY <1>2, <1>10, <2>1, <2>2
    <3> QED
      BY <3>1, <3>2, Zenon DEF InFlight
  <2>6. trace'.ok = TRUE /\ Range(found)' \subseteq trace'.observed
    BY <1>2, <1>10, <1>11, <2>1
  <2>7. kernel'.pc # "idle" /\ kernel'.pc # "top" /\ kernel'.pc # "model" /\ kernel'.pc # "stopped"
    BY <2>2
  <2> QED
    BY <2>4, <2>5, <2>6, <2>7, Zenon DEF TraceInv
<1> QED
  BY <1>12, <1>13, <1>14, <1>15

LEMMA ModelStepTrace ==
  ASSUME DOMAIN kernel = KernelFields, TraceInv, ModelStep
  PROVE TraceInv'
<1>1. kernel.pc = "model"
  BY Zenon DEF ModelStep
<1>2. PICK p \in PromptUsage, o \in OutputUsage :
        \/ \E b \in {"", "TOKEN_BUDGET"} : ModelFails(p, o, b)
        \/ Overspends(p, o)
        \/ \E code \in {"MODEL_ERROR", "TOOL_NOT_ALLOWED", "INVALID_TOOL_ARGS"} :
             RejectsCall(p, o, code)
        \/ RejectsText(p, o)
        \/ \E refs \in References, wrong \in BOOLEAN : Concludes(p, o, refs, wrong)
        \/ \E c \in Tools \X Args : CallsTool(p, o, c)
  BY Zenon DEF ModelStep
<1>3. /\ UsageStop(p, o) # "FINAL_ANSWER"
      /\ OverContext(p) => UsageStop(p, o) = "CONTEXT_BUDGET"
      /\ UsageStop(p, o) = "" => OverContext(p) = FALSE
  BY StopCode
<1>4. CASE \E b \in {"", "TOKEN_BUDGET"} : ModelFails(p, o, b)
  <2>1. PICK b \in {"", "TOKEN_BUDGET"} : ModelFails(p, o, b)
    BY <1>4, Zenon
  <2>2. PICK stop : stop = IF OverContext(p) \/ b = "" THEN UsageStop(p, o) ELSE b
    OBVIOUS
  <2>3. stop # "FINAL_ANSWER" /\ (OverContext(p) => stop = "CONTEXT_BUDGET")
    BY <1>3, <2>1, <2>2, Zenon
  <2>4. /\ found' = found
        /\ \/ stop = "" /\ Stop(Reported(p), "MODEL_ERROR")
           \/ Refuse(Reported(p), stop)
    BY <2>1, <2>2, Zenon DEF ModelFails
  <2>5. CASE stop = "" /\ Stop(Reported(p), "MODEL_ERROR")
    <3>1. ~OverContext(p)
      BY <2>3, <2>5, Zenon
    <3>2. "MODEL_ERROR" # "FINAL_ANSWER"
      OBVIOUS
    <3> QED
      BY <1>1, <2>4, <2>5, <3>1, <3>2, UsageStops, Zenon
  <2> QED
    BY <1>1, <2>3, <2>4, <2>5, UsageStops, Zenon
<1>5. CASE Overspends(p, o)
  <2>1. found' = found /\ Refuse(Reported(p), UsageStop(p, o))
    BY <1>5, Zenon DEF Overspends
  <2> QED
    BY <1>1, <1>3, <2>1, UsageStops, Zenon
<1>6. CASE \E code \in {"MODEL_ERROR", "TOOL_NOT_ALLOWED", "INVALID_TOOL_ARGS"} :
             RejectsCall(p, o, code)
  <2>1. PICK code \in {"MODEL_ERROR", "TOOL_NOT_ALLOWED", "INVALID_TOOL_ARGS"} :
               RejectsCall(p, o, code)
    BY <1>6, Zenon
  <2>2. /\ UsageStop(p, o) = "" /\ found' = found
        /\ Stop(Add(Reported(p), Plain("action.rejected")), code)
    BY <2>1, Zenon DEF RejectsCall, Answered
  <2>3. code # "FINAL_ANSWER"
    OBVIOUS
  <2>4. OverContext(p) = FALSE
    BY <1>3, <2>2, Zenon
  <2> QED
    BY <1>1, <2>2, <2>3, <2>4, RejectionStops, Zenon
<1>7. CASE RejectsText(p, o)
  <2>1. /\ UsageStop(p, o) = "" /\ found' = found
        /\ Stop(Add(Reported(p), Plain("final.rejected")), "UNSUPPORTED_FINAL_ANSWER")
    BY <1>7, Zenon DEF RejectsText, Answered
  <2>2. "UNSUPPORTED_FINAL_ANSWER" # "FINAL_ANSWER"
    OBVIOUS
  <2>3. OverContext(p) = FALSE
    BY <1>3, <2>1, Zenon
  <2> QED
    BY <1>1, <2>1, <2>2, <2>3, RejectionStops, Zenon
<1>8. CASE \E refs \in References, wrong \in BOOLEAN : Concludes(p, o, refs, wrong)
  <2>1. PICK refs \in References, wrong \in BOOLEAN : Concludes(p, o, refs, wrong)
    BY <1>8, Zenon
  <2>2. OverContext(p) = FALSE
    BY <1>3, <2>1, Zenon DEF Concludes, Answered
  <2> QED
    BY <1>1, <2>1, <2>2, ConcludingStops, Zenon
<1>9. CASE \E c \in Tools \X Args : CallsTool(p, o, c)
  <2>1. PICK c \in Tools \X Args : CallsTool(p, o, c)
    BY <1>9, Zenon
  <2>2. OverContext(p) = FALSE
    BY <1>3, <2>1, Zenon DEF CallsTool, Answered
  <2> QED
    BY <1>1, <2>1, <2>2, CallingTrace, Zenon
<1> QED
  BY <1>2, <1>4, <1>5, <1>6, <1>7, <1>8, <1>9, Zenon

---------------------------------------------------------------------------
(***************************************************************************)
(* What the Gateway adds, and the steps that add nothing.                  *)
(***************************************************************************)
LEMMA AppendRange ==
  ASSUME NEW S, NEW s \in Seq(S), NEW d \in S
  PROVE Append(s, d) \in Seq(S) /\ Range(Append(s, d)) \subseteq Range(s) \cup {d}
BY DEF Range

\* An observation completes the call it is of; only redaction can spoil it.
LEMMA ToolAnswersTrace ==
  ASSUME DOMAIN kernel = KernelFields, TraceInv, kernel.step \in Nat, found \in Seq(Digests),
         call \in Tools \X Args, NEW content \in Contents, NEW redacted, ToolAnswers(content, redacted)
  PROVE TraceInv'
<1>1. PICK d, e, o, r : /\ d = <<call[1], content>>
                        /\ e = Event("tool.observed", call[1], {d}, If("altered", redacted))
                        /\ o = Add(trace, e) /\ r = Add(o, Plain("guard.checked"))
  OBVIOUS
<1>2. kernel.pc = "tool" /\ found' = Append(found, d)
  BY <1>1, Zenon DEF ToolAnswers
<1>3. d \in Digests
  BY <1>1 DEF Digests
<1>4. /\ TraceTyped(trace) /\ trace.ok = TRUE /\ Range(found) \subseteq trace.observed
      /\ trace.pending = <<"tool", call[1], kernel.step>> /\ trace.over = FALSE
      /\ trace.context \subseteq 1..kernel.step /\ trace.models \subseteq 1..kernel.step
  BY <1>2, Zenon DEF TraceInv, InFlight
<1>5. e.kind = "tool.observed" /\ e.tool = call[1] /\ e.step = kernel.step /\ e.data = {d}
  BY <1>1, Zenon DEF Event
<1>6. /\ SameBut(trace, o, {"ok", "pending", "observed", "altered"})
      /\ o.ok = (trace.ok /\ trace.pending = <<"tool", e.tool, e.step>>) /\ o.pending = <<>>
      /\ o.observed = trace.observed \cup e.data
      /\ o.altered = (trace.altered \/ "altered" \in e.marks)
  <2>1. o = Add(trace, e)
    BY <1>1, Zenon
  <2> QED
    BY <1>4, <1>5, <2>1, ObservedEvent
<1>7. /\ o.over = trace.over /\ o.context = trace.context /\ o.models = trace.models
      /\ o.claim = trace.claim /\ o.validated = trace.validated /\ o.proposal = trace.proposal
      /\ DOMAIN o = TraceFields
  BY <1>6 DEF SameBut, TraceFields
<1>8. o.ok = TRUE
  BY <1>4, <1>5, <1>6, Zenon
<1>9. TraceTyped(o)
  <2>1. o.altered \in BOOLEAN
    BY <1>6
  <2>2. o.observed \subseteq Digests
    BY <1>3, <1>4, <1>5, <1>6 DEF TraceTyped
  <2> QED
    BY <1>4, <1>7, <1>8, <2>1, <2>2 DEF TraceTyped
<1>10. r = o
  BY <1>1, QuietAdds, Zenon
<1>11. Range(found') \subseteq r.observed
  <2>1. Range(Append(found, d)) \subseteq Range(found) \cup {d}
    BY <1>3, AppendRange, Zenon
  <2> QED
    BY <1>2, <1>4, <1>5, <1>6, <1>10, <2>1
<1>12. ASSUME NEW code, code # "FINAL_ANSWER", Stop(r, code)
       PROVE TraceInv'
  <2>1. r.pending = <<>> /\ r.over = FALSE /\ r.ok = TRUE /\ TraceTyped(r)
    BY <1>4, <1>6, <1>7, <1>8, <1>9, <1>10, Zenon
  <2>2. Settled(r, code)
    BY <1>12, <2>1, RestingIsSettled
  <2> QED
    BY <1>11, <1>12, <2>1, <2>2, StopSettles
<1>13. \/ Stop(r, "NO_PROGRESS") \/ Stop(r, "WALL_TIME_BUDGET") \/ Stop(r, "MAX_STEPS")
       \/ trace' = r /\ kernel' = [kernel EXCEPT !.pc = "top", !.step = @ + 1]
  BY <1>1, Zenon DEF ToolAnswers
<1>14. CASE trace' = r /\ kernel' = [kernel EXCEPT !.pc = "top", !.step = @ + 1]
  <2>1. kernel'.pc = "top" /\ kernel'.step = kernel.step + 1
    BY <1>14 DEF KernelFields
  <2>2. kernel'.step - 1 = kernel.step
    BY <2>1
  <2>3. /\ trace'.pending = <<>> /\ trace'.over = FALSE /\ trace'.context \subseteq 1..kernel.step
        /\ trace'.models \subseteq 1..kernel.step
    BY <1>4, <1>6, <1>7, <1>10, <1>14, Zenon
  <2>4. Rests(trace, kernel.step - 1)'
    BY <2>2, <2>3, Zenon DEF Rests
  <2>5. TraceTyped(trace)'
    BY <1>9, <1>10, <1>14, Zenon DEF TraceTyped
  <2>6. trace'.ok = TRUE /\ Range(found)' \subseteq trace'.observed
    BY <1>8, <1>10, <1>11, <1>14, Zenon
  <2>7. kernel'.pc # "idle" /\ kernel'.pc # "model" /\ kernel'.pc # "tool" /\ kernel'.pc # "stopped"
    BY <2>1
  <2> QED
    BY <2>1, <2>4, <2>5, <2>6, <2>7, Zenon DEF TraceInv
<1> QED
  BY <1>12, <1>13, <1>14

\* A call that fails is completed too.
LEMMA ToolFailedTrace ==
  ASSUME DOMAIN kernel = KernelFields, TraceInv, kernel.pc = "tool", found' = found,
         NEW code, code # "FINAL_ANSWER", Stop(ToolFailed, code)
  PROVE TraceInv'
<1>1. PICK e, r : e = Event("tool.failed", call[1], {}, {}) /\ r = Add(trace, e)
  OBVIOUS
<1>2. /\ TraceTyped(trace) /\ trace.ok = TRUE /\ Range(found) \subseteq trace.observed
      /\ trace.pending = <<"tool", call[1], kernel.step>> /\ trace.over = FALSE
  BY Zenon DEF TraceInv, InFlight
<1>3. e.kind = "tool.failed" /\ e.tool = call[1] /\ e.step = kernel.step
  BY <1>1, Zenon DEF Event
<1>4. Staged(trace, r, <<>>)
  BY <1>1, <1>2, <1>3, StageAdds, Zenon
<1>5. /\ TraceTyped(r) /\ r.ok = TRUE /\ r.pending = <<>> /\ r.over = FALSE
      /\ r.observed = trace.observed
  BY <1>2, <1>4, StagedKeeps, Zenon
<1>6. Settled(r, code)
  BY <1>5, RestingIsSettled
<1>7. Stop(r, code)
  BY <1>1, Zenon DEF ToolFailed
<1> QED
  BY <1>2, <1>5, <1>6, <1>7, StopSettles, Zenon

LEMMA FreshIsTyped ==
  /\ TraceTyped(Fresh) /\ Fresh.ok = TRUE /\ Fresh.pending = <<>> /\ Fresh.over = FALSE
  /\ Fresh.context = {} /\ Fresh.models = {} /\ Fresh.observed = {}
BY DEF Fresh, TraceTyped, TraceFields

\* The loop starts, or is stopped before it.
LEMMA BeginTrace ==
  ASSUME DOMAIN kernel = KernelFields, TraceInv, Begin
  PROVE TraceInv'
<1>1. kernel.pc = "idle" /\ trace' = trace /\ found' = found
  BY Zenon DEF Begin, loop
<1>2. trace = Fresh /\ Range(found) \subseteq trace.observed
  BY <1>1, Zenon DEF TraceInv
<1>3. \/ \E code \in {"COST_BUDGET", "MODEL_ERROR"} :
           kernel' = [pc |-> "stopped", step |-> 0, code |-> code]
      \/ kernel' = [kernel EXCEPT !.pc = "top", !.step = 1]
  BY Zenon DEF Begin
<1>4. TraceTyped(trace)'
  BY <1>1, <1>2, FreshIsTyped, Zenon DEF TraceTyped
<1>5. trace'.ok = TRUE /\ Range(found)' \subseteq trace'.observed
  BY <1>1, <1>2, FreshIsTyped, Zenon
<1>6. ASSUME NEW code \in {"COST_BUDGET", "MODEL_ERROR"},
             kernel' = [pc |-> "stopped", step |-> 0, code |-> code]
      PROVE TraceInv'
  <2>1. kernel'.pc = "stopped" /\ kernel'.code = code /\ code # "FINAL_ANSWER"
    BY <1>6
  <2>2. Settled(trace', kernel'.code)
    BY <1>1, <1>2, <2>1, FreshIsTyped, RestingIsSettled, Zenon
  <2>3. Settled(trace, kernel.code)'
    BY <2>2, Zenon DEF Settled, Accepts
  <2>4. kernel'.pc # "idle" /\ kernel'.pc # "top" /\ kernel'.pc # "model" /\ kernel'.pc # "tool"
    BY <2>1
  <2> QED
    BY <1>4, <1>5, <2>3, <2>4, Zenon DEF TraceInv
<1>7. CASE kernel' = [kernel EXCEPT !.pc = "top", !.step = 1]
  <2>1. kernel'.pc = "top" /\ kernel'.step = 1
    BY <1>7 DEF KernelFields
  <2>2. Rests(trace, kernel.step - 1)'
    BY <1>1, <1>2, <2>1, FreshIsTyped DEF Rests
  <2>3. kernel'.pc # "idle" /\ kernel'.pc # "model" /\ kernel'.pc # "tool" /\ kernel'.pc # "stopped"
    BY <2>1
  <2> QED
    BY <1>4, <1>5, <2>2, <2>3, Zenon DEF TraceInv
<1> QED
  BY <1>3, <1>6, <1>7, Zenon

\* Frappe gives up, and a loop that never began is not entered.
LEMMA HangUpTrace ==
  ASSUME DOMAIN kernel = KernelFields, TraceInv, HangUp
  PROVE TraceInv'
<1>1. /\ trace' = trace /\ found' = found /\ call' = call
      /\ kernel' = IF kernel.pc = "idle" THEN [kernel EXCEPT !.pc = "stopped"] ELSE kernel
  BY Zenon DEF HangUp, loop
<1>2. CASE kernel.pc = "idle"
  <2>1. trace = Fresh /\ Range(found) \subseteq trace.observed /\ kernel.code # "FINAL_ANSWER"
    BY <1>2, Zenon DEF TraceInv
  <2>2. kernel' = [kernel EXCEPT !.pc = "stopped"]
    BY <1>1, <1>2, Zenon
  <2>3. kernel'.pc = "stopped" /\ kernel'.code = kernel.code
    BY <2>2 DEF KernelFields
  <2>4. Settled(trace', kernel'.code)
    BY <1>1, <2>1, <2>3, FreshIsTyped, RestingIsSettled, Zenon
  <2>5. Settled(trace, kernel.code)' /\ TraceTyped(trace)'
    BY <1>1, <2>1, <2>4, FreshIsTyped, Zenon DEF Settled, Accepts, TraceTyped
  <2>6. trace'.ok = TRUE /\ Range(found)' \subseteq trace'.observed
    BY <1>1, <2>1, FreshIsTyped, Zenon
  <2>7. kernel'.pc # "idle" /\ kernel'.pc # "top" /\ kernel'.pc # "model" /\ kernel'.pc # "tool"
    BY <2>3
  <2> QED
    BY <2>5, <2>6, <2>7, Zenon DEF TraceInv
<1>3. CASE kernel.pc # "idle"
  <2>1. kernel' = kernel
    BY <1>1, <1>3, Zenon
  <2> QED
    BY <1>1, <2>1, Zenon DEF TraceInv, TraceTyped, Rests, InFlight, Settled, Accepts
<1> QED
  BY <1>2, <1>3

---------------------------------------------------------------------------
(***************************************************************************)
(* The counters: a step makes at most one call and one observation, so     *)
(* neither a tool's counter nor the one of observations without progress   *)
(* passes the number of the step.                                          *)
(***************************************************************************)
Running == {"top", "model", "tool"}
PlaceHolds ==
  /\ kernel.pc \in Running \cup {"idle", "stopped"} /\ kernel.step \in 0..MaxSteps
  /\ kernel.code \in StopCodes \cup {""}
  /\ kernel.pc = "idle" => kernel.step = 0
  /\ kernel.pc \in Running => kernel.step \in 1..MaxSteps
CountersHold ==
  /\ counts \in [Tools -> Nat] /\ stale \in Nat
  /\ stale <= kernel.step /\ (kernel.pc \in Running => stale + 1 <= kernel.step)
  /\ \A t \in Tools :
       /\ counts[t] <= kernel.step
       /\ kernel.pc \in {"top", "model"} => counts[t] + 1 <= kernel.step
CallHolds ==
  /\ found \in Seq(Digests) /\ call \in (Tools \X Args) \cup {NoCall}
  /\ kernel.pc = "tool" => call \in Tools \X Args
  /\ late \in BOOLEAN /\ link \in {"open", "dropped"}

LEMMA StepsAreCounted == MaxSteps \in Nat \ {0}
BY KernelAssumption

LEMMA PreflightCodes ==
  ASSUME NEW units
  PROVE \/ Preflight(units) = "WALL_TIME_BUDGET" \/ Preflight(units) = "TOKEN_BUDGET"
        \/ Preflight(units) = "COST_BUDGET" \/ Preflight(units) = ""
<1> DEFINE full == ~late /\ usage.output + MaxOutput > MaxTotalOutput
           dear == ~late /\ usage.output + MaxOutput <= MaxTotalOutput
                   /\ usage.cost + Reserved(units) > MaxCost
<1>1. Preflight(units) = CASE late -> "WALL_TIME_BUDGET" [] full -> "TOKEN_BUDGET"
                           [] dear -> "COST_BUDGET" [] OTHER -> ""
  BY Zenon DEF Preflight
<1> HIDE DEF full, dear
<1>2. CASE late
  BY <1>1, <1>2, Zenon
<1>3. CASE full
  BY <1>1, <1>3, Zenon
<1>4. CASE dear
  BY <1>1, <1>4, Zenon
<1>5. CASE ~(late \/ full \/ dear)
  BY <1>1, <1>5, Zenon
<1> QED
  BY <1>2, <1>3, <1>4, <1>5, Zenon

LEMMA OverrunCodes ==
  ASSUME NEW prompt, NEW output
  PROVE \/ Overrun(prompt, output) = "WALL_TIME_BUDGET" \/ Overrun(prompt, output) = "TOKEN_BUDGET"
        \/ Overrun(prompt, output) = "COST_BUDGET" \/ Overrun(prompt, output) = ""
<1> DEFINE after == Charged(prompt, output)
           long == output > MaxOutput \/ after.output > MaxTotalOutput
           dear == output <= MaxOutput /\ after.output <= MaxTotalOutput /\ after.cost > MaxCost
<1>1. Overrun(prompt, output) = CASE long -> "TOKEN_BUDGET" [] dear -> "COST_BUDGET"
                                  [] OTHER -> IF late THEN "WALL_TIME_BUDGET" ELSE ""
  BY Zenon DEF Overrun
<1> HIDE DEF long, dear
<1>2. CASE long
  BY <1>1, <1>2, Zenon
<1>3. CASE dear
  BY <1>1, <1>3, Zenon
<1>4. CASE ~(long \/ dear)
  BY <1>1, <1>4, Zenon
<1> QED
  BY <1>2, <1>3, <1>4, Zenon

LEMMA CodeIsTyped ==
  /\ \A units : Preflight(units) \in StopCodes \cup {""} /\ Preflight(units) # "FINAL_ANSWER"
  /\ \A prompt, output : UsageStop(prompt, output) \in StopCodes \cup {""}
  /\ FallbackCodes \cup {"FINAL_ANSWER", "TOOL_ERROR", "CANCELLED"} \subseteq StopCodes
<1>1. FallbackCodes \cup {"FINAL_ANSWER", "TOOL_ERROR", "CANCELLED"} \subseteq StopCodes
  BY Zenon DEF StopCodes
<1>2. /\ "TOKEN_BUDGET" \in StopCodes /\ "COST_BUDGET" \in StopCodes
      /\ "WALL_TIME_BUDGET" \in StopCodes /\ "CONTEXT_BUDGET" \in StopCodes
  BY Zenon DEF StopCodes, FallbackCodes
<1>3. ASSUME NEW units
      PROVE Preflight(units) \in StopCodes \cup {""} /\ Preflight(units) # "FINAL_ANSWER"
  <2>1. \/ Preflight(units) = "WALL_TIME_BUDGET" \/ Preflight(units) = "TOKEN_BUDGET"
        \/ Preflight(units) = "COST_BUDGET" \/ Preflight(units) = ""
    BY PreflightCodes
  <2> QED
    BY <1>2, <2>1, Zenon
<1>4. ASSUME NEW prompt, NEW output
      PROVE UsageStop(prompt, output) \in StopCodes \cup {""}
  <2>1. \/ Overrun(prompt, output) = "WALL_TIME_BUDGET" \/ Overrun(prompt, output) = "TOKEN_BUDGET"
        \/ Overrun(prompt, output) = "COST_BUDGET" \/ Overrun(prompt, output) = ""
    BY OverrunCodes
  <2>2. UsageStop(prompt, output) = "CONTEXT_BUDGET"
        \/ UsageStop(prompt, output) = Overrun(prompt, output)
    BY Zenon DEF UsageStop
  <2> QED
    BY <1>2, <2>1, <2>2, Zenon
<1> QED
  BY <1>1, <1>3, <1>4, Zenon

\* A stop, whatever it leaves the counters at, as long as they are of the step.
LEMMA StopCounts ==
  ASSUME DOMAIN kernel = KernelFields, PlaceHolds, NEW v, NEW code \in StopCodes \cup {""},
         Stop(v, code) \/ Refuse(v, code),
         counts' \in [Tools -> Nat], \A t \in Tools : counts'[t] <= kernel.step,
         stale' \in Nat, stale' <= kernel.step,
         found' \in Seq(Digests), call' \in (Tools \X Args) \cup {NoCall},
         late' \in BOOLEAN, link' \in {"open", "dropped"}
  PROVE (PlaceHolds /\ CountersHold /\ CallHolds)'
<1>1. kernel' = [kernel EXCEPT !.pc = "stopped", !.code = code]
  BY Zenon DEF Stop, Refuse
<1>2. kernel'.pc = "stopped" /\ kernel'.code = code /\ kernel'.step = kernel.step
  BY <1>1 DEF KernelFields
<1>3. kernel'.pc \notin Running /\ kernel'.pc # "idle" /\ kernel'.pc # "tool"
      /\ kernel'.pc \notin {"top", "model"}
  BY <1>2 DEF Running
<1>4. PlaceHolds'
  BY <1>2, <1>3, Zenon DEF PlaceHolds
<1>5. CountersHold'
  BY <1>2, <1>3, Zenon DEF CountersHold
<1>6. CallHolds'
  BY <1>3, Zenon DEF CallHolds
<1> QED
  BY <1>4, <1>5, <1>6, Zenon

\* A stop that leaves the counters alone.
LEMMA StopKeepsCounts ==
  ASSUME DOMAIN kernel = KernelFields, PlaceHolds, CountersHold, CallHolds,
         NEW v, NEW code \in StopCodes \cup {""}, Stop(v, code) \/ Refuse(v, code),
         UNCHANGED <<counts, stale, found, link>>, call' = call \/ call' = NoCall,
         late' = late \/ late' = TRUE
  PROVE (PlaceHolds /\ CountersHold /\ CallHolds)'
<1>1. /\ counts' \in [Tools -> Nat] /\ stale' \in Nat /\ stale' <= kernel.step
      /\ \A t \in Tools : counts'[t] <= kernel.step
  BY Zenon DEF CountersHold
<1>2. /\ found' \in Seq(Digests) /\ call' \in (Tools \X Args) \cup {NoCall}
      /\ late' \in BOOLEAN /\ link' \in {"open", "dropped"}
  BY Zenon DEF CallHolds
<1> QED
  BY <1>1, <1>2, StopCounts, Zenon

LEMMA PrepareCounts ==
  ASSUME DOMAIN kernel = KernelFields, PlaceHolds, CountersHold, CallHolds, Prepare
  PROVE (PlaceHolds /\ CountersHold /\ CallHolds)'
<1>1. /\ kernel.pc = "top" /\ UNCHANGED <<counts, stale, found, call, link>>
      /\ late' = late \/ late' = TRUE
  BY Zenon DEF Prepare, loop
<1>2. \/ \E v, code : /\ code \in {"CONTEXT_INVALID", "CONTEXT_BUDGET", "WALL_TIME_BUDGET",
                                   Preflight(Units)}
                      /\ Stop(v, code) \/ Refuse(v, code)
      \/ \E v : Continue(v, "model")
  BY Zenon DEF Prepare
<1>3. CASE \E v, code : /\ code \in {"CONTEXT_INVALID", "CONTEXT_BUDGET", "WALL_TIME_BUDGET",
                                     Preflight(Units)}
                        /\ Stop(v, code) \/ Refuse(v, code)
  <2>1. PICK v, code : /\ code \in {"CONTEXT_INVALID", "CONTEXT_BUDGET", "WALL_TIME_BUDGET",
                                    Preflight(Units)}
                       /\ Stop(v, code) \/ Refuse(v, code)
    BY <1>3, Zenon
  <2>2. code \in StopCodes \cup {""}
    <3>1. {"CONTEXT_INVALID", "CONTEXT_BUDGET", "WALL_TIME_BUDGET"} \subseteq StopCodes
      BY Zenon DEF StopCodes, FallbackCodes
    <3> QED
      BY <2>1, <3>1, CodeIsTyped, Zenon
  <2> QED
    BY <1>1, <2>1, <2>2, StopKeepsCounts, Zenon
<1>4. CASE \E v : Continue(v, "model")
  <2>1. kernel' = [kernel EXCEPT !.pc = "model"]
    BY <1>4, Zenon DEF Continue
  <2>2. kernel'.pc = "model" /\ kernel'.step = kernel.step /\ kernel'.code = kernel.code
    BY <2>1 DEF KernelFields
  <2>3. /\ kernel.pc \in Running /\ kernel.pc \in {"top", "model"} /\ kernel'.pc \in Running
        /\ kernel'.pc # "tool" /\ kernel'.pc # "idle"
    BY <1>1, <2>2 DEF Running
  <2>4. PlaceHolds'
    BY <2>2, <2>3, Zenon DEF PlaceHolds
  <2>5. CountersHold'
    BY <1>1, <2>2, <2>3, Zenon DEF CountersHold
  <2>6. CallHolds'
    BY <1>1, <2>3, Zenon DEF CallHolds
  <2> QED
    BY <2>4, <2>5, <2>6, Zenon
<1> QED
  BY <1>2, <1>3, <1>4

LEMMA CallsToolCounts ==
  ASSUME DOMAIN kernel = KernelFields, PlaceHolds, CountersHold, CallHolds, kernel.pc = "model",
         NEW prompt, NEW output, NEW c \in Tools \X Args, CallsTool(prompt, output, c)
  PROVE (PlaceHolds /\ CountersHold /\ CallHolds)'
<1>1. /\ counts' = IF Repeated(c) THEN counts ELSE [counts EXCEPT ![c[1]] = @ + 1]
      /\ UNCHANGED <<stale, found, link>> /\ (late' = late \/ late' = TRUE)
      /\ call' = call \/ call' = c
  BY Zenon DEF CallsTool
<1>2. kernel.pc \in Running /\ kernel.pc \in {"top", "model"}
  BY DEF Running
<1>3. /\ counts \in [Tools -> Nat] /\ kernel.step \in Nat /\ stale \in Nat /\ stale <= kernel.step
      /\ stale + 1 <= kernel.step /\ \A t \in Tools : counts[t] + 1 <= kernel.step
  <2>1. kernel.step \in 1..MaxSteps
    BY <1>2, Zenon DEF PlaceHolds
  <2> QED
    BY <1>2, <2>1, StepsAreCounted DEF CountersHold
<1>4. counts' \in [Tools -> Nat] /\ \A t \in Tools : counts'[t] <= kernel.step
  <2>1. CASE counts' = counts
    BY <1>3, <2>1
  <2>2. CASE counts' = [counts EXCEPT ![c[1]] = @ + 1]
    <3>1. PICK u \in Tools : u = c[1]
      OBVIOUS
    <3>2. counts' = [counts EXCEPT ![u] = @ + 1]
      BY <2>2, <3>1, Zenon
    <3> QED
      BY <1>3, <3>2
  <2> QED
    BY <1>1, <2>1, <2>2
<1>5. /\ found' \in Seq(Digests) /\ call' \in (Tools \X Args) \cup {NoCall}
      /\ late' \in BOOLEAN /\ link' \in {"open", "dropped"}
  BY <1>1, Zenon DEF CallHolds
<1>6. \/ \E v, code : /\ code \in {"REPEATED_CALL", "TOOL_FREQUENCY", "WALL_TIME_BUDGET"}
                      /\ Stop(v, code) \/ Refuse(v, code)
      \/ \E v : Continue(v, "tool") /\ call' = c
  BY Zenon DEF CallsTool
<1>7. CASE \E v, code : /\ code \in {"REPEATED_CALL", "TOOL_FREQUENCY", "WALL_TIME_BUDGET"}
                        /\ Stop(v, code) \/ Refuse(v, code)
  <2>1. PICK v, code : /\ code \in {"REPEATED_CALL", "TOOL_FREQUENCY", "WALL_TIME_BUDGET"}
                       /\ Stop(v, code) \/ Refuse(v, code)
    BY <1>7, Zenon
  <2>2. code \in StopCodes \cup {""}
    BY <2>1, Zenon DEF StopCodes, FallbackCodes
  <2>3. stale' \in Nat /\ stale' <= kernel.step
    BY <1>1, <1>3
  <2> QED
    BY <1>4, <1>5, <2>1, <2>2, <2>3, StopCounts, Zenon
<1>8. CASE \E v : Continue(v, "tool") /\ call' = c
  <2>1. kernel' = [kernel EXCEPT !.pc = "tool"]
    BY <1>8, Zenon DEF Continue
  <2>2. kernel'.pc = "tool" /\ kernel'.step = kernel.step /\ kernel'.code = kernel.code
    BY <2>1 DEF KernelFields
  <2>3. kernel'.pc \in Running /\ kernel'.pc \notin {"top", "model"} /\ kernel'.pc # "idle"
    BY <2>2 DEF Running
  <2>4. PlaceHolds'
    BY <1>2, <2>2, <2>3, Zenon DEF PlaceHolds
  <2>5. CountersHold'
    BY <1>1, <1>3, <1>4, <2>2, <2>3, Zenon DEF CountersHold
  <2>6. CallHolds'
    BY <1>5, <1>8, Zenon DEF CallHolds
  <2> QED
    BY <2>4, <2>5, <2>6, Zenon
<1> QED
  BY <1>6, <1>7, <1>8

LEMMA ModelStepCounts ==
  ASSUME DOMAIN kernel = KernelFields, PlaceHolds, CountersHold, CallHolds, ModelStep
  PROVE (PlaceHolds /\ CountersHold /\ CallHolds)'
<1>1. kernel.pc = "model"
  BY Zenon DEF ModelStep
<1>2. PICK p \in PromptUsage, o \in OutputUsage :
        \/ \E b \in {"", "TOKEN_BUDGET"} : ModelFails(p, o, b)
        \/ Overspends(p, o)
        \/ \E code \in {"MODEL_ERROR", "TOOL_NOT_ALLOWED", "INVALID_TOOL_ARGS"} :
             RejectsCall(p, o, code)
        \/ RejectsText(p, o)
        \/ \E refs \in References, wrong \in BOOLEAN : Concludes(p, o, refs, wrong)
        \/ \E c \in Tools \X Args : CallsTool(p, o, c)
  BY Zenon DEF ModelStep
<1>3. CASE \E c \in Tools \X Args : CallsTool(p, o, c)
  BY <1>1, <1>3, CallsToolCounts, Zenon
<1>4. CASE ~ \E c \in Tools \X Args : CallsTool(p, o, c)
  <2>1. /\ UNCHANGED <<counts, stale, found, link, call, late>>
        /\ \E v, code : /\ \/ code \in {"", "TOKEN_BUDGET", UsageStop(p, o)}
                           \/ code \in {"MODEL_ERROR", "TOOL_NOT_ALLOWED", "INVALID_TOOL_ARGS"}
                           \/ code \in {"UNSUPPORTED_FINAL_ANSWER", "FINAL_ANSWER"}
                        /\ Stop(v, code) \/ Refuse(v, code)
    BY <1>2, <1>4, Zenon DEF ModelFails, Overspends, RejectsCall, RejectsText, Concludes
  <2>2. PICK v, code : /\ \/ code \in {"", "TOKEN_BUDGET", UsageStop(p, o)}
                          \/ code \in {"MODEL_ERROR", "TOOL_NOT_ALLOWED", "INVALID_TOOL_ARGS"}
                          \/ code \in {"UNSUPPORTED_FINAL_ANSWER", "FINAL_ANSWER"}
                       /\ Stop(v, code) \/ Refuse(v, code)
    BY <2>1, Zenon
  <2>3. code \in StopCodes \cup {""}
    <3>1. {"TOKEN_BUDGET", "MODEL_ERROR", "TOOL_NOT_ALLOWED", "INVALID_TOOL_ARGS",
           "UNSUPPORTED_FINAL_ANSWER", "FINAL_ANSWER"} \subseteq StopCodes
      BY Zenon DEF StopCodes, FallbackCodes
    <3> QED
      BY <2>2, <3>1, CodeIsTyped, Zenon
  <2> QED
    BY <2>1, <2>2, <2>3, StopKeepsCounts, Zenon
<1> QED
  BY <1>3, <1>4

LEMMA ToolAnswersCounts ==
  ASSUME DOMAIN kernel = KernelFields, PlaceHolds, CountersHold, CallHolds,
         NEW content \in Contents, NEW redacted, ToolAnswers(content, redacted)
  PROVE (PlaceHolds /\ CountersHold /\ CallHolds)'
<1>1. PICK d : d = <<call[1], content>>
  OBVIOUS
<1>2. /\ kernel.pc = "tool" /\ found' = Append(found, d) /\ stale' = StaleAfter(d)
      /\ call' = NoCall /\ UNCHANGED <<counts, late, link>>
  BY <1>1, Zenon DEF ToolAnswers
<1>3. kernel.pc \in Running
  BY <1>2 DEF Running
<1>4. d \in Digests
  BY <1>1, <1>2 DEF CallHolds, Digests
<1>5. /\ found' \in Seq(Digests) /\ call' \in (Tools \X Args) \cup {NoCall}
      /\ late' \in BOOLEAN /\ link' \in {"open", "dropped"}
  BY <1>2, <1>4, AppendRange, Zenon DEF CallHolds
<1>6. /\ counts \in [Tools -> Nat] /\ kernel.step \in 1..MaxSteps /\ stale \in Nat
      /\ stale + 1 <= kernel.step /\ \A t \in Tools : counts[t] <= kernel.step
  BY <1>3, Zenon DEF CountersHold, PlaceHolds
<1>7. stale' \in Nat /\ stale' <= kernel.step
  BY <1>2, <1>6, StepsAreCounted DEF StaleAfter
<1>8. counts' \in [Tools -> Nat] /\ \A t \in Tools : counts'[t] <= kernel.step
  BY <1>2, <1>6, Zenon
<1>9. \/ \E v, code : code \in {"NO_PROGRESS", "WALL_TIME_BUDGET", "MAX_STEPS"} /\ Stop(v, code)
      \/ ~AtLastStep /\ kernel' = [kernel EXCEPT !.pc = "top", !.step = @ + 1]
  BY Zenon DEF ToolAnswers
<1>10. CASE \E v, code : code \in {"NO_PROGRESS", "WALL_TIME_BUDGET", "MAX_STEPS"} /\ Stop(v, code)
  <2>1. PICK v, code : code \in {"NO_PROGRESS", "WALL_TIME_BUDGET", "MAX_STEPS"} /\ Stop(v, code)
    BY <1>10, Zenon
  <2>2. code \in StopCodes \cup {""}
    BY <2>1, Zenon DEF StopCodes, FallbackCodes
  <2> QED
    BY <1>5, <1>7, <1>8, <2>1, <2>2, StopCounts, Zenon
<1>11. CASE ~AtLastStep /\ kernel' = [kernel EXCEPT !.pc = "top", !.step = @ + 1]
  <2>1. kernel'.pc = "top" /\ kernel'.step = kernel.step + 1 /\ kernel'.code = kernel.code
    BY <1>11 DEF KernelFields
  <2>2. kernel'.pc \in Running /\ kernel'.pc # "tool" /\ kernel'.pc # "idle"
    BY <2>1 DEF Running
  <2>3. kernel.step # MaxSteps
    BY <1>11 DEF AtLastStep
  <2>4. kernel'.step \in 1..MaxSteps /\ kernel'.step \in 0..MaxSteps
    BY <1>6, <2>1, <2>3, StepsAreCounted
  <2>5. PlaceHolds'
    BY <2>1, <2>2, <2>4, Zenon DEF PlaceHolds
  <2>6. /\ stale' <= kernel'.step /\ stale' + 1 <= kernel'.step
        /\ \A t \in Tools : counts'[t] <= kernel'.step /\ counts'[t] + 1 <= kernel'.step
    BY <1>6, <1>7, <1>8, <2>1
  <2>7. CountersHold'
    BY <1>7, <1>8, <2>6, Zenon DEF CountersHold
  <2>8. CallHolds'
    BY <1>5, <2>2, Zenon DEF CallHolds
  <2> QED
    BY <2>5, <2>7, <2>8, Zenon
<1> QED
  BY <1>9, <1>10, <1>11

LEMMA BeginCounts ==
  ASSUME DOMAIN kernel = KernelFields, PlaceHolds, CountersHold, CallHolds, Begin
  PROVE (PlaceHolds /\ CountersHold /\ CallHolds)'
<1>1. kernel.pc = "idle" /\ UNCHANGED <<counts, stale, found, call, late, link>>
  BY Zenon DEF Begin, loop
<1>2. /\ kernel.step = 0 /\ counts \in [Tools -> Nat] /\ stale \in Nat /\ stale <= 0
      /\ \A t \in Tools : counts[t] <= 0
  BY <1>1 DEF PlaceHolds, CountersHold
<1>3. stale = 0 /\ \A t \in Tools : counts[t] = 0
  BY <1>2
<1>4. \/ \E code \in {"COST_BUDGET", "MODEL_ERROR"} :
           kernel' = [pc |-> "stopped", step |-> 0, code |-> code]
      \/ kernel' = [kernel EXCEPT !.pc = "top", !.step = 1]
  BY Zenon DEF Begin
<1>5. ASSUME NEW code \in {"COST_BUDGET", "MODEL_ERROR"},
             kernel' = [pc |-> "stopped", step |-> 0, code |-> code]
      PROVE (PlaceHolds /\ CountersHold /\ CallHolds)'
  <2>1. kernel'.pc = "stopped" /\ kernel'.code = code /\ kernel'.step = 0
    BY <1>5
  <2>2. kernel'.pc \notin Running /\ kernel'.pc # "idle" /\ kernel'.pc # "tool"
        /\ kernel'.pc \notin {"top", "model"}
    BY <2>1 DEF Running
  <2>3. code \in StopCodes \cup {""}
    BY Zenon DEF StopCodes, FallbackCodes
  <2>4. 0 \in 0..MaxSteps
    BY StepsAreCounted
  <2>5. PlaceHolds'
    BY <2>1, <2>2, <2>3, <2>4, Zenon DEF PlaceHolds
  <2>6. CountersHold'
    BY <1>1, <1>2, <2>1, <2>2, Zenon DEF CountersHold
  <2>7. CallHolds'
    BY <1>1, <2>2, Zenon DEF CallHolds
  <2> QED
    BY <2>5, <2>6, <2>7, Zenon
<1>6. CASE kernel' = [kernel EXCEPT !.pc = "top", !.step = 1]
  <2>1. kernel'.pc = "top" /\ kernel'.step = 1 /\ kernel'.code = kernel.code
    BY <1>6 DEF KernelFields
  <2>2. kernel'.pc # "idle" /\ kernel'.pc # "tool" /\ kernel'.pc \in Running
    BY <2>1 DEF Running
  <2>3. kernel'.step \in 1..MaxSteps /\ kernel'.step \in 0..MaxSteps
    BY <2>1, StepsAreCounted
  <2>4. PlaceHolds'
    BY <2>1, <2>2, <2>3, Zenon DEF PlaceHolds
  <2>5. /\ stale' <= kernel'.step /\ stale' + 1 <= kernel'.step
        /\ \A t \in Tools : counts'[t] <= kernel'.step /\ counts'[t] + 1 <= kernel'.step
    BY <1>1, <1>3, <2>1
  <2>6. CountersHold'
    BY <1>1, <1>2, <2>5, Zenon DEF CountersHold
  <2>7. CallHolds'
    BY <1>1, <2>2, Zenon DEF CallHolds
  <2> QED
    BY <2>4, <2>6, <2>7, Zenon
<1> QED
  BY <1>4, <1>5, <1>6, Zenon

LEMMA HangUpCounts ==
  ASSUME DOMAIN kernel = KernelFields, PlaceHolds, CountersHold, CallHolds, HangUp
  PROVE (PlaceHolds /\ CountersHold /\ CallHolds)'
<1>1. /\ UNCHANGED <<counts, stale, found, call, late>> /\ link' = "dropped"
      /\ kernel' = IF kernel.pc = "idle" THEN [kernel EXCEPT !.pc = "stopped"] ELSE kernel
  BY Zenon DEF HangUp, loop
<1>2. CASE kernel.pc = "idle"
  <2>1. kernel' = [kernel EXCEPT !.pc = "stopped"]
    BY <1>1, <1>2, Zenon
  <2>2. kernel'.pc = "stopped" /\ kernel'.code = kernel.code /\ kernel'.step = kernel.step
    BY <2>1 DEF KernelFields
  <2>3. kernel'.pc \notin Running /\ kernel'.pc # "idle" /\ kernel'.pc # "tool"
        /\ kernel'.pc \notin {"top", "model"}
    BY <2>2 DEF Running
  <2>4. PlaceHolds'
    BY <2>2, <2>3, Zenon DEF PlaceHolds
  <2>5. CountersHold'
    BY <1>1, <2>2, <2>3, Zenon DEF CountersHold
  <2>6. CallHolds'
    BY <1>1, <2>3, Zenon DEF CallHolds
  <2> QED
    BY <2>4, <2>5, <2>6, Zenon
<1>3. CASE kernel.pc # "idle"
  <2>1. kernel' = kernel
    BY <1>1, <1>3, Zenon
  <2> QED
    BY <1>1, <2>1, Zenon DEF PlaceHolds, CountersHold, CallHolds
<1> QED
  BY <1>2, <1>3

---------------------------------------------------------------------------
(***************************************************************************)
(* The whole loop.                                                         *)
(***************************************************************************)
CountHolds == PlaceHolds /\ CountersHold /\ CallHolds

LEMMA OtherCounts ==
  ASSUME DOMAIN kernel = KernelFields, CountHolds,
         \/ ModelBreaks \/ ToolFails \/ TimeOut \/ Cancelled \/ Expire \/ Receive \/ Finished
         \/ UNCHANGED vars
  PROVE CountHolds'
<1>1. PlaceHolds /\ CountersHold /\ CallHolds
  BY Zenon DEF CountHolds
<1>2. UNCHANGED <<counts, stale, found, link>> /\ (call' = call \/ call' = NoCall)
      /\ (late' = late \/ late' = TRUE)
  BY Zenon DEF ModelBreaks, ToolFails, TimeOut, ModelTimesOut, ToolTimesOut, Cancelled, Expire,
               Receive, Finished, loop, vars
<1>3. CASE \E v, code : /\ code \in {"MODEL_ERROR", "TOOL_ERROR", "WALL_TIME_BUDGET", "CANCELLED"}
                        /\ Stop(v, code)
  <2>1. PICK v, code : /\ code \in {"MODEL_ERROR", "TOOL_ERROR", "WALL_TIME_BUDGET", "CANCELLED"}
                       /\ Stop(v, code)
    BY <1>3, Zenon
  <2>2. code \in StopCodes \cup {""}
    BY <2>1, Zenon DEF StopCodes, FallbackCodes
  <2> QED
    BY <1>1, <1>2, <2>1, <2>2, StopKeepsCounts, Zenon DEF CountHolds
<1>4. CASE ModelBreaks \/ ToolFails \/ TimeOut \/ Cancelled
  BY <1>3, <1>4, Zenon DEF ModelBreaks, ToolFails, TimeOut, ModelTimesOut, ToolTimesOut, Cancelled
<1>5. CASE Expire \/ Receive \/ Finished \/ UNCHANGED vars
  <2>1. kernel' = kernel /\ call' = call
    BY <1>5, Zenon DEF Expire, Receive, Finished, loop, vars
  <2> QED
    BY <1>1, <1>2, <2>1, Zenon DEF CountHolds, PlaceHolds, CountersHold, CallHolds
<1> QED
  BY <1>4, <1>5, Zenon

LEMMA CountStep ==
  ASSUME DOMAIN kernel = KernelFields, CountHolds, [Next]_vars
  PROVE CountHolds'
<1>1. PlaceHolds /\ CountersHold /\ CallHolds
  BY Zenon DEF CountHolds
<1>2. CASE Begin \/ Prepare \/ ModelStep \/ HangUp
  BY <1>1, <1>2, BeginCounts, PrepareCounts, ModelStepCounts, HangUpCounts, Zenon DEF CountHolds
<1>3. CASE \E content \in Contents, redacted \in BOOLEAN : ToolAnswers(content, redacted)
  BY <1>1, <1>3, ToolAnswersCounts, Zenon DEF CountHolds
<1> QED
  BY <1>2, <1>3, OtherCounts, Zenon DEF Next, ToolStep

LEMMA OtherTrace ==
  ASSUME DOMAIN kernel = KernelFields, TraceInv,
         \/ ModelBreaks \/ ToolFails \/ TimeOut \/ Cancelled \/ Expire \/ Receive \/ Finished
         \/ UNCHANGED vars
  PROVE TraceInv'
<1>1. CASE Expire \/ Receive \/ Finished \/ UNCHANGED vars
  <2>1. UNCHANGED <<kernel, trace, found, call>>
    BY <1>1, Zenon DEF Expire, Receive, Finished, loop, vars
  <2> QED
    BY <2>1, Zenon DEF TraceInv, TraceTyped, Rests, InFlight, Settled, Accepts
<1>2. CASE ModelBreaks \/ ModelTimesOut \/ Cancelled
  <2>1. found' = found /\ kernel.pc \in {"model", "tool"}
    BY <1>2, Zenon DEF ModelBreaks, ModelTimesOut, Cancelled, loop
  <2>2. \/ kernel.pc = "model" /\ \E code : code # "FINAL_ANSWER" /\ Stop(trace, code)
        \/ kernel.pc = "tool" /\ Stop(trace, "CANCELLED")
    <3>1. "MODEL_ERROR" # "FINAL_ANSWER" /\ "WALL_TIME_BUDGET" # "FINAL_ANSWER"
          /\ "CANCELLED" # "FINAL_ANSWER"
      OBVIOUS
    <3> QED
      BY <1>2, <2>1, <3>1, Zenon DEF ModelBreaks, ModelTimesOut, Cancelled
  <2>3. CASE kernel.pc = "model" /\ \E code : code # "FINAL_ANSWER" /\ Stop(trace, code)
    <3>1. kernel.pc \in {"top", "model"}
      BY <2>3
    <3> QED
      BY <2>1, <2>3, <3>1, StopAsIs, Zenon
  <2>4. CASE kernel.pc = "tool" /\ Stop(trace, "CANCELLED")
    <3>1. "CANCELLED" \in CutCodes /\ "CANCELLED" # "FINAL_ANSWER"
      BY DEF CutCodes
    <3> QED
      BY <2>1, <2>4, <3>1, StopAsIs, Zenon
  <2> QED
    BY <2>2, <2>3, <2>4
<1>3. CASE ToolFails \/ ToolTimesOut
  <2>1. /\ found' = found /\ kernel.pc = "tool"
        /\ Stop(ToolFailed, "TOOL_ERROR") \/ Stop(ToolFailed, "WALL_TIME_BUDGET")
    BY <1>3, Zenon DEF ToolFails, ToolTimesOut
  <2>2. "TOOL_ERROR" # "FINAL_ANSWER" /\ "WALL_TIME_BUDGET" # "FINAL_ANSWER"
    OBVIOUS
  <2> QED
    BY <2>1, <2>2, ToolFailedTrace, Zenon
<1> QED
  BY <1>1, <1>2, <1>3, Zenon DEF TimeOut

LEMMA TraceStep ==
  ASSUME DOMAIN kernel = KernelFields, CountHolds, TraceInv, [Next]_vars
  PROVE TraceInv'
<1>1. PlaceHolds /\ CallHolds
  BY Zenon DEF CountHolds
<1>2. CASE Begin \/ ModelStep \/ HangUp
  BY <1>2, BeginTrace, ModelStepTrace, HangUpTrace, Zenon
<1>3. CASE Prepare
  <2>1. kernel.pc = "top"
    BY <1>3, Zenon DEF Prepare
  <2>2. kernel.pc \in Running
    BY <2>1 DEF Running
  <2>3. kernel.step \in 1..MaxSteps
    BY <1>1, <2>2, Zenon DEF PlaceHolds
  <2>4. MaxSteps \in Nat
    BY StepsAreCounted
  <2> QED
    BY <1>3, <2>3, <2>4, PrepareTrace, Zenon
<1>4. CASE \E content \in Contents, redacted \in BOOLEAN : ToolAnswers(content, redacted)
  <2>1. PICK content \in Contents, redacted \in BOOLEAN : ToolAnswers(content, redacted)
    BY <1>4, Zenon
  <2>2. kernel.pc = "tool"
    BY <2>1, Zenon DEF ToolAnswers
  <2>3. kernel.step \in 0..MaxSteps
    BY <1>1, Zenon DEF PlaceHolds
  <2>4. kernel.step \in Nat
    BY <2>3, StepsAreCounted
  <2>5. found \in Seq(Digests) /\ call \in Tools \X Args
    BY <1>1, <2>2, Zenon DEF CallHolds
  <2> QED
    BY <2>1, <2>4, <2>5, ToolAnswersTrace, Zenon
<1> QED
  BY <1>2, <1>3, <1>4, OtherTrace, Zenon DEF Next, ToolStep

TracedInv == CountHolds /\ TraceInv

LEMMA TraceStarts ==
  ASSUME Init
  PROVE TracedInv
<1>0. kernel = [pc |-> "idle", step |-> 0, code |-> ""]
  BY Zenon DEF Init
<1>1. /\ trace = Fresh /\ call = NoCall /\ counts = [t \in Tools |-> 0] /\ stale = 0
      /\ found = <<>> /\ late = FALSE /\ link = "open"
  BY Zenon DEF Init
<1>2. kernel.pc = "idle" /\ kernel.step = 0
  BY <1>0
<1>3. kernel.code = ""
  BY <1>0, Zenon
<1>4. kernel.pc \notin Running /\ kernel.pc \notin {"top", "model"} /\ kernel.pc # "top"
      /\ kernel.pc # "model" /\ kernel.pc # "tool" /\ kernel.pc # "stopped"
  BY <1>2 DEF Running
<1>5. 0 \in 0..MaxSteps
  BY StepsAreCounted
<1>6. PlaceHolds
  BY <1>2, <1>3, <1>4, <1>5, Zenon DEF PlaceHolds
<1>7. CountersHold
  <2>1. /\ counts \in [Tools -> Nat] /\ stale \in Nat /\ stale <= 0
        /\ \A t \in Tools : counts[t] <= 0
    BY <1>1
  <2> QED
    BY <1>2, <1>4, <2>1, Zenon DEF CountersHold
<1>8. CallHolds
  <2>1. found \in Seq(Digests)
    BY <1>1
  <2> QED
    BY <1>1, <1>4, <2>1, Zenon DEF CallHolds
<1>9. TraceInv
  <2>1. Range(found) = {}
    BY <1>1 DEF Range
  <2>2. TraceTyped(trace) /\ trace.ok = TRUE
    BY <1>1, FreshIsTyped, Zenon
  <2>3. Range(found) \subseteq trace.observed
    BY <2>1
  <2>4. kernel.code # "FINAL_ANSWER"
    BY <1>3, Zenon
  <2> QED
    BY <1>1, <1>4, <2>2, <2>3, <2>4, Zenon DEF TraceInv
<1> QED
  BY <1>6, <1>7, <1>8, <1>9, Zenon DEF TracedInv, CountHolds

LEMMA TracedIsAccepted ==
  ASSUME TracedInv
  PROVE RefusedOnlyWhenCut
<1>1. SUFFICES ASSUME kernel.pc = "stopped", ~TraceAccepted(kernel.code)
               PROVE CutInsideAction \/ trace.altered
  BY Zenon DEF RefusedOnlyWhenCut
<1>2. TraceTyped(trace) /\ Settled(trace, kernel.code)
  BY <1>1, Zenon DEF TracedInv, TraceInv
<1>3. ~Accepts(trace, kernel.code)
  BY <1>1, <1>2, Zenon DEF Accepts, TraceAccepted
<1> QED
  BY <1>2, <1>3, Zenon DEF Settled, CutInsideAction, CutCodes

LEMMA TracedIsTyped ==
  ASSUME TracedInv, asked \subseteq Tools \X Args, usage \in [output : Nat, cost : Nat],
         honest \in BOOLEAN
  PROVE TypeOK
<1>1. PlaceHolds /\ CountersHold /\ CallHolds /\ TraceTyped(trace)
  BY Zenon DEF TracedInv, CountHolds, TraceInv
<1>2. kernel.step \in 0..MaxSteps
  BY <1>1, Zenon DEF PlaceHolds
<1>3. counts \in [Tools -> 0..MaxSteps] /\ stale \in 0..MaxSteps
  BY <1>1, <1>2, StepsAreCounted DEF CountersHold
<1>4. /\ trace.context \cup trace.models \subseteq 1..MaxSteps
      /\ trace.observed \cup trace.proposal \subseteq Digests
      /\ {trace.ok, trace.validated, trace.over, trace.altered} \subseteq BOOLEAN
  BY <1>1 DEF TraceTyped
<1>5. usage.output \in Nat /\ usage.cost \in Nat
  OBVIOUS
<1>6. kernel.pc \in {"idle", "top", "model", "tool", "stopped"}
  BY <1>1, Zenon DEF PlaceHolds, Running
<1> QED
  BY <1>1, <1>2, <1>3, <1>4, <1>5, <1>6, Zenon DEF TypeOK, PlaceHolds, CallHolds

LEMMA TracedStep ==
  ASSUME AgentInv, TracedInv, [Next]_vars
  PROVE TracedInv'
<1>1. DOMAIN kernel = KernelFields
  BY Zenon DEF AgentInv, AgentTypeOK
<1> QED
  BY <1>1, CountStep, TraceStep, Zenon DEF TracedInv

---------------------------------------------------------------------------
(***************************************************************************)
(* The Coach, for any documents, fields, sources and providers: all that   *)
(* is assumed of an output is what its contract leaves possible            *)
(* (CoachAssumption).                                                      *)
(*                                                                         *)
(* Nothing a provider writes is trusted, so the proof follows an output    *)
(* through the code that rewrites it.  Parsing keeps its shape; the row    *)
(* of a live citation is always the server's, and holds a value for every  *)
(* field the citation names; a claim that is shown is one of the claims    *)
(* parsed, with its text rebuilt; and the guards of the grounding leave    *)
(* only citations of rows of this document and of chunks of this search.   *)
(***************************************************************************)
\* The numbers of a finite set can be ranked, so InOrder lists its members.
LEMMA EveryRankIsTaken ==
  ASSUME NEW S \in SUBSET Nat, IsFiniteSet(S), NEW n \in 1..Cardinality(S)
  PROVE \E k \in S : Cardinality({m \in S : m <= k}) = n
<1> DEFINE below(k) == {m \in S : m <= k}
<1> DEFINE T == 1..Cardinality(S)
<1> DEFINE f == [k \in S |-> Cardinality(below(k))]
<1>1. Cardinality(S) \in Nat
  BY FS_CardinalityType
<1>2. ASSUME NEW k \in S
      PROVE IsFiniteSet(below(k)) /\ Cardinality(below(k)) \in T
  <2>1. below(k) \in SUBSET S
    OBVIOUS
  <2>2. IsFiniteSet(below(k)) /\ Cardinality(below(k)) <= Cardinality(S)
    BY <2>1, FS_Subset
  <2>3. Cardinality(below(k)) \in Nat
    BY <2>2, FS_CardinalityType
  <2>4. k \in below(k)
    OBVIOUS
  <2>5. Cardinality(below(k)) # 0
    BY <2>2, <2>4, FS_EmptySet
  <2> HIDE DEF below
  <2> QED
    BY <1>1, <2>2, <2>3, <2>5
<1>3. ASSUME NEW j \in S, NEW k \in S, j < k
      PROVE Cardinality(below(j)) # Cardinality(below(k))
  <2>1. below(j) \in SUBSET below(k)
    <3>1. \A m \in S : m <= j => m <= k
      BY <1>3
    <3> QED
      BY <3>1, Zenon
  <2>2. k \in below(k) /\ k \notin below(j)
    BY <1>3
  <2>3. IsFiniteSet(below(k))
    BY <1>2
  <2>4. Cardinality(below(k)) = Cardinality(below(j)) => below(k) = below(j)
    BY <2>1, <2>3, FS_Subset
  <2> QED
    BY <2>2, <2>4
<1> HIDE DEF below
<1>4. f \in [S -> T] /\ \A k \in S : f[k] = Cardinality(below(k))
  BY <1>2
<1>5. \A j, k \in S : f[j] = f[k] => j = k
  <2>1. SUFFICES ASSUME NEW j \in S, NEW k \in S, j # k
                 PROVE f[j] # f[k]
    OBVIOUS
  <2>2. j < k \/ k < j
    BY <2>1
  <2> QED
    BY <1>3, <1>4, <2>2
<1> HIDE DEF f
<1>6. f \in Injection(S, T)
  BY <1>4, <1>5 DEF Injection, IsInjective
<1>7. IsFiniteSet(T) /\ Cardinality(T) = Cardinality(S)
  BY <1>1, FS_Interval
<1>8. f \in Surjection(S, T)
  BY <1>6, <1>7, FS_Injection
<1>9. PICK k \in S : f[k] = n
  BY <1>8 DEF Surjection
<1> QED
  BY <1>4, <1>9 DEF below

LEMMA InOrderLists ==
  ASSUME NEW S \in SUBSET Nat, IsFiniteSet(S)
  PROVE /\ Cardinality(S) \in Nat /\ DOMAIN InOrder(S) = 1..Cardinality(S)
        /\ \A n \in DOMAIN InOrder(S) : InOrder(S)[n] \in S
        /\ S # {} => DOMAIN InOrder(S) # {}
<1>1. Cardinality(S) \in Nat
  BY FS_CardinalityType
<1>2. DOMAIN InOrder(S) = 1..Cardinality(S)
  BY DEF InOrder
<1>3. ASSUME NEW n \in 1..Cardinality(S)
      PROVE InOrder(S)[n] \in S
  <2>1. \E k \in S : Cardinality({m \in S : m <= k}) = n
    BY EveryRankIsTaken
  <2>2. InOrder(S)[n] = CHOOSE k \in S : Cardinality({m \in S : m <= k}) = n
    BY Zenon DEF InOrder
  <2> QED
    BY <2>1, <2>2, Zenon
<1>4. S # {} => 1 \in 1..Cardinality(S)
  BY <1>1, FS_EmptySet
<1> QED
  BY <1>1, <1>2, <1>3, <1>4

\* A set of numbers that is not empty has a least one, so Selector reads a claim.
LEMMA LeastOfFinite ==
  ASSUME NEW S \in SUBSET Nat, IsFiniteSet(S), S # {}
  PROVE \E k \in S : \A m \in S : k <= m
<1>1. Cardinality(S) \in Nat /\ Cardinality(S) # 0
  BY FS_CardinalityType, FS_EmptySet
<1>2. PICK k \in S : Cardinality({m \in S : m <= k}) = 1
  <2>1. 1 \in 1..Cardinality(S)
    BY <1>1
  <2> QED
    BY <2>1, EveryRankIsTaken
<1>3. PICK x : {m \in S : m <= k} = {x}
  <2>1. IsFiniteSet({m \in S : m <= k})
    BY FS_Subset
  <2> QED
    BY <1>2, <2>1, FS_Singleton
<1>4. ASSUME NEW m \in S
      PROVE k <= m
  <2>1. k \in {x}
    BY <1>3
  <2>2. m <= k => m \in {x}
    BY <1>3
  <2> QED
    BY <2>1, <2>2
<1> QED
  BY <1>4

---------------------------------------------------------------------------
(***************************************************************************)
(* Parsing.                                                                *)
(***************************************************************************)
LEMMA SequenceDomain ==
  ASSUME NEW s, IsSequence(s)
  PROVE /\ DOMAIN s \in SUBSET Nat /\ IsFiniteSet(DOMAIN s)
        /\ s # <<>> <=> 1 \in DOMAIN s
        /\ \A n \in DOMAIN s : n >= 1
<1>1. s \in Seq(Range(s))
  BY DEF IsSequence
<1>2. Len(s) \in Nat /\ DOMAIN s = 1..Len(s) /\ (s # <<>> <=> Len(s) > 0)
  <2>1. PICK T : T = Range(s)
    OBVIOUS
  <2>2. s \in Seq(T)
    BY <1>1, <2>1
  <2> QED
    BY <2>2
<1>3. IsFiniteSet(1..Len(s))
  BY <1>2, FS_Interval
<1> QED
  BY <1>2, <1>3

LEMMA CitesReplaced ==
  ASSUME NEW o, DOMAIN o = OutputFields, NEW cites
  PROVE /\ DOMAIN [o EXCEPT !.cites = cites] = OutputFields
        /\ [o EXCEPT !.cites = cites].status = o.status
        /\ [o EXCEPT !.cites = cites].claims = o.claims
        /\ [o EXCEPT !.cites = cites].cites = cites
BY DEF OutputFields

LEMMA SelectorNamesFields ==
  ASSUME NEW o, Shaped(o), NEW id
  PROVE Selector(o, id) \subseteq Fields
<1>1. /\ DOMAIN o.claims \in SUBSET Nat /\ IsFiniteSet(DOMAIN o.claims)
      /\ \A n \in DOMAIN o.claims : o.claims[n].fields \subseteq Fields
  BY SequenceDomain, Zenon DEF Shaped
<1>2. Selecting(o, id) \in SUBSET DOMAIN o.claims
  BY Zenon DEF Selecting, ERPClaims
<1>3. Selecting(o, id) \in SUBSET Nat /\ IsFiniteSet(Selecting(o, id))
  BY <1>1, <1>2, FS_Subset
<1>4. CASE Selecting(o, id) = {}
  BY <1>4, Zenon DEF Selector
<1>5. CASE Selecting(o, id) # {}
  <2>1. \E n \in Selecting(o, id) : \A m \in Selecting(o, id) : n <= m
    BY <1>3, <1>5, LeastOfFinite
  <2>2. PICK n \in Selecting(o, id) : Selector(o, id) = o.claims[n].fields
    BY <1>5, <2>1, Zenon DEF Selector
  <2> QED
    BY <1>1, <1>2, <2>2, Zenon
<1> QED
  BY <1>4, <1>5

\* A citation of the right shape
ShapedCite(c) == DOMAIN c = CiteFields /\ c.fields \subseteq Fields

LEMMA CiteRefined ==
  ASSUME NEW c, ShapedCite(c), NEW fields \in SUBSET Fields
  PROVE ShapedCite([c EXCEPT !.fields = fields])
<1>1. DOMAIN c = CiteFields
  BY DEF ShapedCite
<1>2. /\ DOMAIN [c EXCEPT !.fields = fields] = CiteFields
      /\ [c EXCEPT !.fields = fields].fields = fields
  BY <1>1 DEF CiteFields
<1> QED
  BY <1>2, Zenon DEF ShapedCite

LEMMA ShellIsShaped ==
  ASSUME NEW fields \in SUBSET Fields
  PROVE ShapedCite(Shell(fields))
<1>1. DOMAIN Shell(fields) = CiteFields /\ Shell(fields).fields = fields
  BY DEF Shell, CiteFields
<1> QED
  BY <1>1, Zenon DEF ShapedCite

\* (_normalize_provider_compatibility)
LEMMA CompatibleIsShaped ==
  ASSUME NEW o, Shaped(o)
  PROVE Shaped(Compatible(o))
<1>1. DOMAIN o = OutputFields /\ \A id \in DOMAIN o.cites : ShapedCite(o.cites[id])
  BY Zenon DEF Shaped, ShapedCite
<1>2. \A id : Selector(o, id) \in SUBSET Fields
  BY SelectorNamesFields
<1>3. PICK omitted \in BOOLEAN :
        Compatible(o) =
          [o EXCEPT !.cites =
             IF omitted THEN [id \in Refs(o.claims) |-> Shell(Selector(o, id))]
             ELSE [id \in DOMAIN o.cites |->
                     IF o.cites[id].type = "LIVE_ERP" /\ o.cites[id].fields = {}
                     THEN [o.cites[id] EXCEPT !.fields = Selector(o, id)]
                     ELSE o.cites[id]]]
  BY Zenon DEF Compatible
<1>4. PICK cites :
        /\ cites = IF omitted THEN [id \in Refs(o.claims) |-> Shell(Selector(o, id))]
                   ELSE [id \in DOMAIN o.cites |->
                           IF o.cites[id].type = "LIVE_ERP" /\ o.cites[id].fields = {}
                           THEN [o.cites[id] EXCEPT !.fields = Selector(o, id)]
                           ELSE o.cites[id]]
  OBVIOUS
<1>5. \A id \in DOMAIN cites : ShapedCite(cites[id])
  <2>1. CASE omitted
    BY <1>2, <1>4, <2>1, ShellIsShaped, Zenon
  <2>2. CASE ~omitted
    <3>1. \A id \in DOMAIN o.cites : ShapedCite([o.cites[id] EXCEPT !.fields = Selector(o, id)])
      BY <1>1, <1>2, CiteRefined
    <3> QED
      BY <1>1, <1>4, <2>2, <3>1, Zenon
  <2> QED
    BY <2>1, <2>2
<1>6. Compatible(o) = [o EXCEPT !.cites = cites]
  BY <1>3, <1>4, Zenon
<1>7. /\ DOMAIN Compatible(o) = OutputFields /\ Compatible(o).status = o.status
      /\ Compatible(o).claims = o.claims /\ Compatible(o).cites = cites
  <2>1. /\ DOMAIN [o EXCEPT !.cites = cites] = OutputFields
        /\ [o EXCEPT !.cites = cites].status = o.status
        /\ [o EXCEPT !.cites = cites].claims = o.claims
        /\ [o EXCEPT !.cites = cites].cites = cites
    BY <1>1, CitesReplaced
  <2> QED
    BY <1>6, <2>1, Zenon
<1> QED
  BY <1>5, <1>7, Zenon DEF Shaped, ShapedCite

---------------------------------------------------------------------------
(***************************************************************************)
(* Grounding.                                                              *)
(***************************************************************************)
\* The row of a citation is one of the document's and has every field it names
Held(c) == c.row \in Rows /\ \A f \in c.fields : document[c.row][f] # Null

\* (_materialize_live_citations)
LEMMA RowsAreTheServers ==
  ASSUME NEW c, Resolved(c) # {}
  PROVE LET r == CHOOSE r \in Resolved(c) : TRUE IN
        r \in Rows /\ \A f \in c.fields : document[r][f] # Null
<1>1. Resolved(c) \subseteq Candidates(c)
  BY Zenon DEF Resolved, Exact
<1> QED
  BY <1>1, Zenon DEF Candidates

LEMMA RowFilled ==
  ASSUME NEW c, DOMAIN c = CiteFields, NEW r
  PROVE /\ [c EXCEPT !.row = r].type = c.type /\ [c EXCEPT !.row = r].fields = c.fields
        /\ [c EXCEPT !.row = r].row = r
BY DEF CiteFields

\* An output and what filling in the rows made of it
Filled(m, p) ==
  /\ m.claims = p.claims /\ DOMAIN m.cites = DOMAIN p.cites
  /\ \A id \in DOMAIN m.cites :
       /\ m.cites[id].type = p.cites[id].type /\ m.cites[id].fields = p.cites[id].fields
       /\ m.cites[id].type = "LIVE_ERP" => Held(m.cites[id])

LEMMA MaterialisedIs ==
  ASSUME NEW p, Shaped(p), Materialisable(p), NEW m, m = Materialised(p)
  PROVE Filled(m, p)
<1>1. DOMAIN p = OutputFields /\ \A id \in DOMAIN p.cites : DOMAIN p.cites[id] = CiteFields
  BY Zenon DEF Shaped
<1>2. PICK cites :
        cites = [id \in DOMAIN p.cites |->
                   IF p.cites[id].type # "LIVE_ERP" THEN p.cites[id]
                   ELSE [p.cites[id] EXCEPT !.row = CHOOSE r \in Resolved(p.cites[id]) : TRUE]]
  OBVIOUS
<1>3. m = [p EXCEPT !.cites = cites]
  BY <1>2, Zenon DEF Materialised
<1>4. m.claims = p.claims /\ m.cites = cites
  <2>1. /\ [p EXCEPT !.cites = cites].claims = p.claims
        /\ [p EXCEPT !.cites = cites].cites = cites
    BY <1>1, CitesReplaced
  <2> QED
    BY <1>3, <2>1, Zenon
<1>5. ASSUME NEW id \in DOMAIN p.cites
      PROVE /\ cites[id].type = p.cites[id].type /\ cites[id].fields = p.cites[id].fields
            /\ cites[id].type = "LIVE_ERP" => Held(cites[id])
  <2>1. CASE p.cites[id].type # "LIVE_ERP"
    <3>1. cites[id] = p.cites[id]
      BY <1>2, <2>1, Zenon
    <3> QED
      BY <2>1, <3>1, Zenon
  <2>2. CASE p.cites[id].type = "LIVE_ERP"
    <3>1. PICK r : r = CHOOSE x \in Resolved(p.cites[id]) : TRUE
      OBVIOUS
    <3>2. Resolved(p.cites[id]) # {}
      BY <2>2, Zenon DEF Materialisable
    <3>3. r \in Rows /\ \A f \in p.cites[id].fields : document[r][f] # Null
      BY <3>1, <3>2, RowsAreTheServers, Zenon
    <3>4. cites[id] = [p.cites[id] EXCEPT !.row = r]
      BY <1>2, <2>2, <3>1, Zenon
    <3>5. /\ [p.cites[id] EXCEPT !.row = r].type = p.cites[id].type
          /\ [p.cites[id] EXCEPT !.row = r].fields = p.cites[id].fields
          /\ [p.cites[id] EXCEPT !.row = r].row = r
      BY <1>1, RowFilled
    <3>6. /\ cites[id].type = p.cites[id].type /\ cites[id].fields = p.cites[id].fields
          /\ cites[id].row = r
      BY <3>4, <3>5, Zenon
    <3> QED
      BY <3>3, <3>6, Zenon DEF Held
  <2> QED
    BY <2>1, <2>2
<1>6. DOMAIN cites = DOMAIN p.cites
  BY <1>2, Zenon
<1> QED
  BY <1>4, <1>5, <1>6, Zenon DEF Filled

\* What a shown claim is: one of the claims parsed, with its text rebuilt
Stems(claim, n, m) ==
  /\ claim.ordinal = n
  /\ \E k \in DOMAIN m.claims :
       /\ claim.type = m.claims[k].type /\ claim.refs = m.claims[k].refs
       /\ claim.text = Text(m.claims[k], m.cites)

\* (_normalize_grounded_claims)
LEMMA NormalisedClaims ==
  ASSUME NEW m, IsSequence(m.claims), NEW claims, claims = Normalised(m)
  PROVE /\ m.claims # <<>> => DOMAIN claims # {}
        /\ \A n \in DOMAIN claims : Stems(claims[n], n, m)
<1>1. PICK built :
        built = [n \in DOMAIN m.claims |->
                   [type |-> m.claims[n].type, ordinal |-> n, refs |-> m.claims[n].refs,
                    text |-> Text(m.claims[n], m.cites)]]
  OBVIOUS
<1>2. PICK first :
        first = {n \in DOMAIN built : \A k \in 1..(n - 1) : ~SameClaim(built[k], built[n])}
  OBVIOUS
<1>3. claims = Renumbered(built, InOrder(first))
  BY <1>1, <1>2, Zenon DEF Normalised
<1>4. DOMAIN built = DOMAIN m.claims
  BY <1>1, Zenon
<1>5. /\ DOMAIN m.claims \in SUBSET Nat /\ IsFiniteSet(DOMAIN m.claims)
      /\ m.claims # <<>> => 1 \in DOMAIN m.claims
  BY SequenceDomain, Zenon
<1>6. first \in SUBSET DOMAIN m.claims
  BY <1>2, <1>4, Zenon
<1>7. first \in SUBSET Nat /\ IsFiniteSet(first)
  BY <1>5, <1>6, FS_Subset
<1>8. /\ \A n \in DOMAIN InOrder(first) : InOrder(first)[n] \in first
      /\ first # {} => DOMAIN InOrder(first) # {}
  BY <1>7, InOrderLists, Zenon
<1>9. /\ DOMAIN claims = DOMAIN InOrder(first)
      /\ \A n \in DOMAIN claims : claims[n] = [built[InOrder(first)[n]] EXCEPT !.ordinal = n]
  BY <1>3, Zenon DEF Renumbered
<1>10. m.claims # <<>> => DOMAIN claims # {}
  <2>1. \A k \in 1..(1 - 1) : FALSE
    OBVIOUS
  <2>2. m.claims # <<>> => 1 \in first
    BY <1>2, <1>4, <1>5, <2>1, Zenon
  <2> QED
    BY <1>8, <1>9, <2>2, Zenon
<1>11. ASSUME NEW n \in DOMAIN claims
       PROVE Stems(claims[n], n, m)
  <2>1. PICK k \in DOMAIN m.claims : k = InOrder(first)[n]
    BY <1>6, <1>8, <1>9, Zenon
  <2>2. PICK type, refs, text : /\ type = m.claims[k].type /\ refs = m.claims[k].refs
                                /\ text = Text(m.claims[k], m.cites)
    OBVIOUS
  <2>3. claims[n] = [[type |-> type, ordinal |-> k, refs |-> refs, text |-> text]
                       EXCEPT !.ordinal = n]
    BY <1>1, <1>9, <2>1, <2>2, Zenon
  <2>4. /\ claims[n].type = type /\ claims[n].refs = refs /\ claims[n].text = text
        /\ claims[n].ordinal = n
    BY <2>3
  <2> QED
    BY <2>2, <2>4, Zenon DEF Stems
<1> QED
  BY <1>10, <1>11

\* What a claim says is what the rows it cites hold, one value for each field asked
StatesItsRows(claim, cites) ==
  /\ \A atom \in claim.text :
       /\ question.fields # {} => atom[1] \in question.fields
       /\ \E id \in Range(claim.refs) :
            /\ atom[1] \in cites[id].fields
            /\ document[cites[id].row][atom[1]] = atom[2] /\ atom[2] # Null
  /\ \A x, y \in claim.text : x[1] = y[1] => x = y
  /\ claim.text # {}

\* The text of an ERP claim, when there is one, only states what its rows hold.
\* (_normalize_erp_claim)
LEMMA TextIsOfItsRows ==
  ASSUME NEW claim, NEW cites, claim.text = ErpText(claim, cites), claim.text # {},
         \A id \in Range(claim.refs) : Held(cites[id])
  PROVE StatesItsRows(claim, cites)
<1>1. claim.text = Atoms(claim, cites) /\ OneSource(claim, cites)
  BY Zenon DEF ErpText
<1>2. ASSUME NEW atom \in Atoms(claim, cites)
      PROVE \E k \in DOMAIN claim.refs :
              /\ atom[1] \in Usable(cites[claim.refs[k]])
              /\ atom = <<atom[1], document[cites[claim.refs[k]].row][atom[1]]>>
  <2>1. PICK id \in Range(claim.refs) :
          \E f \in Usable(cites[id]) : atom = <<f, document[cites[id].row][f]>>
    BY Zenon DEF Atoms
  <2>2. PICK k \in DOMAIN claim.refs : claim.refs[k] = id
    BY <2>1, Zenon DEF Range
  <2>3. PICK f \in Usable(cites[id]) : atom = <<f, document[cites[id].row][f]>>
    BY <2>1
  <2>4. atom[1] = f
    BY <2>3
  <2> QED
    BY <2>2, <2>3, <2>4, Zenon
<1>3. ASSUME NEW atom \in claim.text
      PROVE /\ question.fields # {} => atom[1] \in question.fields
            /\ \E id \in Range(claim.refs) :
                 /\ atom[1] \in cites[id].fields
                 /\ document[cites[id].row][atom[1]] = atom[2] /\ atom[2] # Null
  <2>1. PICK k \in DOMAIN claim.refs :
          /\ atom[1] \in Usable(cites[claim.refs[k]])
          /\ atom = <<atom[1], document[cites[claim.refs[k]].row][atom[1]]>>
    BY <1>1, <1>2
  <2>2. claim.refs[k] \in Range(claim.refs)
    BY Zenon DEF Range
  <2>3. /\ atom[1] \in cites[claim.refs[k]].fields
        /\ question.fields # {} => atom[1] \in question.fields
    BY <2>1 DEF Usable
  <2>4. atom[2] = document[cites[claim.refs[k]].row][atom[1]]
    BY <2>1
  <2>5. document[cites[claim.refs[k]].row][atom[1]] # Null
    BY <2>2, <2>3, Zenon DEF Held
  <2> QED
    BY <2>2, <2>3, <2>4, <2>5, Zenon
<1>4. ASSUME NEW a \in claim.text, NEW b \in claim.text, a[1] = b[1]
      PROVE a = b
  <2>1. PICK k \in DOMAIN claim.refs :
          /\ a[1] \in Usable(cites[claim.refs[k]])
          /\ a = <<a[1], document[cites[claim.refs[k]].row][a[1]]>>
    BY <1>1, <1>2
  <2>2. PICK j \in DOMAIN claim.refs :
          /\ b[1] \in Usable(cites[claim.refs[j]])
          /\ b = <<b[1], document[cites[claim.refs[j]].row][b[1]]>>
    BY <1>1, <1>2
  <2>3. k = j
    BY <1>1, <1>4, <2>1, <2>2 DEF OneSource
  <2> QED
    BY <1>4, <2>1, <2>2, <2>3, Zenon
<1> QED
  BY <1>3, <1>4, Zenon DEF StatesItsRows

\* AnswersAreGrounded, said of any answer
Shows(a) ==
  /\ \A n \in ERPClaims(a.claims) : StatesItsRows(a.claims[n], a.cites)
  /\ \A id \in DOMAIN a.cites : a.cites[id].type = "RETRIEVAL" => a.cites[id].chunk \in hits
Statements == {"", "ANSWERED", "CONFLICT", "UNKNOWN", "REFUSED"}
GoodAnswer(a) == a.status \in Statements /\ Shows(a) /\ (a.status # "" => AppAccepts(a))

\* An answer without claims says nothing, and the app takes it if it is a failure.
LEMMA FailureIsGood ==
  ASSUME NEW status \in {"UNKNOWN", "REFUSED"}
  PROVE GoodAnswer(Failed(status)) /\ GoodAnswer(NoAnswer)
<1>1. DOMAIN <<>> = {}
  OBVIOUS
<1>2. ERPClaims(<<>>) = {} /\ Refs(<<>>) = {}
  BY <1>1, Zenon DEF ERPClaims, Refs
<1>3. ASSUME NEW a, a.claims = <<>>, a.cites = <<>>
      PROVE Shows(a) /\ Graph(a.claims, a.cites)
  BY <1>1, <1>2, <1>3, Zenon DEF Shows, Graph
<1>4. /\ NoAnswer.status = "" /\ NoAnswer.claims = <<>> /\ NoAnswer.cites = <<>>
  BY DEF NoAnswer
<1>5. /\ Failed(status).status = status /\ Failed(status).claims = <<>>
      /\ Failed(status).cites = <<>> /\ Failed(status).packages = <<>>
  BY DEF Failed, NoAnswer
<1>6. AppAccepts(Failed(status))
  BY <1>1, <1>3, <1>5, Zenon DEF AppAccepts
<1>7. "" \in Statements /\ status \in Statements
  BY DEF Statements
<1> QED
  BY <1>3, <1>4, <1>5, <1>6, <1>7, Zenon DEF GoodAnswer

\* The text of an ERP claim depends on what it cites, not on what it says.
LEMMA TextOfRefs ==
  ASSUME NEW claim, NEW other, claim.refs = other.refs, NEW cites
  PROVE ErpText(claim, cites) = ErpText(other, cites)
<1>1. OneSource(claim, cites) = OneSource(other, cites)
  BY Zenon DEF OneSource
<1>2. Atoms(claim, cites) = Atoms(other, cites)
  BY Zenon DEF Atoms
<1> QED
  BY <1>1, <1>2, Zenon DEF ErpText

\* What the guards leave of the claims that are shown
ShownClaim(claim, n, cites) ==
  /\ claim.type \in Signable /\ claim.ordinal = n
  /\ claim.refs # <<>> /\ Distinct(claim.refs) /\ IsSequence(claim.refs)
  /\ claim.type = "ERP_FACT" =>
       /\ claim.text = ErpText(claim, cites)
       /\ \A id \in Range(claim.refs) : Held(cites[id])

LEMMA ShownClaims ==
  ASSUME NEW p, Shaped(p), WellFormed(p), Materialisable(p),
         NEW m, m = Materialised(p), NEW claims, claims = Normalised(m),
         CitationGraph(m), \A n \in DOMAIN claims : claims[n].text # {}, Graph(claims, m.cites),
         NEW n \in DOMAIN claims
  PROVE ShownClaim(claims[n], n, m.cites)
<1>1. /\ m.claims = p.claims
      /\ \A id \in DOMAIN m.cites : m.cites[id].type = "LIVE_ERP" => Held(m.cites[id])
  BY MaterialisedIs, Zenon DEF Filled
<1>2. IsSequence(m.claims)
  BY <1>1, Zenon DEF Shaped
<1>3. Stems(claims[n], n, m)
  BY <1>2, NormalisedClaims
<1>4. PICK k \in DOMAIN m.claims :
        /\ claims[n].type = m.claims[k].type /\ claims[n].refs = m.claims[k].refs
        /\ claims[n].text = Text(m.claims[k], m.cites)
  BY <1>3, Zenon DEF Stems
<1>5. claims[n].type \in Signable /\ claims[n].ordinal = n
  BY <1>3, <1>4, Zenon DEF Stems, CitationGraph
<1>6. claims[n].refs # <<>> /\ Distinct(claims[n].refs) /\ IsSequence(claims[n].refs)
  BY <1>1, <1>4, Zenon DEF WellFormed, Shaped
<1>7. ASSUME claims[n].type = "ERP_FACT"
      PROVE /\ claims[n].text = ErpText(claims[n], m.cites)
            /\ \A id \in Range(claims[n].refs) : Held(m.cites[id])
  <2>1. ErpText(claims[n], m.cites) = ErpText(m.claims[k], m.cites)
    BY <1>4, TextOfRefs
  <2>2. ASSUME NEW id \in Range(claims[n].refs)
        PROVE id \in DOMAIN m.cites /\ m.cites[id].type = "LIVE_ERP"
    <3>1. PICK j \in DOMAIN claims[n].refs : claims[n].refs[j] = id
      BY Zenon DEF Range
    <3>2. id \in DOMAIN m.cites /\ Citable(claims[n], m.cites[id])
      BY <3>1, Zenon DEF Graph
    <3> QED
      BY <1>7, <3>2, Zenon DEF Citable
  <2> QED
    BY <1>1, <1>4, <1>7, <2>1, <2>2, Zenon DEF Text
<1> QED
  BY <1>5, <1>6, <1>7, Zenon DEF ShownClaim

\* The citations that are shown. (_validate_citation_graph, _validate_citation)
LEMMA ShownCites ==
  ASSUME NEW p, Shaped(p), WellFormed(p), Materialisable(p), hits \subseteq Chunks,
         NEW m, m = Materialised(p), CitationGraph(m), NEW id \in DOMAIN m.cites
  PROVE /\ ValidCitation(m.cites[id])
        /\ m.cites[id].type = "RETRIEVAL" => m.cites[id].chunk \in hits
<1>1. /\ DOMAIN m.cites = DOMAIN p.cites
      /\ m.cites[id].type = p.cites[id].type /\ m.cites[id].fields = p.cites[id].fields
  <2>1. Filled(m, p)
    BY MaterialisedIs, Zenon
  <2> QED
    BY <2>1, Zenon DEF Filled
<1>2. /\ m.cites[id].type = "LIVE_ERP" => m.cites[id].row \in Rows
      /\ m.cites[id].type # "LIVE_ERP" =>
           m.cites[id].type = "RETRIEVAL" /\ m.cites[id].chunk \in hits
  <2>1. CASE m.cites[id].type = "LIVE_ERP"
    BY <2>1, Zenon DEF CitationGraph
  <2>2. CASE m.cites[id].type = "RETRIEVAL"
    <3>1. m.cites[id].type # "LIVE_ERP"
      BY <2>2
    <3> QED
      BY <2>2, <3>1, Zenon DEF CitationGraph
  <2>3. CASE m.cites[id].type # "LIVE_ERP" /\ m.cites[id].type # "RETRIEVAL"
    BY <2>3, Zenon DEF CitationGraph
  <2> QED
    BY <2>1, <2>2, <2>3
<1>3. m.cites[id].type = "RETRIEVAL" => m.cites[id].chunk \in hits
  <2>1. m.cites[id].type = "RETRIEVAL" => m.cites[id].type # "LIVE_ERP"
    OBVIOUS
  <2> QED
    BY <1>2, <2>1, Zenon
<1>4. CASE m.cites[id].type = "LIVE_ERP"
  <2>1. m.cites[id].fields # {} /\ m.cites[id].fields \subseteq Fields
    BY <1>1, <1>4, Zenon DEF WellFormed, Shaped
  <2> QED
    BY <1>2, <1>3, <1>4, <2>1, Zenon DEF ValidCitation
<1>5. CASE m.cites[id].type # "LIVE_ERP"
  <2>1. m.cites[id].chunk # ""
    BY <1>2, <1>5, CoachAssumption, Zenon
  <2> QED
    BY <1>2, <1>3, <1>5, <2>1, Zenon DEF ValidCitation
<1> QED
  BY <1>4, <1>5

LEMMA PackageIs ==
  ASSUME NEW claim, NEW cites
  PROVE /\ Package(claim, cites).ordinal = claim.ordinal
        /\ Package(claim, cites).type = claim.type /\ Package(claim, cites).text = claim.text
        /\ Package(claim, cites).provenance = [k \in DOMAIN claim.refs |-> cites[claim.refs[k]]]
<1>1. PICK provenance : provenance = [k \in DOMAIN claim.refs |-> cites[claim.refs[k]]]
  OBVIOUS
<1>2. Package(claim, cites) = [ordinal |-> claim.ordinal, type |-> claim.type,
                               text |-> claim.text, provenance |-> provenance]
  BY <1>1, Zenon DEF Package
<1>3. /\ Package(claim, cites).ordinal = claim.ordinal
      /\ Package(claim, cites).type = claim.type /\ Package(claim, cites).text = claim.text
      /\ Package(claim, cites).provenance = provenance
  BY <1>2
<1> QED
  BY <1>1, <1>3, Zenon

\* A package of a shown claim vouches for it. (_validated_claims, _validated_package)
LEMMA PackagesVouch ==
  ASSUME NEW claim, NEW cites, IsSequence(claim.refs), claim.refs # <<>>, claim.text # {},
         \A k \in DOMAIN claim.refs :
           /\ ValidCitation(cites[claim.refs[k]]) /\ Citable(claim, cites[claim.refs[k]])
  PROVE /\ ValidPackage(Package(claim, cites))
        /\ Vouches(Package(claim, cites), claim, cites)
<1>1. PICK p : p = Package(claim, cites)
  OBVIOUS
<1>2. /\ p.ordinal = claim.ordinal /\ p.type = claim.type /\ p.text = claim.text
      /\ p.provenance = [k \in DOMAIN claim.refs |-> cites[claim.refs[k]]]
  BY <1>1, PackageIs, Zenon
<1>3. p.provenance # <<>>
  <2>1. DOMAIN p.provenance = DOMAIN claim.refs
    BY <1>2, Zenon
  <2>2. 1 \in DOMAIN claim.refs
    BY SequenceDomain, Zenon
  <2>3. DOMAIN <<>> = {}
    OBVIOUS
  <2> QED
    BY <2>1, <2>2, <2>3, Zenon
<1>4. \A k \in DOMAIN p.provenance :
        ValidCitation(p.provenance[k]) /\ Citable(p, p.provenance[k])
  BY <1>2, Zenon DEF Citable
<1> QED
  BY <1>1, <1>2, <1>3, <1>4, Zenon DEF ValidPackage, Vouches

\* Whatever was parsed, what the grounding returns is good. (answer_coach)
LEMMA GroundedIsGood ==
  ASSUME NEW p, Shaped(p), WellFormed(p), p.status \in {"ANSWERED", "CONFLICT"}, hits \subseteq Chunks
  PROVE GoodAnswer(Grounded(p))
<1>1. CASE Grounded(p) = Failed("UNKNOWN")
  BY <1>1, FailureIsGood, Zenon
<1>2. CASE Grounded(p) # Failed("UNKNOWN")
  <2>1. Materialisable(p) /\ Grounded(p) = Grounding(p)
    BY <1>2, Zenon DEF Grounded
  <2>2. PICK m : m = Materialised(p)
    OBVIOUS
  <2>3. PICK claims : claims = Normalised(m)
    OBVIOUS
  <2>4. PICK packages : packages = [n \in DOMAIN claims |-> Package(claims[n], m.cites)]
    OBVIOUS
  <2>5. PICK status, cites : status = p.status /\ cites = m.cites
    OBVIOUS
  <2>6. /\ CitationGraph(m) /\ Graph(claims, m.cites)
        /\ \A n \in DOMAIN claims : claims[n].text # {}
        /\ Grounded(p) = [status |-> status, claims |-> claims, cites |-> cites,
                          packages |-> packages]
    BY <1>2, <2>1, <2>2, <2>3, <2>4, <2>5, Zenon DEF Grounding
  <2>7. PICK a : a = Grounded(p)
    OBVIOUS
  <2>8. /\ a.status = status /\ a.claims = claims /\ a.cites = cites /\ a.packages = packages
    BY <2>6, <2>7
  <2>9. ASSUME NEW n \in DOMAIN claims
        PROVE ShownClaim(claims[n], n, m.cites)
    BY <2>1, <2>2, <2>3, <2>6, ShownClaims, Zenon
  <2>10. ASSUME NEW id \in DOMAIN m.cites
         PROVE /\ ValidCitation(m.cites[id])
               /\ m.cites[id].type = "RETRIEVAL" => m.cites[id].chunk \in hits
    BY <2>1, <2>2, <2>6, ShownCites, Zenon
  <2>11. ASSUME NEW n \in ERPClaims(claims)
         PROVE StatesItsRows(claims[n], m.cites)
    <3>1. n \in DOMAIN claims /\ claims[n].type = "ERP_FACT"
      BY Zenon DEF ERPClaims
    <3>2. /\ claims[n].text = ErpText(claims[n], m.cites) /\ claims[n].text # {}
          /\ \A id \in Range(claims[n].refs) : Held(m.cites[id])
      BY <2>6, <2>9, <3>1, Zenon DEF ShownClaim
    <3> QED
      BY <3>2, TextIsOfItsRows
  <2>12. Shows(a)
    BY <2>5, <2>8, <2>10, <2>11, Zenon DEF Shows
  <2>13. ASSUME NEW n \in DOMAIN claims
         PROVE ValidPackage(packages[n]) /\ Vouches(packages[n], claims[n], cites)
    <3>1. \A k \in DOMAIN claims[n].refs :
            /\ ValidCitation(m.cites[claims[n].refs[k]])
            /\ Citable(claims[n], m.cites[claims[n].refs[k]])
      BY <2>6, <2>10, Zenon DEF Graph
    <3>2. packages[n] = Package(claims[n], m.cites)
      BY <2>4, Zenon
    <3>3. claims[n].refs # <<>> /\ IsSequence(claims[n].refs) /\ claims[n].text # {}
      BY <2>6, <2>9, Zenon DEF ShownClaim
    <3> QED
      BY <2>5, <3>1, <3>2, <3>3, PackagesVouch, Zenon
  <2>14. claims # <<>>
    <3>1. m.claims = p.claims /\ IsSequence(p.claims)
      BY <2>1, <2>2, MaterialisedIs, Zenon DEF Filled, Shaped
    <3>2. p.status \notin {"UNKNOWN", "REFUSED"}
      OBVIOUS
    <3>3. p.claims # <<>>
      BY <3>2, Zenon DEF WellFormed
    <3>4. DOMAIN claims # {}
      BY <2>3, <3>1, <3>3, NormalisedClaims, Zenon
    <3>5. DOMAIN <<>> = {}
      OBVIOUS
    <3> QED
      BY <3>4, <3>5, Zenon
  <2>15. status \in Statements /\ status # "" /\ status \notin {"UNKNOWN", "REFUSED"}
    BY <2>5 DEF Statements
  <2>16. DOMAIN packages = DOMAIN claims
    BY <2>4, Zenon
  <2>17. AppAccepts(a)
    <3>1. \A n \in DOMAIN claims : ValidClaim(claims[n]) /\ claims[n].ordinal = n
      BY <2>9, Zenon DEF ShownClaim, ValidClaim
    <3>2. \A id \in DOMAIN cites : ValidCitation(cites[id])
      BY <2>5, <2>10, Zenon
    <3>3. Graph(claims, cites)
      BY <2>5, <2>6, Zenon
    <3> QED
      BY <2>8, <2>13, <2>14, <2>15, <2>16, <3>1, <3>2, <3>3, Zenon DEF AppAccepts
  <2> QED
    BY <2>7, <2>8, <2>12, <2>15, <2>17, Zenon DEF GoodAnswer
<1> QED
  BY <1>1, <1>2

---------------------------------------------------------------------------
(***************************************************************************)
(* The Coach's steps.                                                      *)
(***************************************************************************)
CoachInv ==
  /\ CoachTypeOK
  /\ turn # "done" => answer = NoAnswer
  /\ GoodAnswer(answer)

\* Being good depends on what the server holds, and a step after the search changes none of it.
LEMMA GoodStays ==
  ASSUME UNCHANGED <<request, hits>>, NEW a, GoodAnswer(a), answer' = a
  PROVE GoodAnswer(answer)'
<1>1. document' = document /\ question' = question /\ hits' = hits
  BY Zenon DEF request
<1>2. ASSUME NEW c
      PROVE ValidCitation(c)' <=> ValidCitation(c)
  BY <1>1, Zenon DEF ValidCitation, Rows
<1>3. ASSUME NEW p
      PROVE ValidPackage(p)' <=> ValidPackage(p)
  BY <1>2, Zenon DEF ValidPackage
<1>4. ASSUME NEW claim, NEW cites
      PROVE StatesItsRows(claim, cites)' <=> StatesItsRows(claim, cites)
  BY <1>1, Zenon DEF StatesItsRows
<1>5. Shows(a) => Shows(answer)'
  BY <1>1, <1>4, Zenon DEF Shows
<1>6. AppAccepts(a) => AppAccepts(answer)'
  BY <1>2, <1>3, Zenon DEF AppAccepts
<1> QED
  BY <1>5, <1>6, Zenon DEF GoodAnswer

LEMMA ReturnStep ==
  ASSUME CoachInv, NEW a, GoodAnswer(a), Return(a)
  PROVE CoachInv'
<1>1. /\ UNCHANGED <<request, hits>> /\ answer' = a /\ turn' = "done"
      /\ role' = role /\ answered' = answered /\ hits' = hits
  BY Zenon DEF Return
<1>2. GoodAnswer(answer)'
  BY <1>1, GoodStays, Zenon
<1>3. CoachTypeOK'
  <2>1. hits \subseteq Chunks /\ role \in 1..Roles /\ answered \in BOOLEAN
    BY Zenon DEF CoachInv, CoachTypeOK
  <2>2. answer'.status \in Statements
    BY <1>2, Zenon DEF GoodAnswer
  <2> QED
    BY <1>1, <2>1, <2>2, Zenon DEF CoachTypeOK, Statements
<1> QED
  BY <1>1, <1>2, <1>3, Zenon DEF CoachInv

\* A step that returns nothing yet: there is no answer, so none to keep good.
LEMMA OnwardStep ==
  ASSUME CoachInv, turn # "done", UNCHANGED <<request, answer>>, turn' # "done",
         turn' \in {"read", "search", "configure", "ask"},
         hits' \subseteq Chunks, role' \in 1..Roles, answered' \in BOOLEAN
  PROVE CoachInv'
<1>1. answer = NoAnswer /\ answer' = answer
  BY Zenon DEF CoachInv
<1>2. DOMAIN <<>> = {}
  OBVIOUS
<1>3. NoAnswer.status = "" /\ NoAnswer.claims = <<>> /\ NoAnswer.cites = <<>>
  BY DEF NoAnswer
<1>4. ERPClaims(<<>>) = {}
  BY <1>2, Zenon DEF ERPClaims
<1>5. answer'.status = "" /\ answer'.claims = <<>> /\ answer'.cites = <<>>
  BY <1>1, <1>3, Zenon
<1>6. GoodAnswer(answer)'
  BY <1>2, <1>4, <1>5, Zenon DEF GoodAnswer, Shows, Statements
<1>7. CoachTypeOK'
  BY <1>5, Zenon DEF CoachTypeOK
<1> QED
  BY <1>1, <1>6, <1>7, Zenon DEF CoachInv

LEMMA SomeRole == Roles \in Nat /\ 1 \in 1..Roles
<1>1. Roles \in Nat \ {0}
  BY CoachAssumption, Zenon
<1> QED
  BY <1>1

LEMMA NextRoleStep ==
  ASSUME CoachInv, turn = "ask", NEW response \in BOOLEAN, NextRole(response)
  PROVE CoachInv'
<1>1. CASE role < Roles
  <2>1. /\ role' = role + 1 /\ answered' = response /\ UNCHANGED <<request, answer>>
        /\ hits' = hits /\ turn' = turn
    BY <1>1, Zenon DEF NextRole
  <2>2. hits \subseteq Chunks /\ role \in 1..Roles
    BY Zenon DEF CoachInv, CoachTypeOK
  <2>3. role' \in 1..Roles
    <3>1. role' = role + 1 /\ role \in 1..Roles
      BY <2>1, <2>2, Zenon
    <3> QED
      BY <1>1, <3>1, SomeRole
  <2>4. turn' \in {"read", "search", "configure", "ask"} /\ turn # "done" /\ turn' # "done"
    BY <2>1
  <2>5. hits' \subseteq Chunks /\ answered' \in BOOLEAN
    BY <2>1, <2>2, Zenon
  <2> QED
    BY <2>1, <2>3, <2>4, <2>5, OnwardStep, Zenon
<1>2. CASE ~(role < Roles)
  <2>1. PICK status \in {"UNKNOWN", "REFUSED"} : Return(Failed(status))
    BY <1>2, Zenon DEF NextRole
  <2> QED
    BY <2>1, FailureIsGood, ReturnStep, Zenon
<1> QED
  BY <1>1, <1>2

\* A usable response: it is parsed, and shown only when it can be grounded. (answer_coach)
LEMMA RespondStep ==
  ASSUME CoachInv, NEW o \in Outputs, Respond(o)
  PROVE CoachInv'
<1>1. PICK parsed : parsed = Compatible(o)
  OBVIOUS
<1>2. Shaped(parsed)
  BY <1>1, CompatibleIsShaped, CoachAssumption, Zenon
<1>3. turn = "ask" /\ hits \subseteq Chunks
  BY Zenon DEF Respond, CoachInv, CoachTypeOK
<1>4. CASE question.missing
  <2>1. Return(Failed("UNKNOWN"))
    BY <1>4, Zenon DEF Respond
  <2> QED
    BY <2>1, FailureIsGood, ReturnStep, Zenon
<1>5. CASE ~question.missing /\ (~WellFormed(parsed) \/ parsed.status = "UNKNOWN")
  <2>1. NextRole(TRUE)
    BY <1>1, <1>5, Zenon DEF Respond
  <2> QED
    BY <1>3, <2>1, NextRoleStep, Zenon
<1>6. CASE ~question.missing /\ WellFormed(parsed) /\ parsed.status = "REFUSED"
  <2>1. parsed.status # "UNKNOWN"
    BY <1>6
  <2>2. Return(Failed("REFUSED"))
    BY <1>1, <1>6, <2>1, Zenon DEF Respond
  <2> QED
    BY <2>2, FailureIsGood, ReturnStep, Zenon
<1>7. CASE /\ ~question.missing /\ WellFormed(parsed)
           /\ parsed.status # "UNKNOWN" /\ parsed.status # "REFUSED"
  <2>1. Return(Grounded(parsed))
    BY <1>1, <1>7, Zenon DEF Respond
  <2>2. parsed.status \in {"ANSWERED", "CONFLICT"}
    BY <1>2, <1>7, Zenon DEF Shaped
  <2>3. GoodAnswer(Grounded(parsed))
    BY <1>2, <1>3, <1>7, <2>2, GroundedIsGood, Zenon
  <2> QED
    BY <2>1, <2>3, ReturnStep, Zenon
<1> QED
  BY <1>4, <1>5, <1>6, <1>7, Zenon

LEMMA CoachStep ==
  ASSUME CoachInv, [CoachNext]_coach
  PROVE CoachInv'
<1>1. GoodAnswer(NoAnswer) /\ \A status \in {"UNKNOWN", "REFUSED"} : GoodAnswer(Failed(status))
  BY FailureIsGood, Zenon
<1>2. CASE \/ ReadFails \/ Unconfigured \/ NoContext \/ Rejected \/ OverBudget \/ ToolCall
           \/ Abandon
  <2>1. \E a \in {NoAnswer, Failed("UNKNOWN"), Failed("REFUSED")} : Return(a)
    BY <1>2, Zenon DEF ReadFails, Unconfigured, NoContext, Rejected, OverBudget, ToolCall, Abandon
  <2> QED
    BY <1>1, <2>1, ReturnStep, Zenon
<1>3. CASE Read \/ Configure \/ \E selected \in SUBSET Chunks : Search(selected)
  <2>1. /\ turn \in {"read", "search", "configure"} /\ UNCHANGED <<request, answer>>
        /\ turn' \in {"search", "configure", "ask"}
        /\ role' = role /\ answered' = answered
        /\ hits' = hits \/ hits' \in SUBSET Chunks
    BY <1>3, Zenon DEF Read, Configure, Search
  <2>2. hits \subseteq Chunks /\ role \in 1..Roles /\ answered \in BOOLEAN
    BY Zenon DEF CoachInv, CoachTypeOK
  <2>3. turn # "done" /\ turn' # "done" /\ turn' \in {"read", "search", "configure", "ask"}
    BY <2>1
  <2>4. hits' \subseteq Chunks /\ role' \in 1..Roles /\ answered' \in BOOLEAN
    BY <2>1, <2>2, Zenon
  <2> QED
    BY <2>1, <2>3, <2>4, OnwardStep, Zenon
<1>4. CASE Unavailable
  <2>1. turn = "ask" /\ NextRole(answered) /\ answered \in BOOLEAN
    BY <1>4, Zenon DEF Unavailable, CoachInv, CoachTypeOK
  <2> QED
    BY <2>1, NextRoleStep, Zenon
<1>5. CASE \E o \in Outputs : Respond(o)
  BY <1>5, RespondStep, Zenon
<1>6. CASE UNCHANGED coach
  <2>1. /\ UNCHANGED <<request, hits>> /\ answer' = answer /\ turn' = turn
        /\ hits' = hits /\ role' = role /\ answered' = answered
    BY <1>6, Zenon DEF coach, request
  <2>2. GoodAnswer(answer)'
    <3>1. GoodAnswer(answer)
      BY Zenon DEF CoachInv
    <3>2. PICK a : a = answer
      OBVIOUS
    <3> QED
      BY <2>1, <3>1, <3>2, GoodStays, Zenon
  <2> QED
    BY <2>1, <2>2, Zenon DEF CoachInv, CoachTypeOK
<1> QED
  BY <1>2, <1>3, <1>4, <1>5, <1>6, Zenon DEF CoachNext, CoachRests

LEMMA CoachStarts ==
  ASSUME CoachInit
  PROVE CoachInv
<1>1. GoodAnswer(NoAnswer) /\ answer = NoAnswer /\ turn = "read" /\ hits = {} /\ role = 1
      /\ answered \in BOOLEAN
  BY FailureIsGood, Zenon DEF CoachInit
<1>2. NoAnswer.status = ""
  BY DEF NoAnswer
<1>3. role \in 1..Roles
  BY <1>1, SomeRole, Zenon
<1>4. CoachTypeOK
  BY <1>1, <1>2, <1>3, Zenon DEF CoachTypeOK
<1> QED
  BY <1>1, <1>4, Zenon DEF CoachInv

LEMMA GoodAnswersAreGrounded ==
  ASSUME CoachInv
  PROVE AnswersAreGrounded /\ ValidatorsAgree
<1>1. Shows(answer) /\ (answer.status # "" => AppAccepts(answer))
  BY Zenon DEF CoachInv, GoodAnswer
<1>2. AnswersAreGrounded
  BY <1>1, Zenon DEF Shows, StatesItsRows, AnswersAreGrounded
<1> QED
  BY <1>1, <1>2, Zenon DEF ValidatorsAgree

---------------------------------------------------------------------------
(***************************************************************************)
(* The three loops beside each other.                                      *)
(***************************************************************************)
\* A step of one loop is a step of it, and a stutter of the other two.
LEMMA LoopsApart ==
  ASSUME [RuntimeNext]_all
  PROVE [Next]_vars /\ [CoachNext]_coach /\ [ReviewNext]_review
<1>1. CASE RuntimeNext
  BY <1>1, Zenon DEF RuntimeNext, AgentAlone, CoachAlone, ReviewAlone
<1>2. CASE UNCHANGED all
  BY <1>2, Zenon DEF all
<1> QED
  BY <1>1, <1>2

LoopsInv == AgentInv /\ TracedInv /\ CoachInv /\ ReviewInv

\* The strengthening every behaviour of the runtime satisfies.
\* (run_native_tool_calling, answer_coach, run_planner_reviewer)
THEOREM LoopsInvariant == RuntimeSpec => []LoopsInv
<1>1. RuntimeInit => LoopsInv
  BY AgentStarts, TraceStarts, CoachStarts, ReviewStarts, Zenon DEF RuntimeInit, LoopsInv
<1>2. LoopsInv /\ [RuntimeNext]_all => LoopsInv'
  BY AgentStep, TracedStep, CoachStep, ReviewSteps, LoopsApart, Zenon DEF LoopsInv
<1> QED
  BY <1>1, <1>2, PTL DEF RuntimeSpec

\* For every budget, whatever the model asks: as long as a provider keeps to the caps of a
\* request the agent never passes its limits of cost and output; it reads the Gateway at
\* most once for each call and at most MaxCallsPerTool times for each tool; and every call
\* of the Planner and of the Reviewer is counted.
\* (BudgetAccount, RepeatedCallGuard, ToolFrequencyGuard, call_role)
THEOREM BudgetsAreKept == RuntimeSpec => []BudgetsHold
<1>1. LoopsInv => BudgetsHold
  <2>1. ASSUME AgentInv PROVE NeverOverspends /\ ReadsBounded
    <3>1. NeverOverspends /\ ReadsCounted
      BY <2>1, Zenon DEF AgentInv
    <3>2. ReadsBounded
      BY <3>1 DEF ReadsCounted, ReadsBounded
    <3> QED
      BY <3>1, <3>2, Zenon
  <2>2. ASSUME ReviewInv PROVE EveryCallIsCounted
    BY <2>2, Zenon DEF ReviewInv, AccountHolds, Taken, EveryCallIsCounted
  <2> QED
    BY <2>1, <2>2, Zenon DEF LoopsInv, BudgetsHold
<1> QED
  BY <1>1, LoopsInvariant, PTL

\* For any documents, sources and provider outputs: what the Coach displays as an ERP fact
\* only states values of the rows it cites, of fields the question asked for, one for each,
\* and every chunk it cites was selected by the search.
\* (_materialize_live_citations, _validate_citation_graph, _normalize_erp_claim)
THEOREM CoachSaysWhatErpHolds == RuntimeSpec => []AnswersAreGrounded
<1>1. LoopsInv => AnswersAreGrounded
  BY GoodAnswersAreGrounded, Zenon DEF LoopsInv
<1> QED
  BY <1>1, LoopsInvariant, PTL

\* For any documents, sources and provider outputs: every answer the runtime's own checks let
\* through passes the app's as well, so none is lost to a disagreement between the two.
\* (answer_coach of the runtime, _validate_coach_answer of the app)
THEOREM CoachAnswersAreAccepted == RuntimeSpec => []ValidatorsAgree
<1>1. LoopsInv => ValidatorsAgree
  BY GoodAnswersAreGrounded, Zenon DEF LoopsInv
<1> QED
  BY <1>1, LoopsInvariant, PTL

\* For any tools, contents, documents and budgets: what the runtime returns passes the app's
\* own validator.  Of every way the agent can stop, Frappe refuses only a trace that was cut
\* inside an action it had announced, or that redaction altered; no answer of the Coach and
\* no evidence of the orchestration is refused.  (run_native_tool_calling against
\* _validate_trace_semantics, answer_coach, run_planner_reviewer)
THEOREM AnswersAreAccepted == RuntimeSpec => []AppAcceptsAnswers
<1>1. LoopsInv => AppAcceptsAnswers
  <2>1. ASSUME AgentInv, TracedInv PROVE TypeOK /\ RefusedOnlyWhenCut
    <3>1. /\ asked \subseteq Tools \X Args /\ usage \in [output : Nat, cost : Nat]
          /\ honest \in BOOLEAN
      BY <2>1, Zenon DEF AgentInv, AgentTypeOK
    <3> QED
      BY <2>1, <3>1, TracedIsTyped, TracedIsAccepted
  <2>2. ASSUME CoachInv PROVE CoachTypeOK /\ ValidatorsAgree
    <3>1. CoachTypeOK
      BY <2>2, Zenon DEF CoachInv
    <3> QED
      BY <2>2, <3>1, GoodAnswersAreGrounded
  <2>3. ASSUME ReviewInv PROVE EvidenceIsTaken
    BY <2>3, Zenon DEF ReviewInv, Taken, EvidenceIsTaken
  <2> QED
    BY <2>1, <2>2, <2>3, Zenon DEF LoopsInv, AppAcceptsAnswers
<1> QED
  BY <1>1, LoopsInvariant, PTL

\* For every budget: the Run Plan shows model text only if the deterministic validator
\* passed that very text, under an accepting code, for a plan that needs nobody and is of
\* the trusted scope.  (run_planner_reviewer, enhance_plan, _enhance_plan_via_runtime)
THEOREM RunPlansAreVouchedFor == RuntimeSpec => []ModelTextIsVouchedFor
<1>1. LoopsInv => ModelTextIsVouchedFor
  BY Zenon DEF LoopsInv, ReviewInv, Vouched, ModelTextIsVouchedFor
<1> QED
  BY <1>1, LoopsInvariant, PTL
=============================================================================
