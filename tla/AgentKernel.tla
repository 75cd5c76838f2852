---------------------------- MODULE AgentKernel ----------------------------
(***************************************************************************)
(* One Agent execution: the runtime's bounded tool-calling loop            *)
(* (run_native_tool_calling), the budget account and the guards it asks,   *)
(* the trace it records, and the Frappe side that waits for the answer,    *)
(* validates the trace with a state machine of its own and stores one      *)
(* Synora Agent Trace Attempt.                                             *)
(*                                                                         *)
(* The code between two awaits is one step: Prepare runs to the provider   *)
(* call, an answer runs to the gateway call or to the stop.  The provider  *)
(* and the Gateway are external: they answer, fail, or never answer.       *)
(* Wall time is the flag late; it may be raised inside a step, where the   *)
(* code reads the clock a second time.                                     *)
(***************************************************************************)
EXTENDS Integers, Sequences, SequencesExt, FiniteSetsExt, Functions

CONSTANTS
  Tools,                \* the allowlisted read tools
  Args,                 \* canonical arguments of a call
  Contents,             \* what a read can return, told apart by its size; a
                        \* digest is <<tool, content>>
  MaxSteps,             \* BudgetLimits.max_steps
  MaxCallsPerTool,      \* BudgetLimits.max_calls_per_tool
  NoProgressThreshold,  \* BudgetLimits.no_progress_threshold
  MaxOutput,            \* BudgetLimits.max_output_tokens, per call
  MaxTotalOutput,       \* BudgetLimits.max_total_output_tokens
  MaxCost,              \* BudgetLimits.max_cost_microusd
  ContextBudget         \* the configured input budget, in estimated units

ASSUME KernelAssumption ==
  /\ {MaxSteps, MaxCallsPerTool, NoProgressThreshold, MaxOutput, ContextBudget}
       \subseteq Nat \ {0}
  /\ {MaxTotalOutput, MaxCost} \subseteq Nat /\ Contents \subseteq Nat

VARIABLES
  kernel,   \* [pc, step, code]: where the loop is and why it stopped
  trace,    \* the recorded events, as the validator will read them
  call,     \* the tool call in flight, <<tool, args>>, or NoCall
  asked,    \* RepeatedCallGuard: the calls seen
  counts,   \* ToolFrequencyGuard: calls per tool
  found,    \* the digests of the successful observations, in order
  stale,    \* NoProgressGuard: observations in a row without a new digest
  reads,    \* the calls the Gateway was asked for, with how often (history)
  usage,    \* BudgetAccount.usage: [output, cost]
  late,     \* the wall-clock budget has run out
  link,     \* Frappe's HTTP request: "open", or "dropped"
  attempt,  \* the stored trace attempt: [code, output, status], or NoAttempt
  honest    \* every answer so far kept to the caps the request named (history)

vars == <<kernel, trace, call, asked, counts, found, stale, reads, usage, late,
          link, attempt, honest>>
loop == <<call, asked, counts, found, stale, reads, usage, honest>>

NoCall == <<>>
NoAttempt == [code |-> "", output |-> 0, status |-> ""]

Digests == Tools \X Contents

(***************************************************************************)
(* Trace events.  data holds the digest of an observation or the           *)
(* references of a final answer; marks what else the validator looks at:   *)
(* "actual" and "over" of a context event that carries the provider's      *)
(* prompt usage, "altered" a summary the recorder's redaction changed after its    *)
(* digest was taken; "number" an answer with a number no cited observation *)
(* holds.                                                                  *)
(***************************************************************************)
Event(kind, tool, data, marks) ==
  [kind |-> kind, step |-> kernel.step, tool |-> tool, data |-> data, marks |-> marks]
Plain(kind) == Event(kind, "", {}, {})
If(mark, holds) == IF holds THEN {mark} ELSE {}

FallbackCodes ==
  {"MODEL_ERROR", "REPEATED_CALL", "NO_PROGRESS", "TOKEN_BUDGET", "COST_BUDGET",
   "CONTEXT_INVALID", "CONTEXT_BUDGET", "WALL_TIME_BUDGET", "MAX_STEPS",
   "TOOL_FREQUENCY", "TOOL_NOT_ALLOWED", "INVALID_TOOL_ARGS",
   "UNSUPPORTED_FINAL_ANSWER"}
StopCodes == FallbackCodes \cup {"FINAL_ANSWER", "TOOL_ERROR", "CANCELLED"}

---------------------------------------------------------------------------
(***************************************************************************)
(* Budgets.  A token costs half a unit, so the ceilings of the code show.  *)
(***************************************************************************)
CostOf(tokens) == (tokens + 1) \div 2

\* ContextBuilder.build: the first of the four renderings that fits.  Every
\* rendering holds the profile and the goal (one unit); they differ in how
\* much they keep of the older observations and of the latest one.
RenderingsOf(observations) ==
  LET n == Len(observations)
      latest == IF n = 0 THEN 0 ELSE Last(observations)[2]
      older == IF n = 0 THEN 0 ELSE n - 1
      total == FoldLeft(LAMBDA sum, d : sum + d[2], 0, observations)
  IN << 1 + 2 * total,                  \* full
        1 + older + 2 * latest,         \* older ones as structured notes
        1 + older + latest,             \* bounded excerpts
        1 + older + latest \div 2 >>    \* summary
Renderings == RenderingsOf(found)
Fitting == {i \in 1..4 : Renderings[i] \in 0..ContextBudget}
Rendering == Min(Fitting)
Units == Renderings[Rendering]

\* BudgetAccount.preflight, its mutants and BudgetAccount.record
ReservedInput(units) == CostOf(units)
Reserved(units) == CostOf(units) + CostOf(MaxOutput)
Preflight(units) ==
  CASE late -> "WALL_TIME_BUDGET"
    [] ~late /\ usage.output + MaxOutput > MaxTotalOutput -> "TOKEN_BUDGET"
    [] ~late /\ usage.output + MaxOutput <= MaxTotalOutput
             /\ usage.cost + Reserved(units) > MaxCost -> "COST_BUDGET"
    [] OTHER -> ""
Charged(prompt, output) ==
  [output |-> usage.output + output, cost |-> usage.cost + CostOf(prompt + output)]
Overrun(prompt, output) ==
  LET after == Charged(prompt, output) IN
  CASE output > MaxOutput \/ after.output > MaxTotalOutput -> "TOKEN_BUDGET"
    [] output <= MaxOutput /\ after.output <= MaxTotalOutput
                           /\ after.cost > MaxCost -> "COST_BUDGET"
    [] OTHER -> IF late THEN "WALL_TIME_BUDGET" ELSE ""

\* record_provider_prompt_tokens, and the event that reports its number
OverContext(prompt) == prompt > ContextBudget
Assembled(prompt) ==
  Event("context.assembled", "", {}, {"actual"} \cup If("over", OverContext(prompt)))
\* The typed stop a provider's usage leads to; the context budget goes first.
UsageStop(prompt, output) ==
  IF OverContext(prompt) THEN "CONTEXT_BUDGET" ELSE Overrun(prompt, output)

---------------------------------------------------------------------------
(***************************************************************************)
(* The guards.                                                             *)
(***************************************************************************)
Repeated(c) == c \in asked
TooFrequent(c) == counts[c[1]] + 1 > MaxCallsPerTool
AtLastStep == kernel.step = MaxSteps
StaleAfter(d) == IF d \in Range(found) THEN stale + 1 ELSE 0

---------------------------------------------------------------------------
(***************************************************************************)
(* The trace, as Frappe reads it.  _validate_trace_semantics is a fold     *)
(* over the events between run.started and run.stopped, and nothing else   *)
(* reads them, so trace is the value of that fold over the events recorded *)
(* so far: it is applied as the events are added and consulted at the end. *)
(* over, altered and claim are facts it needs the stop code to judge, or   *)
(* that decide a refusal.                                                  *)
(***************************************************************************)
Fresh == [ok |-> TRUE, pending |-> <<>>, context |-> {}, models |-> {},
          last |-> <<>>, observed |-> {}, proposal |-> {}, claim |-> FALSE,
          validated |-> FALSE, over |-> FALSE, altered |-> FALSE]

\* The pending action, tool or answer and what may follow it
Follows(v, e, stage) == v.pending = <<stage, e.tool, e.step>>
Pending(v, ok, pending) == [v EXCEPT !.ok = @ /\ ok, !.pending = pending]
ReadEvent(v, e) ==
  CASE e.kind \in {"skill.loaded", "guard.checked"} -> v
    [] e.kind = "context.assembled" ->
         [v EXCEPT !.ok = /\ @
                          /\ e.step \in v.context =>
                               e.step \in v.models /\ "actual" \in e.marks,
                   !.over = @ \/ "over" \in e.marks,
                   !.context = @ \cup {e.step}, !.last = <<e.kind, e.step>>]
    [] e.kind = "context.compressed" ->
         [v EXCEPT !.ok = @ /\ v.last = <<"context.assembled", e.step>>,
                   !.last = <<e.kind, e.step>>]
    [] e.kind = "model.requested" ->
         [v EXCEPT !.ok = @ /\ e.step \in v.context,
                   !.models = @ \cup {e.step}, !.last = <<>>]
    [] e.kind = "action.proposed" ->
         Pending(v, v.pending = <<>>, <<"action", e.tool, e.step>>)
    [] e.kind = "action.validated" ->
         Pending(v, Follows(v, e, "action"), <<"validated", e.tool, e.step>>)
    [] e.kind \in {"action.rejected", "final.rejected"} -> Pending(v, TRUE, <<>>)
    [] e.kind = "tool.started" ->
         Pending(v, Follows(v, e, "validated"), <<"tool", e.tool, e.step>>)
    [] e.kind = "tool.observed" ->
         [Pending(v, Follows(v, e, "tool"), <<>>)
            EXCEPT !.observed = @ \cup e.data,
                   !.altered = @ \/ "altered" \in e.marks]
    [] e.kind = "tool.failed" -> Pending(v, Follows(v, e, "tool"), <<>>)
    [] e.kind = "final.proposed" ->
         [Pending(v, v.pending = <<>>, <<"final">>)
            EXCEPT !.proposal = e.data, !.claim = "number" \in e.marks]
    [] e.kind = "final.validated" ->
         [Pending(v, v.pending = <<"final">>, <<>>) EXCEPT !.validated = TRUE]
    [] OTHER -> [v EXCEPT !.ok = FALSE]

\* TraceRecorder.add: the trace v with one more event
Add(v, e) == ReadEvent(v, e)

TraceAccepted(code) ==
  /\ trace.ok /\ trace.pending = <<>> /\ ~trace.altered
  /\ trace.over => code = "CONTEXT_BUDGET"
  /\ code = "FINAL_ANSWER" =>
       /\ trace.validated /\ ~trace.claim
       /\ trace.proposal # {} /\ trace.proposal \subseteq trace.observed

---------------------------------------------------------------------------
(***************************************************************************)
(* The loop.                                                               *)
(***************************************************************************)
Init ==
  /\ kernel = [pc |-> "idle", step |-> 0, code |-> ""]
  /\ trace = Fresh /\ call = NoCall /\ asked = {} /\ found = <<>>
  /\ counts = [t \in Tools |-> 0] /\ stale = 0
  /\ reads = [c \in Tools \X Args |-> 0]
  /\ usage = [output |-> 0, cost |-> 0]
  /\ late = FALSE /\ link = "open" /\ attempt = NoAttempt /\ honest = TRUE

\* _stop: the trace that led here, and the stop itself
Stop(record, code) ==
  /\ trace' = record
  /\ kernel' = [kernel EXCEPT !.pc = "stopped", !.code = code]
Refuse(record, code) == Stop(Add(record, Plain("guard.checked")), code)
Continue(record, pc) ==
  /\ trace' = record
  /\ kernel' = [kernel EXCEPT !.pc = pc]

\* execute_agent: prices and provider first, then the loop
Begin ==
  /\ kernel.pc = "idle" /\ link = "open"
  /\ \/ \E code \in {"COST_BUDGET", "MODEL_ERROR"} :
          kernel' = [pc |-> "stopped", step |-> 0, code |-> code]
     \/ kernel' = [kernel EXCEPT !.pc = "top", !.step = 1]
  /\ UNCHANGED <<trace, loop, late, link, attempt>>

\* Skills, context, budget preflight, and the request to the provider
Prepare ==
  LET skills == Add(trace, Plain("skill.loaded"))
      full == Add(skills, Plain("context.assembled"))
      context == IF Rendering = 1 THEN full ELSE Add(full, Plain("context.compressed"))
  IN
  /\ kernel.pc = "top"
  /\ \/ Refuse(trace, "CONTEXT_INVALID") /\ UNCHANGED late  \* registry or profile
     \/ /\ Fitting = {}
        /\ Refuse(skills, "CONTEXT_BUDGET")
        /\ UNCHANGED late
     \/ /\ Fitting # {}
        /\ Preflight(Units) # ""
        /\ Refuse(context, Preflight(Units))
        /\ UNCHANGED late
     \/ /\ Fitting # {} /\ Preflight(Units) = ""
        /\ \/ Stop(context, "WALL_TIME_BUDGET") /\ late' = TRUE
           \/ /\ Continue(Add(context, Plain("model.requested")), "model")
              /\ UNCHANGED late
  /\ UNCHANGED <<loop, link, attempt>>

Charge(prompt, output) ==
  /\ usage' = Charged(prompt, output)
  /\ honest' = (honest /\ output <= MaxOutput /\ prompt <= Units)

\* The trace once the provider's usage is in
Reported(prompt) == Add(trace, Assembled(prompt))

\* A ProviderError: its usage is recorded before the typed stop
ModelFails(prompt, output, budgetCode) ==
  LET stop == IF OverContext(prompt) \/ budgetCode = "" THEN UsageStop(prompt, output)
              ELSE budgetCode
  IN
  /\ kernel.pc = "model"
  /\ Charge(prompt, output)
  /\ IF stop = "" THEN Stop(Reported(prompt), "MODEL_ERROR")
     ELSE Refuse(Reported(prompt), stop)
  /\ UNCHANGED <<call, asked, counts, found, stale, reads, late, link, attempt>>

\* Any other exception of the provider call
ModelBreaks ==
  /\ kernel.pc = "model"
  /\ Stop(trace, "MODEL_ERROR")
  /\ UNCHANGED <<loop, late, link, attempt>>

\* wait_for around the provider call
ModelTimesOut ==
  /\ kernel.pc = "model" /\ late
  /\ Stop(trace, "WALL_TIME_BUDGET")
  /\ UNCHANGED <<loop, late, link, attempt>>

\* A response, its usage first: over a budget, the loop stops
Overspends(prompt, output) ==
  /\ kernel.pc = "model"
  /\ UsageStop(prompt, output) # ""
  /\ Charge(prompt, output)
  /\ Refuse(Reported(prompt), UsageStop(prompt, output))
  /\ UNCHANGED <<call, asked, counts, found, stale, reads, late, link, attempt>>

Answered(prompt, output) ==
  /\ kernel.pc = "model"
  /\ UsageStop(prompt, output) = ""
  /\ Charge(prompt, output)

\* ... that calls several tools, an unknown one, or with arguments that do not parse
RejectsCall(prompt, output, code) ==
  /\ Answered(prompt, output)
  /\ Stop(Add(Reported(prompt), Plain("action.rejected")), code)
  /\ UNCHANGED <<call, asked, counts, found, stale, reads, late, link, attempt>>

\* ... that is no JSON answer
RejectsText(prompt, output) ==
  /\ Answered(prompt, output)
  /\ Stop(Add(Reported(prompt), Plain("final.rejected")), "UNSUPPORTED_FINAL_ANSWER")
  /\ UNCHANGED <<call, asked, counts, found, stale, reads, late, link, attempt>>

\* ... that is a final answer: it must cite observations, and only numbers in them
Supported(refs) == refs # {} /\ refs \subseteq Range(found)
Concludes(prompt, output, refs, wrongNumber) ==
  LET proposed == Add(Reported(prompt), Event("final.proposed", "", refs, If("number", wrongNumber)))
  IN
  /\ Answered(prompt, output)
  /\ IF Supported(refs) /\ ~wrongNumber
     THEN Stop(Add(proposed, Plain("final.validated")), "FINAL_ANSWER")
     ELSE Stop(Add(proposed, Plain("final.rejected")), "UNSUPPORTED_FINAL_ANSWER")
  /\ UNCHANGED <<call, asked, counts, found, stale, reads, late, link, attempt>>

\* ... that is one well-formed call of an allowed tool
CallsTool(prompt, output, c) ==
  LET proposed == Add(Reported(prompt), Event("action.proposed", c[1], {}, {}))
      validated == Add(proposed, Event("action.validated", c[1], {}, {}))
      guarded == Add(Add(validated, Plain("guard.checked")), Plain("guard.checked"))
      started == Add(guarded, Event("tool.started", c[1], {}, {}))
  IN
  /\ Answered(prompt, output)
  /\ asked' = asked \cup {c}
  /\ counts' = IF Repeated(c) THEN counts ELSE [counts EXCEPT ![c[1]] = @ + 1]
  /\ \/ /\ Repeated(c)
        /\ Refuse(validated, "REPEATED_CALL")
        /\ UNCHANGED <<call, reads, late>>
     \/ /\ ~Repeated(c) /\ TooFrequent(c)
        /\ Refuse(validated, "TOOL_FREQUENCY")
        /\ UNCHANGED <<call, reads, late>>
     \/ /\ ~Repeated(c) /\ ~TooFrequent(c)
        /\ \/ Stop(started, "WALL_TIME_BUDGET") /\ late' = TRUE /\ UNCHANGED <<call, reads>>
           \/ /\ Continue(started, "tool")
              /\ call' = c
              /\ reads' = [reads EXCEPT ![c] = @ + 1]
              /\ UNCHANGED late
  /\ UNCHANGED <<found, stale, link, attempt>>

\* The Gateway answered.  redacted: the recorder's redaction altered the summary.
ToolAnswers(content, redacted) ==
  LET d == <<call[1], content>>
      observed == Add(Add(trace, Event("tool.observed", call[1], {d}, If("altered", redacted))),
                      Plain("guard.checked"))
  IN
  /\ kernel.pc = "tool"
  /\ found' = Append(found, d)
  /\ stale' = StaleAfter(d)
  /\ call' = NoCall
  /\ IF stale' >= NoProgressThreshold THEN Stop(observed, "NO_PROGRESS")
     ELSE IF late THEN Stop(observed, "WALL_TIME_BUDGET")
     ELSE IF AtLastStep THEN Stop(observed, "MAX_STEPS")
     ELSE /\ trace' = observed
          /\ kernel' = [kernel EXCEPT !.pc = "top", !.step = @ + 1]
  /\ UNCHANGED <<asked, counts, reads, usage, honest, late, link, attempt>>

ToolFailed == Add(trace, Event("tool.failed", call[1], {}, {}))
\* A rejection, a gateway timeout, or any other failure of the adapter
ToolFails ==
  /\ kernel.pc = "tool"
  /\ Stop(ToolFailed, "TOOL_ERROR")
  /\ call' = NoCall
  /\ UNCHANGED <<asked, counts, found, stale, reads, usage, honest, late, link, attempt>>

ToolNeverTimesOut ==
  /\ FALSE
  /\ UNCHANGED vars
\* wait_for around the gateway call
ToolTimesOut ==
  /\ kernel.pc = "tool" /\ late
  /\ Stop(ToolFailed, "WALL_TIME_BUDGET")
  /\ call' = NoCall
  /\ UNCHANGED <<asked, counts, found, stale, reads, usage, honest, late, link, attempt>>

\* The disconnect guard cancels the task while a call is awaited
Cancelled ==
  /\ kernel.pc \in {"model", "tool"} /\ link = "dropped"
  /\ Stop(trace, "CANCELLED")
  /\ call' = NoCall
  /\ UNCHANGED <<asked, counts, found, stale, reads, usage, honest, late, link, attempt>>

Expire ==
  /\ ~late /\ kernel.pc # "stopped"
  /\ late' = TRUE
  /\ UNCHANGED <<kernel, trace, loop, link, attempt>>

---------------------------------------------------------------------------
(***************************************************************************)
(* Frappe.                                                                 *)
(***************************************************************************)
StatusOf(code) ==
  CASE code = "FINAL_ANSWER" -> "SUCCEEDED"
    [] code \in FallbackCodes -> "FALLBACK"
    [] OTHER -> "FAILED"
Stored(code, output) ==
  [code |-> code, output |-> output, status |-> StatusOf(code)]
\* _runtime_failure_response
Synthetic == Stored("MODEL_ERROR", 0)

\* The response arrives and is validated; a trace that is refused is replaced
Receive ==
  /\ kernel.pc = "stopped" /\ link = "open" /\ attempt = NoAttempt
  /\ attempt' = IF TraceAccepted(kernel.code)
                THEN Stored(kernel.code, usage.output) ELSE Synthetic
  /\ UNCHANGED <<kernel, trace, loop, late, link>>

\* Frappe times out, or the connection breaks
HangUp ==
  /\ link = "open" /\ attempt = NoAttempt
  /\ link' = "dropped"
  /\ attempt' = Synthetic
  /\ kernel' = IF kernel.pc = "idle" THEN [kernel EXCEPT !.pc = "stopped"] ELSE kernel
  /\ UNCHANGED <<trace, loop, late>>

---------------------------------------------------------------------------
\* Usage a provider may report: nothing, what was reserved, and more
PromptUsage == {0, Units, ContextBudget + 1}
OutputUsage == {0, MaxOutput, MaxOutput + 1}
References == {{}} \cup {{d} : d \in Digests}

ModelStep ==
  /\ kernel.pc = "model"
  /\ \E p \in PromptUsage, o \in OutputUsage :
       \/ \E b \in {"", "TOKEN_BUDGET"} : ModelFails(p, o, b)
       \/ Overspends(p, o)
       \/ \E code \in {"MODEL_ERROR", "TOOL_NOT_ALLOWED", "INVALID_TOOL_ARGS"} :
            RejectsCall(p, o, code)
       \/ RejectsText(p, o)
       \/ \E refs \in References, wrong \in BOOLEAN : Concludes(p, o, refs, wrong)
       \/ \E c \in Tools \X Args : CallsTool(p, o, c)
ToolStep ==
  \/ \E content \in Contents, redacted \in BOOLEAN : ToolAnswers(content, redacted)
  \/ ToolFails
TimeOut == ModelTimesOut \/ ToolTimesOut

Finished ==
  /\ kernel.pc = "stopped" /\ attempt # NoAttempt
  /\ UNCHANGED vars

Next == \/ Begin \/ Prepare \/ ModelStep \/ ModelBreaks \/ ToolStep \/ TimeOut
        \/ Cancelled \/ Expire \/ Receive \/ HangUp \/ Finished

Spec == Init /\ [][Next]_vars
(***************************************************************************)
(* Fairness: the event loop runs the task, the clock advances, the timeout *)
(* of wait_for fires and Frappe reads the response it waits for.  Neither  *)
(* the provider nor the Gateway is assumed to answer.                      *)
(***************************************************************************)
FairSpec ==
  /\ Spec
  /\ WF_vars(Begin) /\ WF_vars(Prepare) /\ WF_vars(Expire) /\ WF_vars(TimeOut)
  /\ WF_vars(Receive)

---------------------------------------------------------------------------
(***************************************************************************)
(* Properties.                                                             *)
(***************************************************************************)
\* Types of the loop's state and of the stored attempt.
TypeOK ==
  /\ kernel.pc \in {"idle", "top", "model", "tool", "stopped"}
  /\ kernel.step \in 0..MaxSteps /\ kernel.code \in StopCodes \cup {""}
  /\ trace.context \cup trace.models \subseteq 1..MaxSteps
  /\ trace.observed \cup trace.proposal \subseteq Digests
  /\ {trace.ok, trace.validated, trace.over, trace.altered} \subseteq BOOLEAN
  /\ call \in (Tools \X Args) \cup {NoCall}
  /\ asked \subseteq Tools \X Args /\ counts \in [Tools -> 0..MaxSteps]
  /\ found \in Seq(Digests) /\ stale \in 0..MaxSteps
  /\ usage.output \in Nat /\ usage.cost \in Nat
  /\ late \in BOOLEAN /\ link \in {"open", "dropped"} /\ honest \in BOOLEAN

(***************************************************************************)
(* The trace the runtime records and the state machine Frappe reads it     *)
(* with agree: of every way the loop can stop, Frappe refuses only a trace *)
(* that was cut inside an action it had announced (a guard's stop, the     *)
(* wall clock, a cancellation) or whose observation redaction changed      *)
(* (native_tool_calling.py against _validate_trace_semantics).             *)
(***************************************************************************)
CutInsideAction ==
  /\ kernel.code \in {"REPEATED_CALL", "TOOL_FREQUENCY", "WALL_TIME_BUDGET", "CANCELLED"}
  /\ trace.pending # <<>>
RefusedOnlyWhenCut ==
  kernel.pc = "stopped" /\ ~TraceAccepted(kernel.code)
    => CutInsideAction \/ trace.altered

(***************************************************************************)
(* The preflight reserves enough: as long as the provider keeps to the     *)
(* caps the request named, neither the cost nor the total output of the    *)
(* run ever passes its limit (BudgetAccount.preflight and record).         *)
(***************************************************************************)
NeverOverspends ==
  honest => usage.cost <= MaxCost /\ usage.output <= MaxTotalOutput

(***************************************************************************)
(* The Gateway is read at most once for each call and at most              *)
(* MaxCallsPerTool times for each tool, whatever the model asks            *)
(* (RepeatedCallGuard, ToolFrequencyGuard).                                *)
(***************************************************************************)
CallsMade(t) == {c \in Tools \X Args : c[1] = t /\ reads[c] > 0}
ReadsBounded ==
  /\ \A c \in Tools \X Args : reads[c] <= 1
  /\ \A t \in Tools : Cardinality(CallsMade(t)) <= MaxCallsPerTool

(***************************************************************************)
(* An execution always ends and leaves exactly one stored attempt, even    *)
(* when neither the provider nor the Gateway ever answers: every await of  *)
(* the loop is under the wall-clock budget.                                *)
(***************************************************************************)
AlwaysEnds == <>[](kernel.pc = "stopped" /\ attempt # NoAttempt)
===========================================================================
