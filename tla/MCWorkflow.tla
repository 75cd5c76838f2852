----------------------------- MODULE MCWorkflow -----------------------------
(***************************************************************************)
(* Model checking the two halves of a durable workflow: the runtime        *)
(* service that keeps checkpoints (WorkflowRuntime) and the app's planner  *)
(* of a procure-to-pay Run, which mirrors its steps in a checkpoint        *)
(* (P2PPlanning).  The planner uses the engine of the service; what can    *)
(* happen inside the service between two of its calls is followed on its   *)
(* own, so a behaviour is about one of them.                               *)
(***************************************************************************)
EXTENDS WorkflowRuntime, P2PPlanning, TLC

VARIABLE scene  \* the half this behaviour is about

\* Planner requests are interchangeable, and so are handlers.
Symmetry == Permutations(Requests) \cup Permutations(Workers)

Busy == Cardinality({q \in Requests : req[q].pc # "idle"})
Setbacks == Cardinality({k \in DOMAIN actions : actions[k].state \in {"POLICY_REJECTED",
                           "DECLINED", "EXPIRED"}})

\* Planner requests overlap while the chain is short; longer chains are
\* planned by one request at a time.  One Action of a chain comes to nothing,
\* and the goal changes or the desk books a receipt, not both.
DeskReceipts == Cardinality({i \in DOMAIN docs : docs[i].kind = "PR" /\ ~ docs[i].governed})
Bounds ==
    /\ Len(actions) > 1 => Busy <= 1
    /\ Setbacks <= 1
    /\ run.goal + DeskReceipts <= 2

----------------------------------------------------------------------------
ServiceNext == scene = "service" /\ Next /\ UNCHANGED <<scene, planVars>>
PlannerNext == scene = "planner" /\ PlanNext /\ UNCHANGED <<scene, vars>>

\* The half that does not move starts in one state
WorkflowInit ==
    /\ scene \in {"planner", "service"}
    /\ Init /\ PlanInit
    /\ scene = "service" => run.target = Ordered
WorkflowSpec == WorkflowInit /\ [][PlannerNext \/ ServiceNext]_<<scene, vars, planVars>>
=============================================================================
