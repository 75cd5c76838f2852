--------------------------- MODULE MCRunLifecycle ---------------------------
(***************************************************************************)
(* Model checking the analysis of a Run: the Run's row and the requests    *)
(* that move it (RunLifecycle), and what an analysis reads and concludes   *)
(* (ScopeAnalysis).  The one is about when rows are written, the other     *)
(* about what is in them; a behaviour follows one of them.                 *)
(***************************************************************************)
EXTENDS RunLifecycle, ScopeAnalysis, TLC

VARIABLE scene  \* the half this behaviour is about

\* Requests are interchangeable, and so are Gateway calls.
Symmetry == Permutations(Requests) \cup Permutations(Calls)

-----------------------------------------------------------------------------
(* Requests for two items in two warehouses, one of them disabled, in as many
   rows as there are pages, in one more, or for one item more than may be
   analysed; an order of each supplier; stock, none, or less than none. *)
Wants(item, warehouse, qty) == [item |-> item, warehouse |-> warehouse, qty |-> qty, ordered |-> 0]
Request(due, lines) == [open |-> TRUE, due |-> due, lines |-> lines]
Expects(supplier, due, qty) ==
    [open |-> TRUE, due |-> due, supplier |-> supplier,
     lines |-> <<[item |-> 1, warehouse |-> 1, qty |-> qty, received |-> 1, factor |-> 2]>>]
RequestLists ==
    {<<Request(d, <<Wants(1, 1, 2), Wants(1, 1, 1), Wants(2, 2, 1)>>), Request(e, <<Wants(1, 1, 3)>>)>> :
        d \in Dues, e \in {"due", "later"}}
    \cup {<<Request("due", <<Wants(1, 1, 1), Wants(2, 2, 1)>>), Request("due", <<Wants(1, 1, 1), Wants(2, 1, 1)>>)>>,
          <<Request("due", <<Wants(1, 1, 1), Wants(2, 1, 1), Wants(3, 1, 1)>>)>>}
OrderLists == {<<>>} \cup {<<Expects(1, d, 2), Expects(2, "due", 1)>> : d \in Dues}
NothingOpen ==
    [mr |-> <<>>, po |-> <<>>, bins |-> <<>>, items |-> {}, suppliers |-> {}, warehouses |-> {}]
MCLedgers ==
    {NothingOpen} \cup
    {[mr |-> mr, po |-> po, bins |-> (<<1, 1>> :> stock @@ <<1, 2>> :> 3),
      items |-> {1, 2, 3}, suppliers |-> {1, 2}, warehouses |-> {1}] :
        mr \in RequestLists, po \in OrderLists, stock \in {-1, 0, 2}}

-----------------------------------------------------------------------------
AnalysisInit ==
    /\ scene \in {"run", "numbers"}
    /\ Init /\ CloseoutInit
    /\ scene = "run" => erp = NothingOpen /\ scope.warehouse = 0
    /\ scene = "numbers" => mode = "DETERMINISTIC"
RunNext == scene = "run" /\ Next /\ UNCHANGED <<scene, numbers>>
NumbersNext == scene = "numbers" /\ CloseoutNext /\ UNCHANGED <<scene, vars>>
AnalysisSpec == AnalysisInit /\ [][RunNext \/ NumbersNext]_<<scene, vars, numbers>>

=============================================================================
