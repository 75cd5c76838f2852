---------------------------- MODULE ScopeAnalysis ----------------------------
(***************************************************************************)
(* What an analysis computes (agent/analysis.py, agent/plan.py, the closeout*)
(* of agent/service.py, and the Gateway tools it reads the ERP with).      *)
(*                                                                         *)
(* The closeout pages through the open Material Requests and Purchase      *)
(* Orders by offset, then through the stock of each item, in one           *)
(* transaction: every page comes from the snapshot of its first read,      *)
(* while people go on ordering, receiving, issuing and disabling.  The     *)
(* Run's row is RunLifecycle's subject.                                    *)
(*                                                                         *)
(* Quantities are whole numbers, which the Float columns of the analysis   *)
(* hold exactly.  A date is "due" up to the horizon, "later", or "none".   *)
(* Items, warehouses and documents are numbers, ordered as their names     *)
(* are.                                                                    *)
(***************************************************************************)
EXTENDS Integers, Sequences, FiniteSets, Functions, SequencesExt

CONSTANTS
  Ledgers,       \* what the ERP may hold at the start
  Scopes,        \* warehouse scopes of the Run, 0 for the whole company
  Goals,         \* the items the goal of a Run names
  PageSize,      \* _TOOL_PAGE_SIZE
  MaxOffset,     \* the largest offset a tool accepts
  MaxDocuments,  \* MAX_OPEN_DOCUMENTS
  MaxLines,      \* MAX_DEMAND_LINES
  MaxCurrentLines,  \* MAX_CURRENT_LINES
  MaxItems,      \* MAX_ANALYSIS_ITEMS
  MaxChanges     \* bound: what people change in one behaviour

\* Open documents and what is enabled, as many as the ERP holds.  A line's qty, ordered,
\* received and factor are not negative; stock may be.
Dues == {"due", "later", "none"}
Demand ==
  [open: BOOLEAN, due: Dues, lines: Seq([item: Nat, warehouse: Nat, qty: Nat, ordered: Nat])]
Supply ==
  [open: BOOLEAN, due: Dues, supplier: Nat,
   lines: Seq([item: Nat, warehouse: Nat, qty: Nat, received: Nat, factor: Nat])]
Numbered(S) == IsFiniteSet(S) /\ S \subseteq Nat
IsLedger(l) ==
  /\ DOMAIN l = {"mr", "po", "bins", "items", "suppliers", "warehouses"}
  /\ Numbered(DOMAIN l.mr) /\ l.mr \in [DOMAIN l.mr -> Demand]
  /\ Numbered(DOMAIN l.po) /\ l.po \in [DOMAIN l.po -> Supply]
  /\ DOMAIN l.bins \subseteq Nat \X Nat /\ l.bins \in [DOMAIN l.bins -> Int]
  /\ l.items \subseteq Nat /\ l.suppliers \subseteq Nat /\ Numbered(l.warehouses)

ASSUME ScopeAssumption ==
  /\ \A l \in Ledgers : IsLedger(l)
  /\ Scopes \subseteq Nat
  /\ PageSize \in Nat \ {0} /\ {MaxOffset, MaxDocuments, MaxLines, MaxCurrentLines, MaxItems, MaxChanges} \subseteq Nat

VARIABLES
  erp,      \* [mr, po, bins, items, suppliers, warehouses]: documents, stock, what is enabled
  snap,     \* the ERP as the transaction of the closeout sees it
  scope,    \* [warehouse, goal] of the Run
  job,      \* the closeout: the tool it pages through, the rows so far, the items left
  results,  \* the Synora Item Analysis rows
  findings, \* those of the Run Plan, in order
  changes   \* changes so far

numbers == <<erp, snap, scope, job, results, findings, changes>>

NoJob == [at |-> "idle", offset |-> 0, mr |-> <<>>, po |-> <<>>, stock |-> <<>>, todo |-> <<>>]

CloseoutInit ==
  /\ erp \in Ledgers /\ snap = erp
  /\ scope \in [warehouse: Scopes, goal: Goals]
  /\ job = NoJob /\ results = {} /\ findings = <<>> /\ changes = 0

---------------------------------------------------------------------------
(***************************************************************************)
(* The tools.  A line is <<document, number>>; its document is open and its*)
(* warehouse is in the scope of the Run.                                   *)
(***************************************************************************)
InScope(w) == scope.warehouse \in {0, w}
\* _warehouse_names
Warehouses == IF scope.warehouse = 0 THEN snap.warehouses ELSE {scope.warehouse}
Open(docs) == {d \in DOMAIN docs : docs[d].open}
Lines(docs) ==
  UNION {{<<d, n>> : n \in {k \in DOMAIN docs[d].lines : InScope(docs[d].lines[k].warehouse)}} : d \in Open(docs)}
Line(docs, l) == docs[l[1]].lines[l[2]]
\* _enabled_item_codes, _ensure_enabled_item
Enabled(item) == item \in snap.items
Key(docs, l) == <<l[1], Line(docs, l).item, Line(docs, l).warehouse>>

Before(a, b) == \E k \in DOMAIN a : a[k] < b[k] /\ \A j \in 1..(k - 1) : a[j] = b[j]
Smaller(a, b) == a < b
\* sorted(): the members of S one after the other, each after those that precede it.  The
\* order is the set of its pairs, so that Ranked is about sets and can be reasoned about.
Ranked(S, order) ==
  [k \in 1..Cardinality(S) |-> CHOOSE x \in S : Cardinality({y \in S : <<y, x>> \in order}) = k - 1]
Sorted(S, Precedes(_, _)) == Ranked(S, {p \in S \X S : Precedes(p[1], p[2])})
\* The sum of f over S
Total(f, S) == FoldFunctionOnSet(+, 0, f, S)
\* One row for each key of the lines in qty, in the order of the keys
Grouped(docs, qty) ==
  LET keys == Sorted({Key(docs, l) : l \in DOMAIN qty}, Before) IN
  [k \in DOMAIN keys |->
     [item |-> keys[k][2], warehouse |-> keys[k][3], due |-> docs[keys[k][1]].due,
      qty |-> Total(qty, {l \in DOMAIN qty : Key(docs, l) = keys[k]})]]

\* open_material_requests: what is not ordered yet of enabled items
Wanted(line) == line.qty - line.ordered
DemandLines == {l \in Lines(snap.mr) : Wanted(Line(snap.mr, l)) > 0 /\ Enabled(Line(snap.mr, l).item)}
Demanded == [l \in DemandLines |-> Wanted(Line(snap.mr, l))]
OpenMaterialRequests == Grouped(snap.mr, Demanded)
\* open_purchase_orders: what is not received yet, nothing if too much was
Outstanding(line) ==
  LET rest == (line.qty - line.received) * line.factor IN IF rest < 0 THEN 0 ELSE rest
SupplyLines ==
  {l \in Lines(snap.po) : Enabled(Line(snap.po, l).item) /\ snap.po[l[1]].supplier \in snap.suppliers}
Awaited == [l \in SupplyLines |-> Outstanding(Line(snap.po, l))]
OpenPurchaseOrders == Grouped(snap.po, Awaited)
\* projected_stock of an item: its bins, in the order of warehouses
ProjectedStock(item) ==
  LET bins == Sorted({w \in Warehouses : <<item, w>> \in DOMAIN snap.bins}, Smaller) IN
  [k \in DOMAIN bins |-> [qty |-> snap.bins[<<item, bins[k]>>]]]
\* open_demand, of the same lines for an agent: one quantity for each item and warehouse
OpenDemand(item, warehouse) ==
  Total([l \in DemandLines |-> IF Line(snap.mr, l).warehouse \in Warehouses THEN Demanded[l] ELSE 0],
    {l \in DemandLines : Line(snap.mr, l).item = item /\ Line(snap.mr, l).warehouse = warehouse})

\* The lines of one document an agent asks for by name: those in scope, whatever is open
\* or enabled.
Shown(docs, d) == {n \in DOMAIN docs[d].lines : InScope(docs[d].lines[n].warehouse)}
\* current_material_request and current_purchase_order: each line, and what is open of it
CurrentMaterialRequest(d) ==
  [n \in Shown(snap.mr, d) |->
     LET line == snap.mr[d].lines[n]
     IN [item |-> line.item, open |-> IF Wanted(line) < 0 THEN 0 ELSE Wanted(line)]]
CurrentPurchaseOrder(d) ==
  [n \in Shown(snap.po, d) |->
     LET line == snap.po[d].lines[n]
         rest == line.qty * line.factor - line.received * line.factor
     IN [item |-> line.item, open |-> IF rest < 0 THEN 0 ELSE rest]]
\* RESULT_LIMIT, and ERP_ERROR for a line without a factor: the whole document is refused.
\* One without a line in the warehouse of the Run is NOT_FOUND, which says as much as no lines.
RequestRefused(d) == Cardinality(Shown(snap.mr, d)) > MaxCurrentLines
OrderRefused(d) ==
  \/ Cardinality(Shown(snap.po, d)) > MaxCurrentLines
  \/ \E n \in Shown(snap.po, d) : snap.po[d].lines[n].factor = 0

\* RESULT_LIMIT, before anything is left out
TooLarge(docs) == Cardinality(Open(docs)) > MaxDocuments \/ Cardinality(Lines(docs)) > MaxLines
\* parse_tool_input, the handlers and their limits
Refused ==
  \/ job.offset > MaxOffset
  \/ job.at = "mr" /\ TooLarge(snap.mr)
  \/ job.at = "po" /\ TooLarge(snap.po)
  \/ job.at = "stock" /\ ~Enabled(Head(job.todo))
\* get_tool_spec: what the tool called would list
Source ==
  CASE job.at = "mr" -> OpenMaterialRequests
    [] job.at = "po" -> OpenPurchaseOrders
    [] job.at = "stock" -> ProjectedStock(Head(job.todo))
\* dispatch: a page, and whether there is more behind it
HasMore == Len(Source) > job.offset + PageSize
Page == SubSeq(Source, job.offset + 1, IF HasMore THEN job.offset + PageSize ELSE Len(Source))

---------------------------------------------------------------------------
(***************************************************************************)
(* analyze_item.  The closeout always has the two quantities it may miss,  *)
(* and quantities of open lines are not negative.                          *)
(***************************************************************************)
\* The quantity of the rows at some places of a list
Quantity(rows, places) == Total([k \in DOMAIN rows |-> rows[k].qty], places)
Judged(item, actual, demand, incoming, requested) ==
  LET net == actual + incoming - demand
      risk == IF actual < 0 THEN "UNKNOWN"
              ELSE IF demand = 0 /\ incoming = 0 THEN "NO_DEMAND"
              ELSE IF net < 0 THEN "SHORTAGE"
              ELSE IF requested > 0 \/ incoming > 0 THEN "DUPLICATE_RISK"
              ELSE "ADEQUATE"
  IN [item |-> item, risk |-> risk, shortage |-> IF risk = "SHORTAGE" THEN -net ELSE 0]
\* _analyze_item: a row without a date makes the window undecidable
AnalyzeItem(item, stock, mrRows, poRows) ==
  LET Of(rows) == {k \in DOMAIN rows : rows[k].item = item}
      Within(rows) == Quantity(rows, {k \in Of(rows) : rows[k].due = "due"})
      analysis == Judged(item, Quantity(stock, DOMAIN stock), Within(mrRows), Within(poRows),
                         Quantity(mrRows, Of(mrRows)))
      undated == \E r \in ToSet(mrRows) \cup ToSet(poRows) : r.item = item /\ r.due = "none"
  IN IF undated THEN [analysis EXCEPT !.risk = "NEEDS_INPUT"] ELSE analysis

---------------------------------------------------------------------------
(***************************************************************************)
(* The closeout, page by page.                                             *)
(***************************************************************************)
\* The next item, or PROPOSED
NextItem(j) == [j EXCEPT !.at = IF j.todo = <<>> THEN "proposed" ELSE "stock", !.stock = <<>>]
Failed == job' = [NoJob EXCEPT !.at = "failed"] /\ results' = {}

\* analyze_run, again after a failure
Begin ==
  /\ job.at \in {"idle", "failed"}
  /\ snap' = erp
  /\ job' = [NoJob EXCEPT !.at = "mr"]
  /\ UNCHANGED <<erp, scope, results, findings, changes>>

\* Mutant: the offset of the next page counts the row that was only peeked at
PeekedOffset == job.offset + PageSize + 1
NextOffset == job.offset + PageSize

\* _collect_rows: one more page of the list
FetchPage ==
  /\ job.at \in {"mr", "po", "stock"} /\ ~Refused /\ HasMore
  /\ job' = [job EXCEPT ![job.at] = @ \o Page, !.offset = NextOffset]
  /\ UNCHANGED <<erp, snap, scope, results, findings, changes>>
\* The last page of a list, and what follows it
LastPage ==
  /\ job.at \in {"mr", "po"} /\ ~Refused /\ ~HasMore
  /\ LET got == [job EXCEPT ![job.at] = @ \o Page, !.offset = 0]
         items == {r.item : r \in ToSet(got.mr)}
     IN CASE job.at = "mr" -> job' = [got EXCEPT !.at = "po"] /\ UNCHANGED results
          [] job.at = "po" /\ Cardinality(items) > MaxItems -> Failed
          [] OTHER -> job' = NextItem([got EXCEPT !.todo = Sorted(items, Smaller)]) /\ UNCHANGED results
  /\ UNCHANGED <<erp, snap, scope, findings, changes>>
\* The last page of the stock of an item: it is analysed and its row inserted
LastStockPage ==
  /\ job.at = "stock" /\ ~Refused /\ ~HasMore
  /\ results' = results \cup {AnalyzeItem(Head(job.todo), job.stock \o Page, job.mr, job.po)}
  /\ job' = NextItem([job EXCEPT !.offset = 0, !.todo = Tail(@)])
  /\ UNCHANGED <<erp, snap, scope, findings, changes>>
\* A tool refuses, or fails for reasons of its own: the rows are deleted again
ToolFails ==
  /\ job.at \in {"mr", "po", "stock"}
  /\ Failed
  /\ UNCHANGED <<erp, snap, scope, findings, changes>>

\* build_plan, from the rows of the Run, in a later transaction: shortages first
PlanFirst(a, b) ==
  IF (a.risk = "SHORTAGE") = (b.risk = "SHORTAGE") THEN a.item < b.item ELSE a.risk = "SHORTAGE"
Finding(row) == [item |-> row.item, risk |-> row.risk, shortage |-> row.shortage, matched |-> row.item \in scope.goal]
BuildPlan ==
  /\ job.at = "proposed"
  /\ LET rows == Sorted(results, PlanFirst) IN findings' = [k \in DOMAIN rows |-> Finding(rows[k])]
  /\ job' = [job EXCEPT !.at = "planned"]
  /\ UNCHANGED <<erp, snap, scope, results, changes>>

---------------------------------------------------------------------------
(***************************************************************************)
(* People.                                                                 *)
(***************************************************************************)
Changed(new) ==
  /\ changes < MaxChanges /\ changes' = changes + 1
  /\ erp' = new
  /\ UNCHANGED <<snap, scope, job, results, findings>>
Order ==
  \E d \in Open(erp.mr) : \E n \in DOMAIN erp.mr[d].lines :
    Changed([erp EXCEPT !.mr[d].lines[n].ordered = @ + 1])
Stop == \E d \in Open(erp.mr) : Changed([erp EXCEPT !.mr[d].open = FALSE])
ReceiveGoods ==
  \E d \in Open(erp.po) : \E n \in DOMAIN erp.po[d].lines :
    LET line == erp.po[d].lines[n]
        bin == <<line.item, line.warehouse>>
        held(b) == IF b \in DOMAIN erp.bins THEN erp.bins[b] ELSE 0
    IN Changed([erp EXCEPT !.po[d].lines[n].received = @ + 1,
                 !.bins = [b \in DOMAIN @ \cup {bin} |-> held(b) + IF b = bin THEN line.factor ELSE 0]])
IssueStock == \E b \in DOMAIN erp.bins : Changed([erp EXCEPT !.bins[b] = @ - 1])
Disable ==
  \/ \E i \in erp.items : Changed([erp EXCEPT !.items = @ \ {i}])
  \/ \E s \in erp.suppliers : Changed([erp EXCEPT !.suppliers = @ \ {s}])

CloseoutNext ==
  \/ Begin \/ FetchPage \/ LastPage \/ LastStockPage \/ ToolFails \/ BuildPlan
  \/ Order \/ Stop \/ ReceiveGoods \/ IssueStock \/ Disable
CloseoutSpec == CloseoutInit /\ [][CloseoutNext]_numbers

---------------------------------------------------------------------------
(***************************************************************************)
(* Reference: the same from the documents, line by line.                   *)
(***************************************************************************)
DueOf(docs, lines, item) == {l \in lines : Line(docs, l).item = item /\ docs[l[1]].due = "due"}
InStock(item) == Total(snap.bins, {b \in DOMAIN snap.bins : b[1] = item /\ b[2] \in Warehouses})
Asked == {Line(snap.mr, l).item : l \in DemandLines}
Undated(item) ==
  \/ \E l \in DemandLines : Line(snap.mr, l).item = item /\ snap.mr[l[1]].due = "none"
  \/ \E l \in SupplyLines : Line(snap.po, l).item = item /\ snap.po[l[1]].due = "none"
Missing(item) ==
  Total(Demanded, DueOf(snap.mr, DemandLines, item)) - Total(Awaited, DueOf(snap.po, SupplyLines, item))
    - InStock(item)

\* What an analysis of the closeout says is true of the ERP as it was at one moment: there is
\* one row for each item with open demand, it is a SHORTAGE exactly when the demand within the
\* window exceeds stock and expected receipts, by that much, and nothing is concluded from a
\* negative stock or a document without a date; whatever is changed between two pages, and
\* wherever a page ends.  (_collect_rows, analyze_item)
AnalysisIsExact ==
  job.at \in {"proposed", "planned"} =>
    /\ {r.item : r \in results} = Asked /\ Cardinality(results) = Cardinality(Asked)
    /\ \A r \in results :
         /\ r.risk = "NEEDS_INPUT" <=> Undated(r.item)
         /\ r.risk = "UNKNOWN" <=> ~Undated(r.item) /\ InStock(r.item) < 0
         /\ r.risk = "SHORTAGE" <=> ~Undated(r.item) /\ InStock(r.item) >= 0 /\ Missing(r.item) > 0
         /\ r.risk = "SHORTAGE" => r.shortage = Missing(r.item)

\* A plan names every analysed item once, the short ones before all others.  (build_plan)
PlanLeadsWithShortages ==
  job.at = "planned" =>
    /\ Len(findings) = Cardinality(results)
    /\ \A r \in results : \E k \in DOMAIN findings : findings[k].item = r.item /\ findings[k].risk = r.risk
    /\ \A j, k \in DOMAIN findings : j < k /\ findings[k].risk = "SHORTAGE" => findings[j].risk = "SHORTAGE"

\* What an agent is told of open demand is what the closeout counts, for every item and every
\* warehouse that is enabled.  (open_demand, open_material_requests)
DemandToolsAgree ==
  job.at = "po" =>
    \A i \in Asked, w \in Warehouses :
      OpenDemand(i, w) =
        Quantity(job.mr, {k \in DOMAIN job.mr : job.mr[k].item = i /\ job.mr[k].warehouse = w})

\* Reading the open documents one by one gives an agent the totals the closeout collected in
\* pages, unless one of them is refused, although the one clamps every line and multiplies
\* first, and the other drops lines, groups them and multiplies last.
\* (current_..., open_..., _collect_rows)
OpenOf(lines, item) ==
  Total([n \in DOMAIN lines |-> lines[n].open], {n \in DOMAIN lines : lines[n].item = item})
RowsOf(rows, item) == Quantity(rows, {k \in DOMAIN rows : rows[k].item = item})
DocumentToolsAgree ==
  job.at = "proposed" =>
    \A i \in snap.items :
      LET requested == [d \in Open(snap.mr) |-> OpenOf(CurrentMaterialRequest(d), i)]
          ordered == [d \in Open(snap.po) |-> OpenOf(CurrentPurchaseOrder(d), i)]
          awaited == {d \in Open(snap.po) : snap.po[d].supplier \in snap.suppliers}
      IN /\ (\E d \in Open(snap.mr) : RequestRefused(d)) \/ Total(requested, Open(snap.mr)) = RowsOf(job.mr, i)
         /\ (\E d \in awaited : OrderRefused(d)) \/ Total(ordered, awaited) = RowsOf(job.po, i)

\* The rows of an analysis say what was true of the ERP at one moment, the plan built from
\* them names every shortage first, and every tool tells an agent the same.
RowsAreTrue ==
  /\ AnalysisIsExact /\ PlanLeadsWithShortages
  /\ DemandToolsAgree /\ DocumentToolsAgree
==============================================================================
