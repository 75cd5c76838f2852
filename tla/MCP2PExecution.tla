--------------------------- MODULE MCP2PExecution ---------------------------
(* Small instances of P2PExecution. *)
EXTENDS P2PExecution, TLC

Blank == [kind |-> "PR", source |-> NoName, rows |-> [r \in Rows |-> 0], status |-> "ABSENT"]

Document(kind, source, qty, status) ==
    [kind |-> kind, source |-> source, rows |-> [r \in Rows |-> qty], status |-> status]

OneRun == [a \in Actions |-> "r1"]

OwnRuns == [a \in Actions |-> IF a = "a1" THEN "r1" ELSE "r2"]

Single == [a \in Actions |-> [r \in Rows |-> 1]]

\* Two receipts of the same submitted order, one unit of every row each.
TwoReceipts == [a \in Actions |-> "CREATE_PR_DRAFT"]

\* One row each.
OwnRow == [a \in Actions |-> [r \in Rows |-> IF (a = "a1") = (r = 1) THEN 1 ELSE 0]]

FromOrder == [a \in Actions |-> "po"]

SubmittedOrder ==
    [n \in DocNames |-> IF n = "po" THEN Document("PO", NoName, 1, "SUBMITTED") ELSE Blank]

\* The order is submitted, a receipt is drafted, the order is cancelled.
ChainTypes ==
    [a \in Actions |-> CASE a = "a1" -> "SUBMIT_PO"
                         [] a = "a2" -> "CREATE_PR_DRAFT"
                         [] OTHER -> "CANCEL_PO"]

DraftOrder ==
    [n \in DocNames |-> IF n = "po" THEN Document("PO", NoName, 1, "DRAFT") ELSE Blank]

\* People submit and cancel receipts of an order of three units while an Action
\* submits the one that is drafted, or drafts another.
DeskTypes == [a \in Actions |-> IF a = "a1" THEN "SUBMIT_PR" ELSE "CREATE_PR_DRAFT"]

DeskSources == [a \in Actions |-> IF a = "a1" THEN "n1" ELSE "po"]

DraftReceipt ==
    [n \in DocNames |-> CASE n = "po" -> Document("PO", NoName, 3, "SUBMITTED")
                          [] n = "n1" -> Document("PR", "po", 1, "DRAFT")
                          [] OTHER -> Blank]

\* A behaviour is about one of the two Actions.
OneAction == Len(proposed) <= 1

\* Requests are interchangeable.
RequestSymmetry == Permutations(Requests)
=============================================================================
