--------------------------- MODULE GovernedWrite ---------------------------
(***************************************************************************)
(* What the executor promises about one Proposed Action, without requests, *)
(* transactions, leases or ledgers: an approval is spent exactly once.  It *)
(* is spent by the one ERP write, by attributing a draft that is already   *)
(* there, or by giving the Action up; and nothing else ever writes.        *)
(***************************************************************************)
CONSTANT Actions

VARIABLES
    promise,   \* what has become of each Action
    wrote      \* the Actions for which the executor created an ERP document

promiseVars == <<promise, wrote>>

PInit ==
    /\ promise = [a \in Actions |-> "PROPOSED"]
    /\ wrote = {}

Allow(a) ==
    /\ promise[a] = "PROPOSED"
    /\ promise' = [promise EXCEPT ![a] = "APPROVED"]
    /\ UNCHANGED wrote

Refuse(a) ==
    /\ promise[a] = "PROPOSED"
    /\ promise' = [promise EXCEPT ![a] = "VOID"]
    /\ UNCHANGED wrote

Write(a) ==
    /\ promise[a] = "APPROVED"
    /\ promise' = [promise EXCEPT ![a] = "WRITTEN"]
    /\ wrote' = wrote \cup {a}

Attribute(a) ==
    /\ promise[a] = "APPROVED"
    /\ promise' = [promise EXCEPT ![a] = "ATTRIBUTED"]
    /\ UNCHANGED wrote

GiveUp(a) ==
    /\ promise[a] = "APPROVED"
    /\ promise' = [promise EXCEPT ![a] = "VOID"]
    /\ UNCHANGED wrote

PNext == \E a \in Actions : Allow(a) \/ Refuse(a) \/ Write(a) \/ Attribute(a) \/ GiveUp(a)

PSpec == PInit /\ [][PNext]_promiseVars
=============================================================================
