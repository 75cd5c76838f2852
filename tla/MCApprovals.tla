---------------------------- MODULE MCApprovals ----------------------------
(***************************************************************************)
(* Model checking the pages against the server.  A behaviour is about one  *)
(* of five scenes: one action decided and executed on a page, a Run with   *)
(* its buttons, two actions that other clients send requests about while   *)
(* the facts the gates look up are lost, dialogs that ask about a          *)
(* document, or the form for a new Run.                                    *)
(***************************************************************************)
EXTENDS Pages, TLC

VARIABLE scene

\* A draft its initiator confirms and a submission another person approves
DraftAndSubmission == [d |-> "CREATE_PO_DRAFT", p |-> "SUBMIT_PO"]
\* A client may use the key of the one for the other
OwnKeys == [d |-> "k", p |-> "l"]

\* A Run whose actions are decided, one to analyze, one whose goal is to be confirmed
Waiting == [NoRow EXCEPT !.state = "AWAITING_APPROVAL"]
Fresh == [NoRow EXCEPT !.state = "CREATED"]
Chained == [NoRow EXCEPT !.state = "EXECUTING", !.p2p = TRUE, !.goal = "MISSING"]

\* Two companies, an order of each, and a request of one
Saved == [m1 |-> [type |-> "MR", company |-> "east"], o1 |-> [type |-> "PO", company |-> "east"],
          o2 |-> [type |-> "PO", company |-> "west"]]
Readable == [east |-> {"w1"}, west |-> {"w2"}]

\* Requests are interchangeable
CallSymmetry == Permutations(Calls)

---------------------------------------------------------------------------
NothingProposed == [a \in Actions |-> "absent"]
ServerInit ==
  \/ /\ scene = "actions" /\ PageInit(Waiting)
     /\ \E a \in Actions, stage \in Stages \ {"absent"} : GovernanceInit([NothingProposed EXCEPT ![a] = stage])
  \/ /\ scene = "run" /\ GovernanceInit(NothingProposed)
     /\ \E row \in {Fresh, Chained} : PageInit(row)
     /\ seat = Initiator
  \/ /\ scene = "clients" /\ PageInit(Waiting) /\ seat = Initiator
     /\ \E stage \in Stages \ {"uncertain"} : GovernanceInit([a \in Actions |-> stage])
  \/ /\ scene \in {"dialogs", "form"} /\ PageInit(Fresh) /\ seat = Initiator
     /\ GovernanceInit(NothingProposed)
DeskInit == ServerInit /\ Ask!AskingInit("o1")

OnPage == scene \in {"actions", "run"} /\ PageNext
OtherClient ==
  /\ scene = "clients" /\ clicks < MaxClicks
  /\ \E c \in Calls : Client(c)
  /\ clicks' = clicks + 1 /\ UNCHANGED <<seat, run, views>>
Server ==
  /\ \/ \E c \in Calls : ServeWrites(c)
     \/ \E a \in Actions : Settle(a)
  /\ UNCHANGED page
FactLost ==
  /\ scene = "clients"
  /\ \E fact \in AllFacts : Lose(fact)
  /\ UNCHANGED page
Served == (OnPage \/ OtherClient \/ Server \/ FactLost) /\ UNCHANGED asking
Asked ==
  /\ \/ scene = "dialogs" /\ Ask!DialogStep
     \/ scene = "form" /\ Ask!FormStep
  /\ UNCHANGED <<governance, page>>
DeskNext == (Served \/ Asked) /\ UNCHANGED scene
DeskSpec == DeskInit /\ [][DeskNext]_<<governance, page, asking, scene>>

=============================================================================
