------------------------------ MODULE MCRecords ------------------------------
(***************************************************************************)
(* Model checking what the app keeps for later answers: the governed       *)
(* memories (MemoryReview), the runtime's own (RuntimeMemory) and the      *)
(* evidence of Coach answers (CoachEvidence).  They write different        *)
(* tables, so a behaviour is about one and the others stay as they are.    *)
(***************************************************************************)
EXTENDS MemoryReview, RuntimeMemory, CoachEvidence, TLC

VARIABLES scene  \* the records this behaviour is about

\* Refusals, answers that share claims in either order, and one that states a text twice
Claim(type, key) == [type |-> type, key |-> key]
Answers ==
  LET K(k) == Claim("RETRIEVED_KNOWLEDGE", k)
      R(k) == Claim("RECOMMENDATION", k)
  IN {<<>>, <<K("k1")>>, <<K("k1"), K("k2")>>, <<K("k2"), R("k1")>>, <<K("k1"), R("k1")>>}

\* A memory, corrections of it that fit or not, and a correction of a correction
Draft(version, supersedes, scope, expires) ==
  [version |-> version, supersedes |-> supersedes, scope |-> scope, expires |-> expires,
   kind |-> IF expires = 0 THEN "SEMANTIC" ELSE "EPISODIC"]
Proposed ==
  <<{Draft(1, 0, "warehouse", 2)},
    {Draft(2, 1, "warehouse", 2), Draft(2, 1, "company", 0)},
    {Draft(2, 1, "warehouse", 2), Draft(3, 2, "warehouse", 2)}>>

Symmetry == Permutations(Requests) \cup Permutations(Contents)

---------------------------------------------------------------------------
\* A review its own snapshot already refuses changes nothing, so it is not followed
Promising(r) ==
  LET q == requests[r]
      m == q.view[q.id]
  IN
  CASE q.op = "correct" -> Correctable(r)
    [] q.op = "delete" -> CanManage(m, q.actor) /\ MayMove(m, "DELETED")
    [] q.op = "approve" ->
         StillCandidate(r) /\ (m.supersedes # None => FitPredecessor(r, m.supersedes))
    [] OTHER -> StillCandidate(r)
\* One memory and its corrections
Originals == {i \in Ids : records[i] # Unused /\ records[i].supersedes = None}
\* The same of a reviewer of the store, of whom one at most does
\* something else than correcting, and at most one record comes to nothing
Hopeful(r) ==
  LET c == client[r] IN
  c.at = "read" =>
    CASE c.op = "approve" -> c.copy.state = "CANDIDATE" /\ c.copy.supersedes = 0
      [] c.op = "reject" -> c.copy.state = "CANDIDATE"
      [] c.op = "correct" -> c.copy.state = "CANDIDATE" /\ c.copy.supersedes # 0
      [] c.op = "expire" -> NotInForce(c.copy, clock) /\ MayBecome(c.copy, "EXPIRED")
      [] c.op = "delete" -> MayBecome(c.copy, "DELETED")
Discarded == {i \in DOMAIN memory : memory[i].state \in {"REJECTED", "DELETED"}}
Bounds ==
  /\ Cardinality(Originals) <= 1
  /\ \A r \in Requests : requests[r] # Idle => Promising(r)
  /\ \A r \in Reviewers : Hopeful(r)
  /\ Cardinality({r \in Reviewers : client[r].op \in {"approve", "reject", "expire", "delete"}}) <= 1
  /\ Cardinality(Discarded) <= 1
  /\ memory[1] = Absent => \A i \in DOMAIN memory : memory[i] = Absent

---------------------------------------------------------------------------
ReviewNext == scene = "memory" /\ Next /\ UNCHANGED <<scene, evidence, store>>
AnswerNext == scene = "coach" /\ CoachNext /\ UNCHANGED <<scene, vars, store>>
StoreNext == scene = "store" /\ MemoryStep /\ UNCHANGED <<scene, vars, evidence>>

RecordsInit ==
  /\ scene \in {"memory", "coach", "store"}
  /\ Init /\ CoachInit /\ MemoryInit
  /\ scene # "coach" => coachRun = "none"
RecordsSpec == RecordsInit /\ [][ReviewNext \/ AnswerNext \/ StoreNext]_<<scene, vars, evidence, store>>

=============================================================================
