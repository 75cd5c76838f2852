---------------------------- MODULE MemoryReview ----------------------------
(***************************************************************************)
(* Governed memory: candidates, corrections, reviews, tombstones and       *)
(* recall (memory/service.py and the Synora Memory Record controller).     *)
(*                                                                         *)
(* Each request is one database transaction under REPEATABLE READ.  Its    *)
(* first read (the actor's User row) fixes the snapshot; SELECT ... FOR    *)
(* UPDATE then waits for the row locks, taken in lexical order, but the    *)
(* rows are read again from the snapshot, so the checks see what was true  *)
(* before the wait.  What keeps them honest is Document.save, which        *)
(* compares the timestamp it read with the current one.  From the lock to  *)
(* the commit no other writer of those rows runs: that part is one step.   *)
(* Expiry is judged by the clock, not by the snapshot.                     *)
(***************************************************************************)
EXTENDS Integers, FiniteSets

CONSTANTS
  Ids,       \* names of memory records, in the order they are created
  Owners,    \* initiators; each has one Run
  Managers,  \* System Managers
  Contents,  \* what a memory says
  Requests   \* concurrent HTTP requests

Empty == "none"  \* a text that is not set

ASSUME MemoryAssumption ==
  /\ Ids \subseteq Nat \ {0} /\ IsFiniteSet(Ids)
  /\ Owners \cap Managers = {}
  /\ Empty \notin Contents  \* _required_text

VARIABLES
  records,   \* the table: Ids -> record, or Unused
  lapsed,    \* records whose expires_at has passed
  openRuns,  \* owners whose Run is ACTIVE and not revoked
  requests   \* the transactions: [op, actor, id, view]

vars == <<records, lapsed, openRuns, requests>>

None == 0
Unused == [state |-> Empty, kind |-> Empty, initiator |-> Empty, content |-> Empty,
           digest |-> Empty, supersedes |-> None, memoryVersion |-> 0, version |-> 0, ttl |-> FALSE,
           reviewer |-> Empty, decision |-> Empty]
Idle == [op |-> Empty, actor |-> Empty, id |-> None, view |-> <<>>]
Kinds == {"EPISODIC", "SEMANTIC"}
Users == Owners \cup Managers

\* LIFECYCLE_TRANSITIONS of the controller
Transitions ==
  [s \in {"PENDING", "APPROVED", "REJECTED", "SUPERSEDED", "DELETED"} |->
     CASE s = "PENDING" -> {"APPROVED", "REJECTED", "DELETED"}
       [] s = "APPROVED" -> {"SUPERSEDED", "DELETED"}
       [] s \in {"REJECTED", "SUPERSEDED"} -> {"DELETED"}
       [] OTHER -> {}]

---------------------------------------------------------------------------
(***************************************************************************)
(* Who may do what.  Scope permissions on company and warehouse are given. *)
(***************************************************************************)
CanReview(m, actor) ==
  IF m.kind = "EPISODIC" THEN m.initiator = actor ELSE actor \in Managers
CanRead(m, actor) == m.kind = "EPISODIC" => m.initiator = actor
CanManage(m, actor) == CanRead(m, actor) /\ CanReview(m, actor)
RunScope(owner, actor) == owner \in openRuns /\ (actor = owner \/ actor \in Managers)

\* is_expired, for a record that has an expiry
Expired(i) == i \in lapsed

\* compute_dedupe_key: the identity of a candidate
DedupeKey(m) == <<m.kind, m.initiator, m.digest, m.supersedes>>
Known(table, m) == \E i \in Ids : table[i] # Unused /\ DedupeKey(table[i]) = DedupeKey(m)

\* The pending corrections of a record, and the ones still alive
Corrections(table, i) == {c \in Ids : table[c] # Unused /\ table[c].supersedes = i}
HasPendingCorrection(table, i) ==
  \E c \in Corrections(table, i) : table[c].state = "PENDING" /\ ~Expired(c)

\* list_visible_memories for an actor
Visible(actor) ==
  {i \in Ids : /\ records[i].state = "APPROVED"
               /\ records[i].supersedes = None
               /\ ~HasPendingCorrection(records, i)
               /\ ~Expired(i)
               /\ CanRead(records[i], actor)}
\* get_review_candidate and list_review_queue
Reviewable(actor) ==
  {i \in Ids : records[i].state = "PENDING" /\ ~Expired(i) /\ CanReview(records[i], actor)}

---------------------------------------------------------------------------
Init ==
  /\ records = [i \in Ids |-> Unused]
  /\ lapsed = {} /\ openRuns = Owners
  /\ requests = [r \in Requests |-> Idle]

\* The rows a request locks: its own and, for a review, the predecessor's
Rows(op, id) ==
  {id} \cup (IF op \in {"approve", "reject"} THEN {records[id].supersedes} \ {None} ELSE {})
\* The first read of a request fixes its snapshot
Begin(r, op, actor, id) ==
  /\ requests[r] = Idle
  /\ requests' = [requests EXCEPT ![r] =
       [op |-> op, actor |-> actor, id |-> id,
        view |-> [i \in Rows(op, id) |-> records[i]]]]
  /\ UNCHANGED <<records, lapsed, openRuns>>

Ready(r, op) == requests[r].op = op
End(r) ==
  /\ requests' = [requests EXCEPT ![r] = Idle]
  /\ UNCHANGED <<lapsed, openRuns>>

\* A refusal (MEMORY_NOT_AVAILABLE, CONFLICT) or a transaction that is rolled back
Abandon(r) ==
  /\ requests[r] # Idle
  /\ End(r)
  /\ UNCHANGED records

\* Document.save: the row must be the one that was read (check_if_latest)
Unchecked(r, i) == TRUE
Latest(r, i) == requests[r].view[i] = records[i]
Moved(m, state) == [m EXCEPT !.state = state, !.version = @ + 1]
MayMove(m, state) == state \in Transitions[m.state]

---------------------------------------------------------------------------
(***************************************************************************)
(* Candidates and corrections.                                             *)
(***************************************************************************)
Candidate(kind, owner, content, ttl) ==
  [Unused EXCEPT !.state = "PENDING", !.kind = kind, !.initiator = owner,
     !.content = content, !.digest = content, !.memoryVersion = 1, !.version = 1, !.ttl = ttl]
\* _insert_candidate: the unique key decides between two requests
Insert(i, m) ==
  /\ records[i] = Unused /\ \A j \in Ids : j < i => records[j] # Unused
  /\ ~Known(records, m)
  /\ records' = [records EXCEPT ![i] = m]

\* create_memory_candidate takes no lock: reading and inserting is one step
Create(actor, owner, kind, content, ttl, i) ==
  /\ RunScope(owner, actor)
  /\ kind = "EPISODIC" => ttl
  /\ Insert(i, Candidate(kind, owner, content, ttl))
  /\ UNCHANGED <<lapsed, openRuns, requests>>

\* create_memory_correction
Correctable(r) ==
  LET p == requests[r].view[requests[r].id] IN
  /\ CanManage(p, requests[r].actor)
  /\ p.state = "APPROVED" /\ p.supersedes = None
  /\ ~Expired(requests[r].id)
  /\ RunScope(p.initiator, requests[r].actor)
Correct(r, content, ttl, i) ==
  LET p == requests[r].view[requests[r].id] IN
  /\ Ready(r, "correct") /\ Correctable(r)
  /\ p.kind = "EPISODIC" => ttl
  /\ Insert(i, [Candidate(p.kind, p.initiator, content, ttl)
                  EXCEPT !.supersedes = requests[r].id,
                         !.memoryVersion = p.memoryVersion + 1])
  /\ End(r)

---------------------------------------------------------------------------
(***************************************************************************)
(* review_candidate.                                                       *)
(***************************************************************************)
Decided(m, decision, actor) ==
  [Moved(m, decision) EXCEPT !.reviewer = actor, !.decision = decision]
StillCandidate(r) ==
  LET c == requests[r].view[requests[r].id] IN
  /\ CanReview(c, requests[r].actor)
  /\ c.state = "PENDING" /\ ~Expired(requests[r].id)

Reject(r) ==
  LET i == requests[r].id
      c == requests[r].view[i]
  IN
  /\ Ready(r, "reject") /\ StillCandidate(r)
  /\ Latest(r, i)
  /\ records' = [records EXCEPT ![i] = Decided(c, "REJECTED", requests[r].actor)]
  /\ End(r)

\* The predecessor as the reviewer's snapshot has it
LivePredecessor(r, p) == requests[r].view[p].state # "DELETED"
FitPredecessor(r, p) ==
  LET c == requests[r].view[requests[r].id]
      old == requests[r].view[p]
  IN
  /\ old.state = "APPROVED" /\ old.supersedes = None /\ ~Expired(p)
  /\ old.kind = c.kind /\ old.initiator = c.initiator
  /\ c.memoryVersion = old.memoryVersion + 1

\* Approve and, for a correction, supersede its predecessor: both saves or none
Approve(r) ==
  LET i == requests[r].id
      c == requests[r].view[i]
      p == c.supersedes
      approved == [records EXCEPT ![i] = Decided(c, "APPROVED", requests[r].actor)]
  IN
  /\ Ready(r, "approve") /\ StillCandidate(r)
  /\ Latest(r, i)
  /\ IF p = None THEN records' = approved
     ELSE /\ FitPredecessor(r, p)
          /\ Latest(r, p)
          /\ records' = [approved EXCEPT ![p] = Moved(requests[r].view[p], "SUPERSEDED")]
  /\ End(r)

\* delete_memory: a tombstone keeps identity and audit, not the body
Delete(r) ==
  LET i == requests[r].id
      m == requests[r].view[i]
  IN
  /\ Ready(r, "delete")
  /\ CanManage(m, requests[r].actor) /\ MayMove(m, "DELETED")
  /\ Latest(r, i)
  /\ records' = [records EXCEPT ![i] = [Moved(m, "DELETED") EXCEPT !.content = Empty]]
  /\ End(r)

---------------------------------------------------------------------------
Lapse(i) ==
  /\ records[i] # Unused /\ records[i].ttl /\ i \notin lapsed
  /\ lapsed' = lapsed \cup {i}
  /\ UNCHANGED <<records, openRuns, requests>>
CloseRun(owner) ==
  /\ owner \in openRuns
  /\ openRuns' = openRuns \ {owner}
  /\ UNCHANGED <<records, lapsed, requests>>

Next ==
  \/ \E actor \in Users, owner \in Owners, kind \in Kinds, content \in Contents,
        ttl \in BOOLEAN, i \in Ids : Create(actor, owner, kind, content, ttl, i)
  \/ \E r \in Requests :
       \/ \E op \in {"correct", "approve", "reject", "delete"}, actor \in Users,
             i \in {j \in Ids : records[j] # Unused} : Begin(r, op, actor, i)
       \/ Reject(r) \/ Approve(r) \/ Delete(r) \/ Abandon(r)
       \/ \E content \in Contents, ttl \in BOOLEAN, i \in Ids : Correct(r, content, ttl, i)
  \/ \E i \in Ids : Lapse(i)
  \/ \E owner \in Owners : CloseRun(owner)

Spec == Init /\ [][Next]_vars

---------------------------------------------------------------------------
(***************************************************************************)
(* Properties.                                                             *)
(***************************************************************************)
\* Types, and that a stored state is one the controller knows.
TypeOK ==
  /\ \A i \in Ids : records[i] # Unused =>
       /\ records[i].state \in DOMAIN Transitions
       /\ records[i].kind \in Kinds /\ records[i].initiator \in Owners
       /\ records[i].content \in Contents \cup {Empty}
       /\ records[i].supersedes \in Ids \cup {None}
       /\ records[i].version \in 1..4 /\ records[i].memoryVersion \in 1..2
  /\ lapsed \subseteq Ids /\ openRuns \subseteq Owners

(***************************************************************************)
(* A correction and the record it replaces change together: a record was   *)
(* superseded exactly when one of its corrections was approved, and never  *)
(* two, whatever reviewers and deletions race (review_candidate,           *)
(* _save_review_transition).                                               *)
(***************************************************************************)
ApprovedCorrections(i) ==
  {c \in Corrections(records, i) : records[c].decision = "APPROVED"}
OneSuccessor ==
  \A i \in Ids :
    /\ Cardinality(ApprovedCorrections(i)) <= 1
    /\ records[i].state = "SUPERSEDED" => ApprovedCorrections(i) # {}
    /\ ApprovedCorrections(i) # {} => records[i].state \in {"SUPERSEDED", "DELETED"}

(***************************************************************************)
(* Recall is settled: whatever an actor recalls was approved by someone    *)
(* who may review it, has not been corrected since, and no correction of   *)
(* it waits for a reviewer (list_visible_memories, list_review_queue).     *)
(***************************************************************************)
RecallIsSettled ==
  \A actor \in Users : \A i \in Visible(actor) :
    /\ CanReview(records[i], records[i].reviewer) /\ records[i].content # Empty
    /\ ApprovedCorrections(i) = {}
    /\ \A reviewer \in Users : Corrections(records, i) \cap Reviewable(reviewer) = {}

(***************************************************************************)
(* A decision stands: no later request, of a reviewer who read the record  *)
(* before it, changes the decision or its reviewer, and a tombstone stays  *)
(* one (the row is read from a snapshot, so only the timestamp check of    *)
(* save stands in the way).                                                *)
(***************************************************************************)
Stands(m, n) ==
  /\ m.decision # Empty => n.decision = m.decision /\ n.reviewer = m.reviewer
  /\ m.state = "DELETED" => n = m
DecisionStands == [][\A i \in Ids : Stands(records[i], records'[i])]_vars

(***************************************************************************)
(* One memory exists once: two requests that propose the same content for  *)
(* the same scope and predecessor leave one record, tombstones included    *)
(* (_insert_candidate, the unique dedupe_key).                             *)
(***************************************************************************)
NoDuplicateMemory ==
  \A i, j \in Ids :
    i # j /\ records[i] # Unused /\ records[j] # Unused
    => DedupeKey(records[i]) # DedupeKey(records[j])

\* A correction and the record it replaces change together, no memory exists twice, and
\* what is recalled was reviewed and is not about to be replaced (memory/service.py).
MemorySucceeds == TypeOK /\ OneSuccessor /\ NoDuplicateMemory /\ RecallIsSettled
===========================================================================
