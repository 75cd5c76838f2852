--------------------------- MODULE RecordsProofs ---------------------------
(***************************************************************************)
(* Proofs about the records kept for later answers, whose readers act on   *)
(* what they read a while ago: the governed memories (MemoryReview), for   *)
(* any number of records, reviewers and requests; the runtime's memory     *)
(* store (RuntimeMemory), for any number of records, reviewers and         *)
(* proposals; the evidence of Coach results (CoachEvidence), for any       *)
(* number of requests and any answers.                                     *)
(***************************************************************************)
EXTENDS MemoryReview, RuntimeMemory, CoachEvidence, FiniteSetTheorems, SequenceTheorems, TLAPS

----------------------------------------------------------------------------
(* Governed memory.  What makes its invariants inductive is what a single  *)
(* row remembers of its own history (WellFormed): how far its lifecycle    *)
(* went fixes its version and its decision, and a decision names somebody  *)
(* who may review the row.  Snapshots need little: a review or a tombstone *)
(* saves only rows that are still the ones it read, so only a correction,  *)
(* which takes what it copies from its snapshot, relies on the snapshot    *)
(* having been a row.                                                      *)

\* What a stored row says of its own history
Row == [state : DOMAIN Transitions, kind : Kinds, initiator : Owners,
        content : Contents \cup {Empty}, digest : Contents,
        supersedes : Ids \cup {None}, memoryVersion : 1..2, version : 1..4,
        ttl : BOOLEAN, reviewer : Users \cup {Empty},
        decision : {Empty, "APPROVED", "REJECTED"}]
WellFormed(m) ==
  /\ m \in Row
  /\ m.memoryVersion = (IF m.supersedes = None THEN 1 ELSE 2)
  /\ m.state = "PENDING" => m.decision = Empty /\ m.version = 1
  /\ m.state = "APPROVED" => m.decision = "APPROVED" /\ m.version = 2
  /\ m.state = "REJECTED" => m.decision = "REJECTED" /\ m.version = 2
  /\ m.state = "SUPERSEDED" => m.decision = "APPROVED" /\ m.version = 3
  /\ m.state # "DELETED" => m.content # Empty
  /\ m.decision # Empty => CanReview(m, m.reviewer)

RowsWellFormed ==
  /\ records = [i \in Ids |-> records[i]]
  /\ \A i \in Ids : records[i] = Unused \/ WellFormed(records[i])
\* A request that is under way read a stored row
SnapshotsWellFormed ==
  /\ requests = [r \in Requests |-> requests[r]]
  /\ \A r \in Requests : requests[r] # Idle =>
       /\ requests[r].id \in Ids /\ requests[r].actor \in Users
       /\ WellFormed(requests[r].view[requests[r].id])
TimesAndRuns == lapsed \subseteq Ids /\ openRuns \subseteq Owners
\* A record is superseded by the approval of a correction, and by one only
Succeeds(c, i) ==
  records[c] # Unused /\ records[c].supersedes = i /\ records[c].decision = "APPROVED"
Superseded ==
  /\ \A i, c \in Ids : Succeeds(c, i) => records[i].state \in {"SUPERSEDED", "DELETED"}
  /\ \A i, c, d \in Ids : Succeeds(c, i) /\ Succeeds(d, i) => c = d
  /\ \A i \in Ids : records[i].state = "SUPERSEDED" => \E c \in Ids : Succeeds(c, i)
MemoryInv == RowsWellFormed /\ SnapshotsWellFormed /\ TimesAndRuns /\ Superseded /\ NoDuplicateMemory

---------------------------------------------------------------------------
(***************************************************************************)
(* What each kind of save makes of a row.                                  *)
(***************************************************************************)
\* A save keeps what identifies a memory
KeptIdentity(m, n) ==
  n.kind = m.kind /\ n.initiator = m.initiator /\ n.digest = m.digest /\ n.supersedes = m.supersedes

MemoryStates == {"PENDING", "APPROVED", "REJECTED", "SUPERSEDED", "DELETED"}
LEMMA StatesKnown ==
  /\ DOMAIN Transitions = MemoryStates
  /\ Transitions["DELETED"] = {}
BY DEF Transitions, MemoryStates

LEMMA StoredIsNotUnused ==
  ASSUME NEW m, WellFormed(m)
  PROVE  m # Unused
<1>1. m.state # Empty
  BY StatesKnown DEF Row, WellFormed, MemoryStates, Empty
<1>2. Unused.state = Empty
  BY DEF Unused
<1> QED
  BY <1>1, <1>2

\* A candidate of the create and correct services is a row.
LEMMA CandidateIsWellFormed ==
  ASSUME NEW kind \in Kinds, NEW owner \in Owners, NEW content \in Contents, NEW ttl \in BOOLEAN
  PROVE  /\ WellFormed(Candidate(kind, owner, content, ttl))
         /\ Candidate(kind, owner, content, ttl).state = "PENDING"
         /\ Candidate(kind, owner, content, ttl).decision = Empty
<1> PICK m : m = Candidate(kind, owner, content, ttl)
  OBVIOUS
<1>1. m = [state |-> "PENDING", kind |-> kind, initiator |-> owner, content |-> content,
           digest |-> content, supersedes |-> None, memoryVersion |-> 1, version |-> 1,
           ttl |-> ttl, reviewer |-> Empty, decision |-> Empty]
  BY DEF Candidate, Unused
<1>2. content # Empty /\ "PENDING" \in DOMAIN Transitions
  BY MemoryAssumption, StatesKnown DEF MemoryStates
<1>3. WellFormed(m)
  BY <1>1, <1>2 DEF Row, WellFormed
<1> QED
  BY <1>1, <1>3

LEMMA CorrectionIsWellFormed ==
  ASSUME NEW t, WellFormed(t), t.state = "PENDING", NEW id \in Ids,
         NEW m, m = [t EXCEPT !.supersedes = id, !.memoryVersion = 2]
  PROVE  WellFormed(m) /\ m.state = "PENDING" /\ m.decision = Empty
<1>1. id # None
  BY MemoryAssumption DEF None
<1>0. t \in Row /\ id \in Ids \cup {None} /\ 2 \in 1..2
  BY DEF WellFormed
<1>2. m \in Row
  BY <1>0 DEF Row
<1>3. /\ m.supersedes = id /\ m.memoryVersion = 2 /\ m.state = "PENDING"
      /\ m.decision = t.decision /\ m.version = t.version /\ m.content = t.content
  BY DEF WellFormed, Row
<1>4. t.decision = Empty /\ t.version = 1 /\ t.content # Empty
  BY DEF WellFormed
<1> QED
  BY <1>1, <1>2, <1>3, <1>4 DEF WellFormed

\* The saves, with the version they come to
Became(m, s, v) == [m EXCEPT !.state = s, !.version = v]
Emptied(m, s, v) == [m EXCEPT !.state = s, !.version = v, !.content = Empty]
ReviewedRow(m, s, v, w) == [m EXCEPT !.state = s, !.version = v, !.reviewer = w, !.decision = s]

LEMMA RowMoved ==
  ASSUME NEW m \in Row, NEW s \in DOMAIN Transitions, NEW v \in 1..4
  PROVE  Became(m, s, v) \in Row /\ Emptied(m, s, v) \in Row
BY DEF Row, Became, Emptied

LEMMA RowReviewed ==
  ASSUME NEW m \in Row, NEW s \in DOMAIN Transitions, s \in {"APPROVED", "REJECTED"},
         NEW v \in 1..4, NEW w \in Users
  PROVE  ReviewedRow(m, s, v, w) \in Row
BY DEF Row, ReviewedRow

LEMMA DecidedIsWellFormed ==
  ASSUME NEW m, WellFormed(m), m.state = "PENDING",
         NEW decision \in {"APPROVED", "REJECTED"},
         NEW actor \in Users, CanReview(m, actor),
         NEW n, n = Decided(m, decision, actor)
  PROVE  /\ WellFormed(n) /\ KeptIdentity(m, n)
         /\ n.state = decision /\ n.decision = decision
<1>1. m.version + 1 = 2 /\ m.content # Empty
  BY DEF Row, WellFormed
<1>2. n = [m EXCEPT !.state = decision, !.version = 2, !.reviewer = actor, !.decision = decision]
  BY <1>1 DEF Decided, Moved, Row, WellFormed
<1> HIDE DEF Users
<1>3. CanReview(n, actor) /\ n.reviewer = actor
  BY <1>2 DEF CanReview, Row, WellFormed
<1>s. {"APPROVED", "REJECTED", "SUPERSEDED", "DELETED"} \subseteq DOMAIN Transitions
  BY StatesKnown DEF MemoryStates
<1>r. m \in Row
  BY DEF WellFormed
<1>v. 2 \in 1..4 /\ 3 \in 1..4
  OBVIOUS
<1>b. n = ReviewedRow(m, decision, 2, actor)
  BY <1>2 DEF ReviewedRow
<1>4. n \in Row
  BY <1>b, <1>s, <1>v, <1>r, RowReviewed
<1>5. KeptIdentity(m, n) /\ n.memoryVersion = m.memoryVersion
  BY <1>2 DEF Row, WellFormed, KeptIdentity
<1> QED
  BY <1>1, <1>2, <1>3, <1>4, <1>5 DEF Row, WellFormed, KeptIdentity

LEMMA SupersededIsWellFormed ==
  ASSUME NEW m, WellFormed(m), m.state = "APPROVED",
         NEW n, n = Moved(m, "SUPERSEDED")
  PROVE  /\ WellFormed(n) /\ KeptIdentity(m, n)
         /\ n.state = "SUPERSEDED" /\ n.decision = m.decision /\ n.reviewer = m.reviewer
<1>1. m.version + 1 = 3 /\ m.content # Empty /\ CanReview(m, m.reviewer)
  BY DEF Row, WellFormed, Empty
<1>2. n = [m EXCEPT !.state = "SUPERSEDED", !.version = 3]
  BY <1>1 DEF Moved, Row, WellFormed
<1>3. CanReview(n, n.reviewer)
  BY <1>1, <1>2 DEF CanReview, Row, WellFormed
<1>s. {"APPROVED", "REJECTED", "SUPERSEDED", "DELETED"} \subseteq DOMAIN Transitions
  BY StatesKnown DEF MemoryStates
<1>r. m \in Row
  BY DEF WellFormed
<1>v. 2 \in 1..4 /\ 3 \in 1..4
  OBVIOUS
<1>b. n = Became(m, "SUPERSEDED", 3)
  BY <1>2 DEF Became
<1>4. n \in Row
  BY <1>b, <1>s, <1>v, <1>r, RowMoved
<1>5. KeptIdentity(m, n) /\ n.memoryVersion = m.memoryVersion
  BY <1>2 DEF Row, WellFormed, KeptIdentity
<1> QED
  BY <1>1, <1>2, <1>3, <1>4, <1>5 DEF Row, WellFormed, KeptIdentity

LEMMA DeletedIsWellFormed ==
  ASSUME NEW m, WellFormed(m), MayMove(m, "DELETED"),
         NEW n, n = [Moved(m, "DELETED") EXCEPT !.content = Empty]
  PROVE  /\ WellFormed(n) /\ KeptIdentity(m, n)
         /\ m.state # "DELETED"
         /\ n.state = "DELETED" /\ n.decision = m.decision /\ n.reviewer = m.reviewer
<1>1. m.state # "DELETED" /\ m.version + 1 \in 1..4
  BY StatesKnown DEF Row, WellFormed, MayMove, MemoryStates
<1>2. n = [m EXCEPT !.state = "DELETED", !.version = m.version + 1, !.content = Empty]
  BY DEF Moved, Row, WellFormed
<1>3. n.decision # Empty => CanReview(n, n.reviewer)
  BY <1>2 DEF CanReview, Row, WellFormed
<1>s. {"APPROVED", "REJECTED", "SUPERSEDED", "DELETED"} \subseteq DOMAIN Transitions
  BY StatesKnown DEF MemoryStates
<1>r. m \in Row
  BY DEF WellFormed
<1>v. 2 \in 1..4 /\ 3 \in 1..4
  OBVIOUS
<1>b. n = Emptied(m, "DELETED", m.version + 1)
  BY <1>2 DEF Emptied
<1>4. n \in Row
  BY <1>1, <1>b, <1>s, <1>r, RowMoved
<1>5. KeptIdentity(m, n) /\ n.memoryVersion = m.memoryVersion
  BY <1>2 DEF Row, WellFormed, KeptIdentity
<1> QED
  BY <1>1, <1>2, <1>3, <1>4, <1>5 DEF Row, WellFormed, KeptIdentity

---------------------------------------------------------------------------
(***************************************************************************)
(* What a step does to the table: nothing, a new candidate, one row moved  *)
(* on, or a correction approved together with its predecessor.             *)
(***************************************************************************)
Stored(i, m) ==
  /\ records[i] = Unused /\ ~Known(records, m)
  /\ WellFormed(m) /\ m.state = "PENDING" /\ m.decision = Empty
  /\ records' = [records EXCEPT ![i] = m]
StandsFor(m, n) ==
  /\ WellFormed(m) /\ WellFormed(n) /\ KeptIdentity(m, n)
  /\ m.decision # Empty => n.decision = m.decision /\ n.reviewer = m.reviewer
  /\ m.state # "DELETED"
Saved(i, n) ==
  /\ StandsFor(records[i], n)
  /\ n.state # "SUPERSEDED"
  /\ records[i].state = "SUPERSEDED" => n.state = "DELETED"
  /\ n.decision = "APPROVED" => records[i].decision = "APPROVED" \/ n.supersedes = None
  /\ records' = [records EXCEPT ![i] = n]
CorrectedPair(c, p, n, o) ==
  /\ c # p
  /\ StandsFor(records[c], n) /\ StandsFor(records[p], o)
  /\ n.supersedes = p /\ n.state = "APPROVED" /\ n.decision = "APPROVED"
  /\ records[p].state = "APPROVED" /\ records[c].state = "PENDING" /\ o.state = "SUPERSEDED"
  /\ records' = [records EXCEPT ![c] = n, ![p] = o]
TableMoves ==
  \/ UNCHANGED records
  \/ \E i \in Ids : \E m : Stored(i, m)
  \/ \E i \in Ids : \E n : Saved(i, n)
  \/ \E c, p \in Ids : \E n, o : CorrectedPair(c, p, n, o)

\* The row a request saves is the one it read
LEMMA CurrentRow ==
  ASSUME MemoryInv, NEW r \in Requests, requests[r] # Idle, Latest(r, requests[r].id)
  PROVE  /\ requests[r].id \in Ids /\ requests[r].actor \in Users
         /\ records[requests[r].id] = requests[r].view[requests[r].id]
         /\ WellFormed(records[requests[r].id])
BY DEF MemoryInv, SnapshotsWellFormed, Latest

LEMMA BusyIsNotIdle ==
  ASSUME NEW r, NEW op \in {"correct", "approve", "reject", "delete"}, Ready(r, op)
  PROVE  requests[r] # Idle
BY DEF Ready, Idle, Empty

LEMMA CreateMoves ==
  ASSUME MemoryInv, NEW actor \in Users, NEW owner \in Owners, NEW kind \in Kinds,
         NEW content \in Contents, NEW ttl \in BOOLEAN, NEW i \in Ids,
         Create(actor, owner, kind, content, ttl, i)
  PROVE  TableMoves
<1>1. PICK m : m = Candidate(kind, owner, content, ttl)
  OBVIOUS
<1>2. WellFormed(m) /\ m.state = "PENDING" /\ m.decision = Empty
  BY <1>1, CandidateIsWellFormed
<1>3. Insert(i, m)
  BY <1>1 DEF Create
<1>4. Stored(i, m)
  BY <1>2, <1>3 DEF Insert, Stored
<1> QED
  BY <1>4 DEF TableMoves

LEMMA CorrectMoves ==
  ASSUME MemoryInv, NEW r \in Requests, NEW content \in Contents, NEW ttl \in BOOLEAN,
         NEW i \in Ids, Correct(r, content, ttl, i)
  PROVE  TableMoves
<1>1. PICK p : p = requests[r].view[requests[r].id]
  OBVIOUS
<1>2. PICK t : t = Candidate(p.kind, p.initiator, content, ttl)
  OBVIOUS
<1>3. PICK m : m = [t EXCEPT !.supersedes = requests[r].id, !.memoryVersion = p.memoryVersion + 1]
  OBVIOUS
<1>4. requests[r].id \in Ids /\ WellFormed(p)
  BY <1>1, BusyIsNotIdle DEF Correct, MemoryInv, SnapshotsWellFormed
<1>5. p.supersedes = None /\ p.kind \in Kinds /\ p.initiator \in Owners /\ p.memoryVersion + 1 = 2
  <2>1. p.supersedes = None
    BY <1>1 DEF Correct, Correctable
  <2>2. p.memoryVersion = 1
    BY <1>4, <2>1 DEF WellFormed
  <2>3. p \in Row
    BY <1>4 DEF WellFormed
  <2> QED
    BY <2>1, <2>2, <2>3 DEF Row
<1>6. WellFormed(t) /\ t.state = "PENDING"
  BY <1>2, <1>5, CandidateIsWellFormed
<1>7. m = [t EXCEPT !.supersedes = requests[r].id, !.memoryVersion = 2]
  BY <1>3, <1>5
<1>8. WellFormed(m) /\ m.state = "PENDING" /\ m.decision = Empty
  BY <1>4, <1>6, <1>7, CorrectionIsWellFormed
<1>9. Insert(i, m)
  BY <1>1, <1>2, <1>3 DEF Correct
<1>10. Stored(i, m)
  BY <1>8, <1>9 DEF Insert, Stored
<1> QED
  BY <1>10 DEF TableMoves

LEMMA RejectMoves ==
  ASSUME MemoryInv, NEW r \in Requests, Reject(r)
  PROVE  TableMoves
<1>1. PICK i : i = requests[r].id
  OBVIOUS
<1>2. PICK n : n = Decided(records[i], "REJECTED", requests[r].actor)
  OBVIOUS
<1>3. /\ i \in Ids /\ requests[r].actor \in Users
      /\ records[i] = requests[r].view[i] /\ WellFormed(records[i])
  BY <1>1, BusyIsNotIdle, CurrentRow DEF Reject
<1>4. records[i].state = "PENDING" /\ CanReview(records[i], requests[r].actor)
  BY <1>1, <1>3 DEF Reject, StillCandidate
<1>5. WellFormed(n) /\ KeptIdentity(records[i], n) /\ n.state = "REJECTED" /\ n.decision = "REJECTED"
  BY <1>2, <1>3, <1>4, DecidedIsWellFormed
<1>6. records[i].decision = Empty
  BY <1>3, <1>4 DEF WellFormed
<1>7. records' = [records EXCEPT ![i] = n]
  BY <1>1, <1>2, <1>3 DEF Reject
<1>8. Saved(i, n)
  BY <1>3, <1>4, <1>5, <1>6, <1>7 DEF Saved, StandsFor
<1> QED
  BY <1>3, <1>8 DEF TableMoves

LEMMA DeleteMoves ==
  ASSUME MemoryInv, NEW r \in Requests, Delete(r)
  PROVE  TableMoves
<1>1. PICK i : i = requests[r].id
  OBVIOUS
<1>2. PICK n : n = [Moved(records[i], "DELETED") EXCEPT !.content = Empty]
  OBVIOUS
<1>3. i \in Ids /\ records[i] = requests[r].view[i] /\ WellFormed(records[i])
  BY <1>1, BusyIsNotIdle, CurrentRow DEF Delete
<1>4. MayMove(records[i], "DELETED")
  BY <1>1, <1>3 DEF Delete
<1>5. /\ WellFormed(n) /\ KeptIdentity(records[i], n) /\ n.state = "DELETED"
      /\ records[i].state # "DELETED"
      /\ n.decision = records[i].decision /\ n.reviewer = records[i].reviewer
  BY <1>2, <1>3, <1>4, DeletedIsWellFormed
<1>6. records' = [records EXCEPT ![i] = n]
  BY <1>1, <1>2, <1>3 DEF Delete
<1>7. Saved(i, n)
  BY <1>3, <1>5, <1>6 DEF Saved, StandsFor
<1> QED
  BY <1>3, <1>7 DEF TableMoves

LEMMA ApproveMoves ==
  ASSUME MemoryInv, NEW r \in Requests, Approve(r)
  PROVE  TableMoves
<1>1. PICK i : i = requests[r].id
  OBVIOUS
<1>2. PICK n : n = Decided(records[i], "APPROVED", requests[r].actor)
  OBVIOUS
<1>3. /\ i \in Ids /\ requests[r].actor \in Users
      /\ records[i] = requests[r].view[i] /\ WellFormed(records[i])
  BY <1>1, BusyIsNotIdle, CurrentRow DEF Approve
<1>4. records[i].state = "PENDING" /\ CanReview(records[i], requests[r].actor)
  BY <1>1, <1>3 DEF Approve, StillCandidate
<1>5. WellFormed(n) /\ KeptIdentity(records[i], n) /\ n.state = "APPROVED" /\ n.decision = "APPROVED"
  BY <1>2, <1>3, <1>4, DecidedIsWellFormed
<1>6. records[i].decision = Empty
  BY <1>3, <1>4 DEF WellFormed
<1>7. StandsFor(records[i], n)
  BY <1>3, <1>4, <1>5, <1>6 DEF StandsFor
<1>8. PICK p : p = records[i].supersedes
  OBVIOUS
<1>9. n.supersedes = p
  BY <1>5, <1>8 DEF KeptIdentity
<1>10. CASE p = None
  <2>1. records' = [records EXCEPT ![i] = n]
    BY <1>1, <1>2, <1>3, <1>8, <1>10 DEF Approve
  <2>2. Saved(i, n)
    BY <1>4, <1>5, <1>7, <1>9, <1>10, <2>1 DEF Saved
  <2> QED
    BY <1>3, <2>2 DEF TableMoves
<1>11. CASE p # None
  <2>1. p \in Ids
    BY <1>3, <1>8, <1>11 DEF WellFormed, Row
  <2>2. PICK o : o = Moved(records[p], "SUPERSEDED")
    OBVIOUS
  <2>3. /\ FitPredecessor(r, p) /\ Latest(r, p)
        /\ records' = [[records EXCEPT ![i] = n] EXCEPT ![p] = Moved(requests[r].view[p], "SUPERSEDED")]
    BY <1>1, <1>2, <1>3, <1>8, <1>11 DEF Approve
  <2>4. records[p] = requests[r].view[p] /\ records[p].state = "APPROVED"
    BY <2>3 DEF FitPredecessor, Latest
  <2>5. records[p] # Unused
    BY <2>4 DEF Unused, Empty
  <2>6. WellFormed(records[p])
    BY <2>1, <2>5 DEF MemoryInv, RowsWellFormed
  <2>7. /\ WellFormed(o) /\ KeptIdentity(records[p], o) /\ o.state = "SUPERSEDED"
        /\ o.decision = records[p].decision /\ o.reviewer = records[p].reviewer
    BY <2>2, <2>4, <2>6, SupersededIsWellFormed
  <2>8. StandsFor(records[p], o)
    BY <2>4, <2>6, <2>7 DEF StandsFor
  <2>9. i # p
    BY <1>4, <2>4
  <2>10. records' = [records EXCEPT ![i] = n, ![p] = o]
    BY <2>2, <2>3, <2>4
  <2>11. CorrectedPair(i, p, n, o)
    BY <1>4, <1>5, <1>7, <1>9, <2>4, <2>7, <2>8, <2>9, <2>10 DEF CorrectedPair
  <2> QED
    BY <1>3, <2>1, <2>11 DEF TableMoves
<1> QED
  BY <1>10, <1>11

---------------------------------------------------------------------------
LEMMA StepMovesTable ==
  ASSUME MemoryInv, [Next]_vars
  PROVE  TableMoves
<1>1. CASE UNCHANGED vars
  BY <1>1 DEF vars, TableMoves
<1>2. ASSUME NEW actor \in Users, NEW owner \in Owners, NEW kind \in Kinds,
             NEW content \in Contents, NEW ttl \in BOOLEAN, NEW i \in Ids,
             Create(actor, owner, kind, content, ttl, i)
      PROVE  TableMoves
  BY <1>2, CreateMoves
<1>3. ASSUME NEW r \in Requests, NEW op, NEW actor, NEW i, Begin(r, op, actor, i)
      PROVE  TableMoves
  BY <1>3 DEF Begin, TableMoves
<1>4. ASSUME NEW r \in Requests, Reject(r) \/ Approve(r) \/ Delete(r)
      PROVE  TableMoves
  BY <1>4, RejectMoves, ApproveMoves, DeleteMoves
<1>5. ASSUME NEW r \in Requests, Abandon(r)
      PROVE  TableMoves
  BY <1>5 DEF Abandon, TableMoves
<1>6. ASSUME NEW r \in Requests, NEW content \in Contents, NEW ttl \in BOOLEAN,
             NEW i \in Ids, Correct(r, content, ttl, i)
      PROVE  TableMoves
  BY <1>6, CorrectMoves
<1>7. ASSUME NEW i \in Ids, Lapse(i)
      PROVE  TableMoves
  BY <1>7 DEF Lapse, TableMoves
<1>8. ASSUME NEW owner \in Owners, CloseRun(owner)
      PROVE  TableMoves
  BY <1>8 DEF CloseRun, TableMoves
<1> QED
  BY <1>1, <1>2, <1>3, <1>4, <1>5, <1>6, <1>7, <1>8 DEF Next

\* A save changes the rows it names and no other
LEMMA OtherRowsStay ==
  ASSUME MemoryInv, NEW i \in Ids, NEW m, records' = [records EXCEPT ![i] = m]
  PROVE  /\ records' = [j \in Ids |-> records'[j]]
         /\ records'[i] = m
         /\ \A j \in Ids : j # i => records'[j] = records[j]
BY DEF MemoryInv, RowsWellFormed

LEMMA OtherPairsStay ==
  ASSUME MemoryInv, NEW i \in Ids, NEW j \in Ids, i # j, NEW m, NEW n,
         records' = [records EXCEPT ![i] = m, ![j] = n]
  PROVE  /\ records' = [k \in Ids |-> records'[k]]
         /\ records'[i] = m /\ records'[j] = n
         /\ \A k \in Ids : k # i /\ k # j => records'[k] = records[k]
BY DEF MemoryInv, RowsWellFormed

\* Every row of the next table is the row before it, one that stands for it, or a new one.
LEMMA RowsStand ==
  ASSUME MemoryInv, TableMoves
  PROVE  /\ records' = [i \in Ids |-> records'[i]]
         /\ \A i \in Ids : \/ records'[i] = records[i]
                           \/ StandsFor(records[i], records'[i])
                           \/ /\ records[i] = Unused /\ WellFormed(records'[i])
                              /\ ~Known(records, records'[i])
<1>1. CASE UNCHANGED records
  BY <1>1 DEF MemoryInv, RowsWellFormed
<1>2. ASSUME NEW i \in Ids, NEW m, Stored(i, m)
      PROVE  /\ records' = [j \in Ids |-> records'[j]]
             /\ \A j \in Ids : \/ records'[j] = records[j]
                               \/ /\ records[j] = Unused /\ WellFormed(records'[j])
                                  /\ ~Known(records, records'[j])
  BY <1>2, OtherRowsStay DEF Stored
<1>3. ASSUME NEW i \in Ids, NEW n, Saved(i, n)
      PROVE  /\ records' = [j \in Ids |-> records'[j]]
             /\ \A j \in Ids : records'[j] = records[j] \/ StandsFor(records[j], records'[j])
  BY <1>3, OtherRowsStay DEF Saved
<1>4. ASSUME NEW c \in Ids, NEW p \in Ids, NEW n, NEW o, CorrectedPair(c, p, n, o)
      PROVE  /\ records' = [j \in Ids |-> records'[j]]
             /\ \A j \in Ids : records'[j] = records[j] \/ StandsFor(records[j], records'[j])
  <2>1. /\ c # p /\ records' = [records EXCEPT ![c] = n, ![p] = o]
        /\ StandsFor(records[c], n) /\ StandsFor(records[p], o)
    BY <1>4 DEF CorrectedPair
  <2>2. /\ records' = [j \in Ids |-> records'[j]]
        /\ records'[c] = n /\ records'[p] = o
        /\ \A j \in Ids : j # c /\ j # p => records'[j] = records[j]
    BY <2>1, OtherPairsStay
  <2> QED
    BY <2>1, <2>2
<1> QED
  BY <1>1, <1>2, <1>3, <1>4 DEF TableMoves

LEMMA RowsInvariance ==
  ASSUME MemoryInv, TableMoves
  PROVE  RowsWellFormed'
<1>1. ASSUME NEW i \in Ids
      PROVE  records'[i] = Unused \/ WellFormed(records'[i])
  BY RowsStand DEF MemoryInv, RowsWellFormed, StandsFor
<1> QED
  BY <1>1, RowsStand DEF RowsWellFormed

LEMMA KeysStay ==
  ASSUME NEW m, NEW n, StandsFor(m, n)
  PROVE  m # Unused /\ n # Unused /\ DedupeKey(n) = DedupeKey(m)
BY StoredIsNotUnused DEF StandsFor, KeptIdentity, DedupeKey

LEMMA DuplicatesInvariance ==
  ASSUME MemoryInv, TableMoves
  PROVE  NoDuplicateMemory'
<1>1. CASE UNCHANGED records
  BY <1>1 DEF MemoryInv, NoDuplicateMemory
<1>2. ASSUME NEW i \in Ids, NEW m, Stored(i, m)
      PROVE  NoDuplicateMemory'
  <2>1. ASSUME NEW j \in Ids, records[j] # Unused
        PROVE  DedupeKey(records[j]) # DedupeKey(m)
    BY <1>2, <2>1 DEF Stored, Known
  <2>2. records'[i] = m /\ \A j \in Ids : j # i => records'[j] = records[j]
    BY <1>2, OtherRowsStay DEF Stored
  <2> QED
    BY <2>1, <2>2 DEF MemoryInv, NoDuplicateMemory
<1>3. CASE \A j \in Ids : records'[j] = records[j] \/ StandsFor(records[j], records'[j])
  <2>1. ASSUME NEW j \in Ids, records'[j] # Unused
        PROVE  records[j] # Unused /\ DedupeKey(records'[j]) = DedupeKey(records[j])
    <3>1. CASE records'[j] = records[j]
      BY <2>1, <3>1
    <3>2. CASE StandsFor(records[j], records'[j])
      BY <3>2, KeysStay
    <3> QED
      BY <1>3, <3>1, <3>2
  <2> QED
    BY <2>1 DEF MemoryInv, NoDuplicateMemory
<1>4. ASSUME NEW i \in Ids, NEW n, Saved(i, n)
      PROVE  NoDuplicateMemory'
  BY <1>3, <1>4, OtherRowsStay DEF Saved
<1>5. ASSUME NEW c \in Ids, NEW p \in Ids, NEW n, NEW o, CorrectedPair(c, p, n, o)
      PROVE  NoDuplicateMemory'
  <2>1. /\ c # p /\ records' = [records EXCEPT ![c] = n, ![p] = o]
        /\ StandsFor(records[c], n) /\ StandsFor(records[p], o)
    BY <1>5 DEF CorrectedPair
  <2>2. /\ records'[c] = n /\ records'[p] = o
        /\ \A j \in Ids : j # c /\ j # p => records'[j] = records[j]
    BY <2>1, OtherPairsStay
  <2> QED
    BY <1>3, <2>1, <2>2
<1> QED
  BY <1>1, <1>2, <1>4, <1>5 DEF TableMoves

\* Successors of the next table: a candidate is none, a save that is not the approval of a
\* correction makes none, and that approval makes one of a record that had none.
LEMMA SupersededInvariance ==
  ASSUME MemoryInv, TableMoves
  PROVE  Superseded'
<1>0. Superseded
  BY DEF MemoryInv
<1>1. CASE UNCHANGED records
  BY <1>0, <1>1 DEF Superseded, Succeeds
<1>2. ASSUME NEW k \in Ids, NEW m, Stored(k, m)
      PROVE  Superseded'
  <2>1. records'[k] = m /\ \A j \in Ids : j # k => records'[j] = records[j]
    BY <1>2, OtherRowsStay DEF Stored
  <2>2. /\ records[k] = Unused /\ m.decision # "APPROVED" /\ m.state = "PENDING"
        /\ records[k].state \notin {"SUPERSEDED", "DELETED"}
    BY <1>2 DEF Stored, Unused, Empty
  <2>3. \A c, i \in Ids : Succeeds(c, i)' <=> Succeeds(c, i)
    BY <2>1, <2>2 DEF Succeeds
  <2> QED
    BY <1>0, <2>1, <2>2, <2>3 DEF Superseded
<1>3. ASSUME NEW k \in Ids, NEW n, Saved(k, n)
      PROVE  Superseded'
  <2>1. records'[k] = n /\ \A j \in Ids : j # k => records'[j] = records[j]
    BY <1>3, OtherRowsStay DEF Saved
  <2>2. records[k] # Unused /\ n # Unused /\ n.supersedes = records[k].supersedes
    BY <1>3, KeysStay DEF Saved, StandsFor, KeptIdentity
  <2>3. /\ n.state # "SUPERSEDED"
        /\ records[k].state \in {"SUPERSEDED", "DELETED"} => n.state = "DELETED"
    BY <1>3 DEF Saved, StandsFor
  <2>4. None \notin Ids
    BY MemoryAssumption DEF None
  <2>5. records[k].decision = "APPROVED" => n.decision = "APPROVED"
    BY <1>3 DEF Saved, StandsFor, Empty
  <2>6. n.decision = "APPROVED" => records[k].decision = "APPROVED" \/ n.supersedes \notin Ids
    BY <1>3, <2>4 DEF Saved
  <2>7. \A c, i \in Ids : Succeeds(c, i)' <=> Succeeds(c, i)
    BY <2>1, <2>2, <2>5, <2>6 DEF Succeeds
  <2> QED
    BY <1>0, <2>1, <2>3, <2>7 DEF Superseded
<1>4. ASSUME NEW k \in Ids, NEW p \in Ids, NEW n, NEW o, CorrectedPair(k, p, n, o)
      PROVE  Superseded'
  <2>1. /\ k # p /\ records'[k] = n /\ records'[p] = o
        /\ \A j \in Ids : j # k /\ j # p => records'[j] = records[j]
    <3>1. k # p /\ records' = [records EXCEPT ![k] = n, ![p] = o]
      BY <1>4 DEF CorrectedPair
    <3> QED
      BY <3>1, OtherPairsStay
  <2>2. /\ n # Unused /\ n.supersedes = p /\ n.decision = "APPROVED" /\ n.state = "APPROVED"
        /\ o.state = "SUPERSEDED" /\ records[p].state = "APPROVED"
        /\ records[k].state = "PENDING"
    BY <1>4, KeysStay DEF CorrectedPair
  <2>3. /\ records[p] # Unused /\ o # Unused /\ o.supersedes = records[p].supersedes
        /\ o.decision = records[p].decision
    <3>1. records[p].decision = "APPROVED"
      BY <1>4 DEF CorrectedPair, StandsFor, WellFormed
    <3> QED
      BY <1>4, <3>1, KeysStay DEF CorrectedPair, StandsFor, KeptIdentity, Empty
  <2>4. records[k].decision # "APPROVED"
    BY <1>4 DEF CorrectedPair, StandsFor, WellFormed, Empty
  <2>5. \A c \in Ids : ~Succeeds(c, p) /\ ~Succeeds(c, k)
    BY <1>0, <2>2 DEF Superseded
  <2>6. \A c, i \in Ids : Succeeds(c, i)' <=> Succeeds(c, i) \/ (c = k /\ i = p)
    <3>1. \A i \in Ids : Succeeds(k, i)' <=> i = p
      BY <2>1, <2>2 DEF Succeeds
    <3>2. \A i \in Ids : ~Succeeds(k, i)
      BY <2>4 DEF Succeeds
    <3>3. \A i \in Ids : Succeeds(p, i)' <=> Succeeds(p, i)
      BY <2>1, <2>3 DEF Succeeds
    <3>4. \A c, i \in Ids : c # k /\ c # p => (Succeeds(c, i)' <=> Succeeds(c, i))
      BY <2>1 DEF Succeeds
    <3> QED
      BY <2>1, <3>1, <3>2, <3>3, <3>4
  <2>7. \A i \in Ids : i # p /\ i # k => records'[i].state = records[i].state
    BY <2>1
  <2> QED
    BY <1>0, <2>1, <2>2, <2>5, <2>6, <2>7 DEF Superseded
<1> QED
  BY <1>1, <1>2, <1>3, <1>4 DEF TableMoves

LEMMA SnapshotsInvariance ==
  ASSUME MemoryInv, [Next]_vars
  PROVE  SnapshotsWellFormed' /\ TimesAndRuns'
<1> USE DEF MemoryInv
<1>1. CASE UNCHANGED vars
  BY <1>1 DEF vars, SnapshotsWellFormed, TimesAndRuns
<1>2. ASSUME NEW r \in Requests, End(r)
      PROVE  SnapshotsWellFormed' /\ TimesAndRuns'
  BY <1>2 DEF End, SnapshotsWellFormed, TimesAndRuns
<1>3. ASSUME NEW actor \in Users, NEW owner \in Owners, NEW kind \in Kinds,
             NEW content \in Contents, NEW ttl \in BOOLEAN, NEW i \in Ids,
             Create(actor, owner, kind, content, ttl, i)
      PROVE  SnapshotsWellFormed' /\ TimesAndRuns'
  BY <1>3 DEF Create, SnapshotsWellFormed, TimesAndRuns
<1>4. ASSUME NEW r \in Requests, NEW op \in {"correct", "approve", "reject", "delete"},
             NEW actor \in Users, NEW i \in {j \in Ids : records[j] # Unused}, Begin(r, op, actor, i)
      PROVE  SnapshotsWellFormed' /\ TimesAndRuns'
  <2>1. WellFormed(records[i]) /\ i \in Ids
    BY DEF RowsWellFormed
  <2>2. PICK v : v = [j \in Rows(op, i) |-> records[j]]
    OBVIOUS
  <2>3. i \in Rows(op, i) /\ v[i] = records[i]
    BY <2>2 DEF Rows
  <2>4. PICK q : q = [op |-> op, actor |-> actor, id |-> i, view |-> v]
    OBVIOUS
  <2>5. requests' = [requests EXCEPT ![r] = q] /\ UNCHANGED <<lapsed, openRuns>>
    BY <1>4, <2>2, <2>4 DEF Begin
  <2>6. q.id \in Ids /\ q.actor \in Users /\ WellFormed(q.view[q.id])
    BY <2>1, <2>3, <2>4
  <2>7. /\ requests' = [p \in Requests |-> requests'[p]]
        /\ requests'[r] = q
        /\ \A p \in Requests : p # r => requests'[p] = requests[p]
    BY <2>5 DEF SnapshotsWellFormed
  <2> QED
    BY <2>5, <2>6, <2>7 DEF SnapshotsWellFormed, TimesAndRuns
<1>5. ASSUME NEW r \in Requests, Reject(r) \/ Approve(r) \/ Delete(r) \/ Abandon(r)
      PROVE  End(r)
  BY <1>5 DEF Reject, Approve, Delete, Abandon
<1>6. ASSUME NEW r \in Requests, NEW content, NEW ttl, NEW i, Correct(r, content, ttl, i)
      PROVE  End(r)
  BY <1>6 DEF Correct
<1>7. ASSUME NEW i \in Ids, Lapse(i)
      PROVE  SnapshotsWellFormed' /\ TimesAndRuns'
  BY <1>7 DEF Lapse, SnapshotsWellFormed, TimesAndRuns
<1>8. ASSUME NEW owner \in Owners, CloseRun(owner)
      PROVE  SnapshotsWellFormed' /\ TimesAndRuns'
  BY <1>8 DEF CloseRun, SnapshotsWellFormed, TimesAndRuns
<1> QED
  BY <1>1, <1>2, <1>3, <1>4, <1>5, <1>6, <1>7, <1>8 DEF Next

---------------------------------------------------------------------------
LEMMA MemoryInvInit ==
  ASSUME Init
  PROVE  MemoryInv
<1>1. RowsWellFormed /\ SnapshotsWellFormed /\ TimesAndRuns /\ NoDuplicateMemory
  BY DEF Init, RowsWellFormed, SnapshotsWellFormed, TimesAndRuns, NoDuplicateMemory
<1>2. \A i \in Ids : records[i] = Unused /\ records[i].state # "SUPERSEDED"
  BY DEF Init, Unused, Empty
<1> QED
  BY <1>1, <1>2 DEF MemoryInv, Superseded, Succeeds

LEMMA MemoryInvariance ==
  ASSUME MemoryInv, [Next]_vars
  PROVE  MemoryInv'
<1>1. TableMoves
  BY StepMovesTable
<1> QED
  BY <1>1, RowsInvariance, DuplicatesInvariance, SupersededInvariance, SnapshotsInvariance
  DEF MemoryInv

LEMMA MemoryInvHolds == Spec => []MemoryInv
BY MemoryInvInit, MemoryInvariance, PTL DEF Spec

LEMMA TypesFollow ==
  ASSUME MemoryInv
  PROVE  TypeOK
<1>1. ASSUME NEW i \in Ids, records[i] # Unused
      PROVE  /\ records[i].state \in DOMAIN Transitions
             /\ records[i].kind \in Kinds /\ records[i].initiator \in Owners
             /\ records[i].content \in Contents \cup {Empty}
             /\ records[i].supersedes \in Ids \cup {None}
             /\ records[i].version \in 1..4 /\ records[i].memoryVersion \in 1..2
  <2>1. records[i] \in Row
    BY <1>1 DEF MemoryInv, RowsWellFormed, WellFormed
  <2> QED
    BY <2>1 DEF Row
<1> QED
  BY <1>1 DEF TypeOK, MemoryInv, TimesAndRuns

LEMMA SuccessorsFollow ==
  ASSUME MemoryInv
  PROVE  OneSuccessor
<1> SUFFICES ASSUME NEW i \in Ids
             PROVE  /\ Cardinality(ApprovedCorrections(i)) <= 1
                    /\ records[i].state = "SUPERSEDED" => ApprovedCorrections(i) # {}
                    /\ ApprovedCorrections(i) # {} => records[i].state \in {"SUPERSEDED", "DELETED"}
  BY DEF OneSuccessor
<1>1. ApprovedCorrections(i) = {c \in Ids : Succeeds(c, i)}
  BY DEF ApprovedCorrections, Corrections, Succeeds
<1>2. \A c, d \in ApprovedCorrections(i) : c = d
  BY <1>1 DEF MemoryInv, Superseded
<1>3. Cardinality(ApprovedCorrections(i)) <= 1
  <2>1. CASE ApprovedCorrections(i) = {}
    BY <2>1, FS_EmptySet
  <2>2. CASE ApprovedCorrections(i) # {}
    <3>1. PICK c : ApprovedCorrections(i) = {c}
      BY <1>2, <2>2
    <3>2. Cardinality({c}) = 1
      BY FS_Singleton
    <3> QED
      BY <3>1, <3>2
  <2> QED
    BY <2>1, <2>2
<1> QED
  BY <1>1, <1>3 DEF MemoryInv, Superseded

LEMMA RecallFollows ==
  ASSUME MemoryInv
  PROVE  RecallIsSettled
<1> SUFFICES ASSUME NEW actor \in Users, NEW i \in Visible(actor)
             PROVE  /\ CanReview(records[i], records[i].reviewer) /\ records[i].content # Empty
                    /\ ApprovedCorrections(i) = {}
                    /\ \A reviewer \in Users : Corrections(records, i) \cap Reviewable(reviewer) = {}
  BY DEF RecallIsSettled
<1>1. i \in Ids /\ records[i].state = "APPROVED" /\ ~HasPendingCorrection(records, i)
  BY DEF Visible
<1>2. records[i] # Unused
  BY <1>1 DEF Unused, Empty
<1>3. WellFormed(records[i])
  BY <1>1, <1>2 DEF MemoryInv, RowsWellFormed
<1>4. CanReview(records[i], records[i].reviewer) /\ records[i].content # Empty
  BY <1>1, <1>3 DEF WellFormed, Empty
<1>5. ApprovedCorrections(i) = {}
  BY <1>1 DEF ApprovedCorrections, Corrections, MemoryInv, Superseded, Succeeds
<1>6. \A reviewer \in Users : Corrections(records, i) \cap Reviewable(reviewer) = {}
  BY <1>1 DEF HasPendingCorrection, Reviewable
<1> QED
  BY <1>4, <1>5, <1>6

(***************************************************************************)
(* Whatever requests race: a record is superseded exactly when one         *)
(* correction of it was approved, no memory is stored twice, and what is   *)
(* recalled was approved by somebody who may review it and has no          *)
(* correction, approved or waiting (memory/service.py).                    *)
(***************************************************************************)
THEOREM MemoriesAlwaysSucceed == Spec => []MemorySucceeds
<1>1. MemoryInv => MemorySucceeds
  BY TypesFollow, SuccessorsFollow, RecallFollows DEF MemorySucceeds, MemoryInv
<1> QED
  BY <1>1, MemoryInvHolds, PTL

(***************************************************************************)
(* No request undoes a decision or revives a tombstone, however old the    *)
(* snapshot is that it decided on (review_candidate, delete_memory).       *)
(***************************************************************************)
THEOREM MemoryDecisionsStand == Spec => DecisionStands
<1>1. ASSUME MemoryInv, [Next]_vars
      PROVE  [\A i \in Ids : Stands(records[i], records'[i])]_vars
  <2>1. TableMoves
    BY <1>1, StepMovesTable
  <2>2. ASSUME NEW i \in Ids
        PROVE  Stands(records[i], records'[i])
    <3>1. CASE records'[i] = records[i]
      BY <3>1 DEF Stands
    <3>2. CASE StandsFor(records[i], records'[i])
      BY <3>2 DEF StandsFor, Stands
    <3>3. CASE records[i] = Unused
      <4>1. Unused.decision = Empty /\ Unused.state # "DELETED"
        BY DEF Unused, Empty
      <4> QED
        BY <3>3, <4>1 DEF Stands
    <3> QED
      BY <1>1, <2>1, <3>1, <3>2, <3>3, RowsStand
  <2> QED
    BY <2>2
<1> QED
  BY <1>1, MemoryInvHolds, PTL DEF Spec, DecisionStands

----------------------------------------------------------------------------
(* The memory store.  A reviewer decides on copies that others may have    *)
(* replaced since; the store takes a command only where the rows still are *)
(* the copies, and every write raises the version of its row.  So a        *)
(* command is a step of the present table, and only a row in force can be  *)
(* replaced: once.                                                         *)

States == {"CANDIDATE", "APPROVED", "REJECTED", "SUPERSEDED", "EXPIRED", "DELETED"}
MemoryRecord ==
  [state: States, stateVersion: Nat \ {0}, version: Nat \ {0}, supersedes: MemoryIds \cup {NoId},
   scope: STRING, kind: STRING, created: Nat, expires: Nat, reviewed: Nat]
Decisions == {"approve", "reject", "expire", "delete", "correct"}
Writing == {"half", "written"}
Commanding == {"command"} \cup Writing
Client ==
  [at: {"idle", "read", "paired"} \cup Commanding, op: Decisions \cup {NoText}, id: MemoryIds \cup {NoId},
   copy: MemoryRecord \cup {Absent}, prior: MemoryRecord \cup {Absent},
   updated: MemoryRecord \cup {Absent}, superseded: MemoryRecord \cup {Absent}]

\* A record of the contracts, reviewed by now if its state says so
Settled(id, m, now) ==
  /\ m \in MemoryRecord /\ Valid(id, m)
  /\ m.created <= now /\ m.reviewed <= now
  /\ m.state = "CANDIDATE" => m.reviewed = Never
  /\ m.state = "SUPERSEDED" => m.reviewed # Never
RowSettled(id, m, now) == m = Absent \/ Settled(id, m, now)

\* What OneCurrentVersion says of a table, in parts
Reached(m) == m.reviewed # Never /\ m.state \in {"APPROVED", "SUPERSEDED", "EXPIRED"}
Over(m) == m.state \in {"SUPERSEDED", "DELETED"}
Lasting(m) == Reached(m) \/ m.state = "DELETED"
Replaced(m, p) == Over(p) /\ m.version = p.version + 1 /\ m.scope = p.scope
Corrected(table) ==
  \A i, j \in MemoryIds : Reached(table[j]) /\ table[j].supersedes = i => Replaced(table[j], table[i])
SoleCorrection(table) ==
  \A i, j, k \in MemoryIds :
    Reached(table[j]) /\ Reached(table[k]) /\ table[j].supersedes = i /\ table[k].supersedes = i => j = k
Succeeded(table) ==
  \A i \in MemoryIds : table[i].state = "SUPERSEDED" =>
    \E j \in MemoryIds : table[j].supersedes = i /\ Lasting(table[j])
TableOK(table, now) ==
  /\ table \in [MemoryIds -> MemoryRecord \cup {Absent}]
  /\ \A id \in MemoryIds : RowSettled(id, table[id], now)
  /\ Corrected(table) /\ SoleCorrection(table) /\ Succeeded(table)

\* A copy is the row it was read from, unless the row has moved on
Held(table, now, id, copy) ==
  /\ Settled(id, copy, now)
  /\ copy.stateVersion <= table[id].stateVersion
  /\ copy.stateVersion = table[id].stateVersion => table[id] = copy

\* What a write may do to a row
Follows(id, old, new, now) ==
  /\ Settled(id, new, now)
  /\ new.stateVersion = old.stateVersion + 1
  /\ new.supersedes = old.supersedes /\ new.version = old.version /\ new.scope = old.scope
  /\ Over(old) => Over(new)
  /\ Lasting(old) => Lasting(new)
\* A command for one record replaces nothing
PlannedAlone(c, now) ==
  /\ Follows(c.id, c.copy, c.updated, now)
  /\ c.updated.state # "SUPERSEDED"
  /\ Reached(c.updated) /\ c.updated.supersedes # NoId => Reached(c.copy)
PlannedPair(c, now) ==
  /\ c.copy.supersedes \in MemoryIds \ {c.id}
  /\ Follows(c.id, c.copy, c.updated, now) /\ c.copy.state = "CANDIDATE" /\ c.updated.state = "APPROVED"
  /\ Follows(c.copy.supersedes, c.prior, c.superseded, now)
  /\ c.prior.state = "APPROVED" /\ c.superseded.state = "SUPERSEDED"
  /\ Replaced(c.updated, c.superseded)
Planned(c, now) == IF c.op = "correct" THEN PlannedPair(c, now) ELSE PlannedAlone(c, now)
Paired(c) == c.at = "paired" \/ (c.at \in Commanding /\ c.op = "correct")
ClientOK(c, table, now) ==
  /\ c.at # "idle" => c.id \in MemoryIds /\ c.op \in Decisions /\ Held(table, now, c.id, c.copy)
  /\ c.at = "paired" => c.op = "correct"
  /\ Paired(c) => c.copy.supersedes \in MemoryIds /\ Held(table, now, c.copy.supersedes, c.prior)
  /\ c.at \in Commanding => Planned(c, now)

\* The table as a command will leave it, and the open transaction on the way there
After(table, c) ==
  [i \in MemoryIds |-> IF i \in Priors(c) THEN c.superseded ELSE IF i = c.id THEN c.updated ELSE table[i]]
Txn(r, rows) == [by |-> {r}, rows |-> rows]
OpenFor(r) ==
  LET c == client[r] IN
  /\ Unchanged(c)
  /\ c.at = "half" => Priors(c) # {} /\ staged = Txn(r, [memory EXCEPT ![c.id] = c.updated])
  /\ c.at = "written" => staged = Txn(r, After(memory, c))
TxnOK ==
  /\ staged = NoTxn \/ \E r \in Reviewers : staged.by = {r} /\ client[r].at \in Writing
  /\ \A r \in Reviewers : client[r].at \in Writing => OpenFor(r)

Clocked == clock \in Nat \ {0}
ClientsTyped == client \in [Reviewers -> Client]
ClientsOK == \A r \in Reviewers : ClientOK(client[r], memory, clock)
\* The inductive invariant
StoreInv == Clocked /\ TableOK(memory, clock) /\ ClientsTyped /\ ClientsOK /\ TxnOK

-----------------------------------------------------------------------------
(* Records and tables. *)

LEMMA SettledRecord ==
  ASSUME NEW id, NEW m, NEW now, Settled(id, m, now)
  PROVE  /\ m \in MemoryRecord /\ m # Absent /\ m.state \in States
         /\ m.stateVersion \in Nat /\ m.stateVersion >= 1 /\ m.version \in Nat /\ m.created \in Nat
         /\ m.expires \in Nat /\ m.reviewed \in Nat /\ m.supersedes \in MemoryIds \cup {NoId}
  BY DEF Settled, MemoryRecord, Absent, States

LEMMA SettledLasts ==
  ASSUME NEW id, NEW m, NEW now \in Nat, NEW later \in Nat, now <= later, Settled(id, m, now)
  PROVE  Settled(id, m, later)
  BY SettledRecord DEF Settled

LEMMA AbsentRow == ~Reached(Absent) /\ ~Over(Absent) /\ ~Lasting(Absent) /\ Absent.state # "SUPERSEDED"
                   /\ Absent.stateVersion = 0
  BY DEF Reached, Over, Lasting, Absent

\* A row goes on as it was proposed, and stays over or reached
Keeps(old, new) ==
  old = Absent \/
    /\ new.supersedes = old.supersedes /\ new.version = old.version /\ new.scope = old.scope
    /\ Over(old) => Over(new)
    /\ Lasting(old) => Lasting(new)

\* Writing one record that replaces nothing keeps the table
LEMMA WriteAlone ==
  ASSUME NEW table, NEW now, NEW id \in MemoryIds, NEW m, TableOK(table, now),
         Settled(id, m, now), Keeps(table[id], m), m.state # "SUPERSEDED",
         Reached(m) /\ m.supersedes # NoId => Reached(table[id])
  PROVE  TableOK([table EXCEPT ![id] = m], now)
  <1> DEFINE t == [table EXCEPT ![id] = m]
  <1>1. /\ table \in [MemoryIds -> MemoryRecord \cup {Absent}]
        /\ \A i \in MemoryIds : RowSettled(i, table[i], now)
        /\ Corrected(table) /\ SoleCorrection(table) /\ Succeeded(table)
    BY DEF TableOK
  <1>2. m \in MemoryRecord
    BY SettledRecord
  <1>3. t \in [MemoryIds -> MemoryRecord \cup {Absent}]
    BY <1>1, <1>2
  <1>4. t[id] = m /\ \A i \in MemoryIds : i # id => t[i] = table[i]
    BY <1>1
  <1> HIDE DEF t
  <1>5. ASSUME NEW i \in MemoryIds PROVE RowSettled(i, t[i], now)
    BY <1>1, <1>4 DEF RowSettled
  <1>6. \A i \in MemoryIds : i # NoId
    BY StoreAssumption
  <1>7. ASSUME NEW i \in MemoryIds, NEW j \in MemoryIds, Reached(t[j]), t[j].supersedes = i
        PROVE  Reached(table[j]) /\ table[j].supersedes = i
    <2>1. CASE j # id
      BY <1>4, <1>7, <2>1
    <2>2. CASE j = id
      <3>1. Reached(table[id])
        BY <1>4, <1>6, <1>7, <2>2
      <3>2. table[id] # Absent
        BY <3>1, AbsentRow
      <3> QED
        BY <1>4, <1>7, <2>2, <3>1, <3>2 DEF Keeps
    <2> QED
      BY <2>1, <2>2
  <1>8. ASSUME NEW i \in MemoryIds, Over(table[i])
        PROVE  Over(t[i]) /\ t[i].version = table[i].version /\ t[i].scope = table[i].scope
    BY <1>4, <1>8, AbsentRow DEF Keeps
  <1>9. ASSUME NEW i \in MemoryIds, NEW j \in MemoryIds, Reached(t[j]), t[j].supersedes = i
        PROVE  Replaced(t[j], t[i])
    <2>1. Reached(table[j]) /\ table[j].supersedes = i
      BY <1>7, <1>9
    <2>2. Replaced(table[j], table[i])
      BY <1>1, <2>1 DEF Corrected
    <2>3. t[j].version = table[j].version /\ t[j].scope = table[j].scope
      BY <1>4, <2>1, AbsentRow DEF Keeps
    <2> QED
      BY <1>8, <2>2, <2>3 DEF Replaced
  <1>10. Corrected(t)
    BY <1>9 DEF Corrected
  <1>11. SoleCorrection(t)
    BY <1>1, <1>7 DEF SoleCorrection
  <1>12. ASSUME NEW i \in MemoryIds, t[i].state = "SUPERSEDED"
         PROVE  \E j \in MemoryIds : t[j].supersedes = i /\ Lasting(t[j])
    <2>1. table[i].state = "SUPERSEDED"
      BY <1>4, <1>12
    <2>2. PICK j \in MemoryIds : table[j].supersedes = i /\ Lasting(table[j])
      BY <1>1, <2>1 DEF Succeeded
    <2>3. t[j].supersedes = i /\ Lasting(t[j])
      BY <1>4, <2>2, AbsentRow DEF Keeps
    <2> QED
      BY <2>3
  <1>13. Succeeded(t)
    BY <1>12 DEF Succeeded
  <1> QED
    BY <1>3, <1>5, <1>10, <1>11, <1>13 DEF TableOK, t

LEMMA FollowsKeeps ==
  ASSUME NEW id, NEW old, NEW new, NEW now, Follows(id, old, new, now)
  PROVE  Keeps(old, new) /\ Settled(id, new, now)
  BY DEF Follows, Keeps

LEMMA AfterRows ==
  ASSUME NEW table, NEW c, NEW now, PlannedPair(c, now), c.op = "correct"
  PROVE  /\ Priors(c) = {c.copy.supersedes} /\ c.copy.supersedes \in MemoryIds /\ c.copy.supersedes # c.id
         /\ After(table, c) = [i \in MemoryIds |-> IF i = c.copy.supersedes THEN c.superseded
                                                   ELSE IF i = c.id THEN c.updated ELSE table[i]]
  BY DEF PlannedPair, After, Priors

\* A correction and the end of the record it replaces, written together, keep the table
LEMMA WritePair ==
  ASSUME NEW table, NEW now, NEW c, TableOK(table, now), c.op = "correct", PlannedPair(c, now),
         c.id \in MemoryIds, table[c.id] = c.copy, table[c.copy.supersedes] = c.prior
  PROVE  TableOK(After(table, c), now)
  <1> DEFINE p == c.copy.supersedes
             t == After(table, c)
  <1>1. /\ table \in [MemoryIds -> MemoryRecord \cup {Absent}]
        /\ \A i \in MemoryIds : RowSettled(i, table[i], now)
        /\ Corrected(table) /\ SoleCorrection(table) /\ Succeeded(table)
    BY DEF TableOK
  <1>2. p \in MemoryIds /\ p # c.id
    BY DEF PlannedPair
  <1>3. /\ t \in [MemoryIds -> MemoryRecord \cup {Absent}]
        /\ t[p] = c.superseded /\ t[c.id] = c.updated
        /\ \A i \in MemoryIds : i \notin {p, c.id} => t[i] = table[i]
    <2>1. c.superseded \in MemoryRecord /\ c.updated \in MemoryRecord
      BY SettledRecord DEF PlannedPair, Follows
    <2> QED
      BY <1>1, <1>2, <2>1, AfterRows
  <1>4. /\ table[p].state = "APPROVED" /\ t[p].state = "SUPERSEDED"
        /\ table[c.id].state = "CANDIDATE" /\ t[c.id].state = "APPROVED"
        /\ Replaced(t[c.id], t[p]) /\ t[c.id].supersedes = p
        /\ Keeps(table[p], t[p]) /\ Keeps(table[c.id], t[c.id])
        /\ Settled(p, t[p], now) /\ Settled(c.id, t[c.id], now)
        /\ table[p] # Absent /\ table[c.id] # Absent
    BY <1>3, FollowsKeeps DEF PlannedPair, Follows, Absent
  <1>5. Reached(table[p]) /\ ~Over(table[p]) /\ ~Over(table[c.id]) /\ Over(t[p]) /\ Lasting(t[c.id])
    <2>1. RowSettled(p, table[p], now)
      BY <1>1, <1>2
    <2>2. table[p].reviewed # Never
      BY <1>4, <2>1 DEF RowSettled, Settled, Valid
    <2>3. t[c.id].reviewed # Never
      BY <1>4 DEF Settled, Valid
    <2> QED
      BY <1>4, <2>2, <2>3 DEF Reached, Over, Lasting
  <1>6. p # NoId
    BY <1>2, StoreAssumption
  <1> HIDE DEF p, t
  <1>7. \A i \in MemoryIds : Keeps(table[i], t[i])
    BY <1>3, <1>4 DEF Keeps
  <1>8. ASSUME NEW i \in MemoryIds PROVE RowSettled(i, t[i], now)
    BY <1>1, <1>3, <1>4 DEF RowSettled
  <1>9. ASSUME NEW i \in MemoryIds, NEW j \in MemoryIds, j # c.id, Reached(t[j]), t[j].supersedes = i
        PROVE  Reached(table[j]) /\ table[j].supersedes = i
    BY <1>3, <1>4, <1>5, <1>9 DEF Keeps
  <1>10. ASSUME NEW i \in MemoryIds, Over(table[i])
         PROVE  Over(t[i]) /\ t[i].version = table[i].version /\ t[i].scope = table[i].scope
    BY <1>7, <1>10, AbsentRow DEF Keeps
  <1>11. ASSUME NEW i \in MemoryIds, NEW j \in MemoryIds, Reached(t[j]), t[j].supersedes = i
         PROVE  Replaced(t[j], t[i])
    <2>1. CASE j = c.id
      BY <1>4, <1>11, <2>1
    <2>2. CASE j # c.id
      <3>1. Reached(table[j]) /\ table[j].supersedes = i
        BY <1>9, <1>11, <2>2
      <3>2. Replaced(table[j], table[i])
        BY <1>1, <3>1 DEF Corrected
      <3>3. t[j].version = table[j].version /\ t[j].scope = table[j].scope
        BY <1>7, <3>1, AbsentRow DEF Keeps
      <3> QED
        BY <1>10, <3>2, <3>3 DEF Replaced
    <2> QED
      BY <2>1, <2>2
  <1>12. Corrected(t)
    BY <1>11 DEF Corrected
  <1>13. ASSUME NEW j \in MemoryIds, Reached(t[j]), t[j].supersedes = p
         PROVE  j = c.id
    <2> SUFFICES ASSUME j # c.id PROVE FALSE
      OBVIOUS
    <2>1. Reached(table[j]) /\ table[j].supersedes = p
      BY <1>2, <1>9, <1>13
    <2>2. Replaced(table[j], table[p])
      BY <1>1, <1>2, <2>1 DEF Corrected, p
    <2> QED
      BY <1>5, <2>2 DEF Replaced
  <1>14. SoleCorrection(t)
    <2> SUFFICES ASSUME NEW i \in MemoryIds, NEW j \in MemoryIds, NEW k \in MemoryIds,
                        Reached(t[j]), Reached(t[k]), t[j].supersedes = i, t[k].supersedes = i
                 PROVE  j = k
      BY DEF SoleCorrection
    <2>1. CASE i = p
      BY <1>13, <2>1
    <2>2. CASE i # p
      <3>1. j # c.id /\ k # c.id
        BY <1>4, <2>2
      <3>2. /\ Reached(table[j]) /\ table[j].supersedes = i
            /\ Reached(table[k]) /\ table[k].supersedes = i
        BY <1>9, <3>1
      <3> QED
        BY <1>1, <3>2 DEF SoleCorrection
    <2> QED
      BY <2>1, <2>2
  <1>15. ASSUME NEW i \in MemoryIds, t[i].state = "SUPERSEDED"
         PROVE  \E j \in MemoryIds : t[j].supersedes = i /\ Lasting(t[j])
    <2>1. CASE i = p
      BY <1>4, <1>5, <2>1
    <2>2. CASE i # p
      <3>1. table[i].state = "SUPERSEDED"
        BY <1>3, <1>4, <1>15, <2>2
      <3>2. PICK j \in MemoryIds : table[j].supersedes = i /\ Lasting(table[j])
        BY <1>1, <3>1 DEF Succeeded
      <3>3. t[j].supersedes = i /\ Lasting(t[j])
        BY <1>7, <3>2, AbsentRow DEF Keeps
      <3> QED
        BY <3>3
    <2> QED
      BY <2>1, <2>2
  <1>16. Succeeded(t)
    BY <1>15 DEF Succeeded
  <1> QED
    BY <1>3, <1>8, <1>12, <1>14, <1>16 DEF TableOK, t

-----------------------------------------------------------------------------
(* What time and other writers leave of a copy. *)

\* A row of a later table is the row, or has a higher version
Advances(table, later) ==
  \A i \in MemoryIds : later[i] = table[i] \/ later[i].stateVersion > table[i].stateVersion

LEMMA TableVersions ==
  ASSUME NEW table, NEW now, TableOK(table, now), NEW i \in MemoryIds
  PROVE  table[i].stateVersion \in Nat
  <1>1. table[i] \in MemoryRecord \cup {Absent}
    BY DEF TableOK
  <1> QED
    BY <1>1 DEF MemoryRecord, Absent

LEMMA HeldLasts ==
  ASSUME NEW table, NEW now \in Nat, NEW later, NEW then \in Nat, now <= then,
         TableOK(table, now), TableOK(later, then), Advances(table, later),
         NEW id \in MemoryIds, NEW copy, Held(table, now, id, copy)
  PROVE  Held(later, then, id, copy)
  <1>1. Settled(id, copy, then) /\ copy.stateVersion \in Nat
    BY SettledLasts, SettledRecord DEF Held
  <1>2. table[id].stateVersion \in Nat /\ later[id].stateVersion \in Nat
    BY TableVersions
  <1>3. CASE later[id] = table[id]
    BY <1>1, <1>3 DEF Held
  <1>4. CASE later[id].stateVersion > table[id].stateVersion
    BY <1>1, <1>2, <1>4 DEF Held
  <1> QED
    BY <1>3, <1>4 DEF Advances

LEMMA FollowsLasts ==
  ASSUME NEW id, NEW old, NEW new, NEW now \in Nat, NEW then \in Nat, now <= then, Follows(id, old, new, now)
  PROVE  Follows(id, old, new, then)
  BY SettledLasts DEF Follows

LEMMA ClientLasts ==
  ASSUME NEW table, NEW now \in Nat, NEW later, NEW then \in Nat, now <= then,
         TableOK(table, now), TableOK(later, then), Advances(table, later),
         NEW c, ClientOK(c, table, now)
  PROVE  ClientOK(c, later, then)
  <1>1. c.at # "idle" => c.id \in MemoryIds /\ c.op \in Decisions /\ Held(later, then, c.id, c.copy)
    BY HeldLasts DEF ClientOK
  <1>2. Paired(c) => c.copy.supersedes \in MemoryIds /\ Held(later, then, c.copy.supersedes, c.prior)
    BY HeldLasts DEF ClientOK
  <1>3. c.at \in Commanding => Planned(c, then)
    <2>1. PlannedAlone(c, now) => PlannedAlone(c, then)
      BY FollowsLasts DEF PlannedAlone
    <2>2. PlannedPair(c, now) => PlannedPair(c, then)
      BY FollowsLasts DEF PlannedPair
    <2> QED
      BY <2>1, <2>2 DEF ClientOK, Planned
  <1> QED
    BY <1>1, <1>2, <1>3 DEF ClientOK

LEMMA RestingOK ==
  ASSUME NEW table, NEW now
  PROVE  Resting \in Client /\ ClientOK(Resting, table, now) /\ Resting.at \notin Writing
  <1>1. Resting \in Client
    BY DEF Resting, Client, NoText, NoId
  <1> QED
    BY <1>1 DEF Resting, ClientOK, Paired, Commanding, Writing

\* One reviewer's step outside a transaction
LEMMA ReviewerStep ==
  ASSUME StoreInv, NEW r \in Reviewers, NEW d \in Client, client' = [client EXCEPT ![r] = d],
         UNCHANGED <<clock, memory, staged>>, ClientOK(d, memory, clock),
         d.at \notin Writing, client[r].at \notin Writing
  PROVE  StoreInv'
  <1> USE DEF StoreInv
  <1>1. client \in [Reviewers -> Client]
    BY DEF ClientsTyped
  <1>2. Clocked' /\ TableOK(memory, clock)'
    BY DEF Clocked
  <1>3. client'[r] = d /\ \A q \in Reviewers : q # r => client'[q] = client[q]
    BY <1>1
  <1>4. ClientsTyped'
    BY <1>1 DEF ClientsTyped
  <1>5. ClientsOK'
    BY <1>3 DEF ClientsOK
  <1>6. ASSUME NEW q \in Reviewers, client'[q].at \in Writing PROVE OpenFor(q)'
    <2>1. client'[q] = client[q] /\ client[q].at \in Writing
      BY <1>3, <1>6
    <2>2. OpenFor(q)
      BY <2>1 DEF TxnOK
    <2> QED
      BY <2>1, <2>2 DEF OpenFor, Unchanged
  <1>7. staged' = NoTxn \/ \E q \in Reviewers : staged'.by = {q} /\ client'[q].at \in Writing
    BY <1>3 DEF TxnOK
  <1> QED
    BY <1>2, <1>4, <1>5, <1>6, <1>7 DEF TxnOK

LEMMA GetStep ==
  ASSUME StoreInv, NEW r \in Reviewers, NEW id \in MemoryIds, NEW op \in Decisions, Get(r, id, op)
  PROVE  StoreInv'
  <1> DEFINE c == client[r]
             d == [c EXCEPT !.at = "read", !.op = op, !.id = id, !.copy = memory[id]]
  <1>1. c \in Client /\ c.at = "idle"
    BY DEF StoreInv, ClientsTyped, Get
  <1>2. memory[id] \in MemoryRecord \cup {Absent} /\ memory[id] # Absent /\ Settled(id, memory[id], clock)
    BY DEF StoreInv, TableOK, RowSettled, Get
  <1>3. d \in Client /\ d.at = "read" /\ d.op = op /\ d.id = id /\ d.copy = memory[id]
    BY <1>1, <1>2 DEF Client
  <1>4. client' = [client EXCEPT ![r] = d] /\ UNCHANGED <<clock, memory, staged>>
    BY DEF Get
  <1> HIDE DEF d
  <1>5. memory[id].stateVersion \in Nat
    BY <1>2, SettledRecord
  <1>6. ClientOK(d, memory, clock)
    BY <1>2, <1>3, <1>5 DEF ClientOK, Paired, Commanding, Writing, Held
  <1> QED
    BY <1>1, <1>3, <1>4, <1>6, ReviewerStep DEF Writing

LEMMA GetPriorStep ==
  ASSUME StoreInv, NEW r \in Reviewers, GetPrior(r)
  PROVE  StoreInv'
  <1> DEFINE c == client[r]
             p == c.copy.supersedes
             d == [c EXCEPT !.at = "paired", !.prior = memory[p]]
  <1>1. c \in Client /\ c.at = "read" /\ c.op = "correct" /\ ClientOK(c, memory, clock)
    BY DEF StoreInv, ClientsTyped, ClientsOK, GetPrior
  <1>2. p \in MemoryIds
    BY <1>1, SettledRecord DEF GetPrior, ClientOK, Held
  <1>3. memory[p] \in MemoryRecord \cup {Absent} /\ Settled(p, memory[p], clock)
    BY <1>2 DEF StoreInv, TableOK, RowSettled, GetPrior
  <1>4. d \in Client /\ d.at = "paired" /\ d.op = c.op /\ d.id = c.id /\ d.copy = c.copy /\ d.prior = memory[p]
    BY <1>1, <1>3 DEF Client
  <1>5. client' = [client EXCEPT ![r] = d] /\ UNCHANGED <<clock, memory, staged>>
    BY DEF GetPrior
  <1> HIDE DEF d
  <1>6. memory[p].stateVersion \in Nat
    BY <1>3, SettledRecord
  <1>7. ClientOK(d, memory, clock)
    BY <1>1, <1>2, <1>3, <1>4, <1>6 DEF ClientOK, Paired, Commanding, Writing, Held
  <1> QED
    BY <1>1, <1>4, <1>5, <1>7, ReviewerStep DEF Writing

LEMMA Lifecycle ==
  ASSUME NEW m, NEW target, MayBecome(m, target)
  PROVE  /\ target \in {"APPROVED", "REJECTED"} => m.state = "CANDIDATE"
         /\ target = "SUPERSEDED" => m.state = "APPROVED"
         /\ target = "EXPIRED" => m.state \in {"CANDIDATE", "APPROVED"}
         /\ m.state # "DELETED" /\ target \in States
         /\ m.state = "SUPERSEDED" => target = "DELETED"
  BY DEF MayBecome, TRANSITIONS, States

LEMMA BecomingRecord ==
  ASSUME NEW m \in MemoryRecord, NEW target \in States
  PROVE  /\ Becoming(m, target) \in MemoryRecord
         /\ Becoming(m, target).state = target
         /\ Becoming(m, target).stateVersion = m.stateVersion + 1
         /\ Becoming(m, target).supersedes = m.supersedes /\ Becoming(m, target).version = m.version
         /\ Becoming(m, target).scope = m.scope /\ Becoming(m, target).kind = m.kind
         /\ Becoming(m, target).created = m.created /\ Becoming(m, target).expires = m.expires
         /\ Becoming(m, target).reviewed = m.reviewed
  <1> DEFINE v == m.stateVersion + 1
  <1>1. v \in Nat \ {0}
    BY DEF MemoryRecord
  <1>2. Becoming(m, target) = [m EXCEPT !.state = target, !.stateVersion = v]
    BY DEF Becoming
  <1> HIDE DEF v
  <1>3. [m EXCEPT !.state = target, !.stateVersion = v] \in MemoryRecord
    BY <1>1 DEF MemoryRecord
  <1>4. Becoming(m, target) \in MemoryRecord
    BY <1>2, <1>3
  <1> QED
    BY <1>2, <1>4 DEF MemoryRecord, v

LEMMA ReviewedRecord ==
  ASSUME NEW m \in MemoryRecord, NEW target \in States, NEW at \in Nat
  PROVE  /\ Reviewed(m, target, at) \in MemoryRecord
         /\ Reviewed(m, target, at).state = target
         /\ Reviewed(m, target, at).stateVersion = m.stateVersion + 1
         /\ Reviewed(m, target, at).supersedes = m.supersedes /\ Reviewed(m, target, at).version = m.version
         /\ Reviewed(m, target, at).scope = m.scope /\ Reviewed(m, target, at).kind = m.kind
         /\ Reviewed(m, target, at).created = m.created /\ Reviewed(m, target, at).expires = m.expires
         /\ Reviewed(m, target, at).reviewed = at
  <1> DEFINE b == Becoming(m, target)
  <1>1. b \in MemoryRecord
    BY BecomingRecord
  <1> HIDE DEF b
  <1>2. [b EXCEPT !.reviewed = at] \in MemoryRecord
    BY <1>1 DEF MemoryRecord
  <1>3. Reviewed(m, target, at) = [b EXCEPT !.reviewed = at]
    BY DEF Reviewed, b
  <1>4. /\ [b EXCEPT !.reviewed = at].state = b.state /\ [b EXCEPT !.reviewed = at].stateVersion = b.stateVersion
        /\ [b EXCEPT !.reviewed = at].supersedes = b.supersedes /\ [b EXCEPT !.reviewed = at].version = b.version
        /\ [b EXCEPT !.reviewed = at].scope = b.scope /\ [b EXCEPT !.reviewed = at].kind = b.kind
        /\ [b EXCEPT !.reviewed = at].created = b.created /\ [b EXCEPT !.reviewed = at].expires = b.expires
        /\ [b EXCEPT !.reviewed = at].reviewed = at
    BY <1>1 DEF MemoryRecord
  <1> QED
    BY <1>2, <1>3, <1>4, BecomingRecord DEF b

\* A review of a candidate, now
LEMMA ReviewFollows ==
  ASSUME NEW id, NEW m, NEW target \in {"APPROVED", "REJECTED"}, NEW now \in Nat \ {0},
         Settled(id, m, now), m.state = "CANDIDATE", Valid(id, Reviewed(m, target, now))
  PROVE  /\ Follows(id, m, Reviewed(m, target, now), now)
         /\ Reviewed(m, target, now) \in MemoryRecord
         /\ Reviewed(m, target, now).state = target
         /\ Reviewed(m, target, now).supersedes = m.supersedes
         /\ Reviewed(m, target, now).version = m.version /\ Reviewed(m, target, now).scope = m.scope
  <1>1. m \in MemoryRecord /\ target \in States /\ now \in Nat /\ m.created <= now
    BY DEF States, Settled
  <1> DEFINE u == Reviewed(m, target, now)
  <1>2. /\ u \in MemoryRecord /\ u.state = target /\ u.stateVersion = m.stateVersion + 1
        /\ u.supersedes = m.supersedes /\ u.version = m.version /\ u.scope = m.scope
        /\ u.created = m.created /\ u.reviewed = now
    BY <1>1, ReviewedRecord
  <1>3. Valid(id, u)
    OBVIOUS
  <1> HIDE DEF u
  <1>4. Settled(id, u, now)
    BY <1>1, <1>2, <1>3 DEF Settled, Never
  <1>5. ~Over(m) /\ ~Lasting(m)
    BY DEF Over, Lasting, Reached
  <1>6. Follows(id, m, u, now)
    BY <1>2, <1>4, <1>5 DEF Follows
  <1> QED
    BY <1>2, <1>6 DEF u

\* Any other step of the lifecycle
LEMMA BecomingFollows ==
  ASSUME NEW id, NEW m, NEW target \in {"EXPIRED", "DELETED", "SUPERSEDED"}, NEW now,
         Settled(id, m, now), MayBecome(m, target), Valid(id, Becoming(m, target)),
         target = "SUPERSEDED" => m.reviewed # Never
  PROVE  /\ Follows(id, m, Becoming(m, target), now)
         /\ Becoming(m, target) \in MemoryRecord
         /\ Becoming(m, target).state = target
         /\ Becoming(m, target).version = m.version /\ Becoming(m, target).scope = m.scope
         /\ Reached(Becoming(m, target)) => Reached(m)
  <1> DEFINE u == Becoming(m, target)
  <1>1. m \in MemoryRecord /\ target \in States
    BY DEF States, Settled
  <1>2. /\ u \in MemoryRecord /\ u.state = target /\ u.stateVersion = m.stateVersion + 1
        /\ u.supersedes = m.supersedes /\ u.version = m.version /\ u.scope = m.scope
        /\ u.created = m.created /\ u.reviewed = m.reviewed
    BY <1>1, BecomingRecord
  <1>3. Valid(id, u)
    OBVIOUS
  <1> HIDE DEF u
  <1>4. Settled(id, u, now)
    BY <1>1, <1>2, <1>3 DEF Settled
  <1>9. /\ target = "SUPERSEDED" => m.state = "APPROVED"
        /\ target = "EXPIRED" => m.state \in {"CANDIDATE", "APPROVED"}
        /\ m.state # "DELETED" /\ (m.state = "SUPERSEDED" => target = "DELETED")
        /\ m.state = "CANDIDATE" => m.reviewed = Never
    BY Lifecycle DEF Settled
  <1>5. Over(m) => Over(u)
    BY <1>2, <1>9 DEF Over
  <1>6. Lasting(m) => Lasting(u)
    BY <1>2, <1>9 DEF Lasting, Reached
  <1>7. Reached(u) => Reached(m)
    BY <1>2, <1>9 DEF Reached
  <1>8. Follows(id, m, u, now)
    BY <1>2, <1>4, <1>5, <1>6 DEF Follows
  <1> QED
    BY <1>2, <1>7, <1>8 DEF u

LEMMA DecideStep ==
  ASSUME StoreInv, NEW r \in Reviewers, Decide(r)
  PROVE  StoreInv'
  <1> DEFINE c == client[r]
             m == c.copy
             u == IF c.op \in {"approve", "reject"} THEN Reviewed(m, Target(c.op), clock)
                  ELSE Becoming(m, Target(c.op))
             d == [c EXCEPT !.at = "command", !.updated = u]
  <1>1. /\ c \in Client /\ c.at = "read" /\ c.op # "correct" /\ c.op \in Decisions
        /\ c.id \in MemoryIds /\ Held(memory, clock, c.id, m) /\ Settled(c.id, m, clock)
    BY DEF StoreInv, ClientsTyped, ClientsOK, ClientOK, Held, Decide, CallerChooses
  <1>2. Valid(c.id, u) /\ client' = [client EXCEPT ![r] = d] /\ UNCHANGED <<clock, memory, staged>>
    BY DEF Decide, CallerChooses
  <1>3. clock \in Nat \ {0}
    BY DEF StoreInv, Clocked
  <1>4. /\ u \in MemoryRecord /\ u.state # "SUPERSEDED" /\ Follows(c.id, m, u, clock)
        /\ Reached(u) /\ u.supersedes # NoId => Reached(m)
    <2>1. CASE c.op = "approve"
      <3>1. u = Reviewed(m, "APPROVED", clock) /\ MayBecome(m, "APPROVED") /\ m.supersedes = NoId
        BY <2>1 DEF Decide, CallerChooses, Decidable, Target
      <3>2. m.state = "CANDIDATE"
        BY <3>1, Lifecycle
      <3>3. /\ Follows(c.id, m, u, clock) /\ u \in MemoryRecord /\ u.state = "APPROVED"
            /\ u.supersedes = m.supersedes
        BY <1>1, <1>2, <1>3, <3>1, <3>2, ReviewFollows
      <3> QED
        BY <3>1, <3>3
    <2>2. CASE c.op = "reject"
      <3>1. u = Reviewed(m, "REJECTED", clock) /\ MayBecome(m, "REJECTED")
        BY <2>2 DEF Decide, CallerChooses, Decidable, Target
      <3>2. m.state = "CANDIDATE"
        BY <3>1, Lifecycle
      <3>3. Follows(c.id, m, u, clock) /\ u \in MemoryRecord /\ u.state = "REJECTED"
        BY <1>1, <1>2, <1>3, <3>1, <3>2, ReviewFollows
      <3> QED
        BY <3>3 DEF Reached
    <2>3. CASE c.op = "expire"
      <3>1. u = Becoming(m, "EXPIRED") /\ MayBecome(m, "EXPIRED")
        BY <2>3 DEF Decide, CallerChooses, Target
      <3> QED
        BY <1>1, <1>2, <3>1, BecomingFollows
    <2>4. CASE c.op = "delete"
      <3>1. u = Becoming(m, "DELETED") /\ MayBecome(m, "DELETED")
        BY <2>4 DEF Decide, CallerChooses, Target
      <3> QED
        BY <1>1, <1>2, <3>1, BecomingFollows
    <2> QED
      BY <1>1, <2>1, <2>2, <2>3, <2>4 DEF Decisions
  <1> HIDE DEF u
  <1>5. d \in Client /\ d.at = "command" /\ d.op = c.op /\ d.id = c.id /\ d.copy = m /\ d.updated = u
    BY <1>1, <1>4 DEF Client, Commanding
  <1> HIDE DEF d
  <1>6. PlannedAlone(d, clock)
    BY <1>4, <1>5 DEF PlannedAlone
  <1>7. ClientOK(d, memory, clock)
    BY <1>1, <1>5, <1>6 DEF ClientOK, Planned, Paired
  <1> QED
    BY <1>1, <1>2, <1>5, <1>7, ReviewerStep DEF Writing

LEMMA DecideCorrectionStep ==
  ASSUME StoreInv, NEW r \in Reviewers, DecideCorrection(r)
  PROVE  StoreInv'
  <1> DEFINE c == client[r]
             m == c.copy
             p == c.copy.supersedes
             u == Reviewed(m, "APPROVED", clock)
             s == Becoming(c.prior, "SUPERSEDED")
             d == [c EXCEPT !.at = "command", !.updated = u, !.superseded = s]
  <1>1. /\ c \in Client /\ c.at = "paired" /\ c.op = "correct" /\ c.id \in MemoryIds /\ p \in MemoryIds
        /\ Held(memory, clock, c.id, m) /\ Settled(c.id, m, clock)
        /\ Held(memory, clock, p, c.prior) /\ Settled(p, c.prior, clock)
    BY DEF StoreInv, ClientsTyped, ClientsOK, ClientOK, Paired, Held, DecideCorrection
  <1>2. client' = [client EXCEPT ![r] = d] /\ UNCHANGED <<clock, memory, staged>>
    BY DEF DecideCorrection
  <1>3. clock \in Nat \ {0}
    BY DEF StoreInv, Clocked
  <1>4. /\ p # c.id /\ m.scope = c.prior.scope /\ m.version = c.prior.version + 1
        /\ c.prior.reviewed # Never /\ MayBecome(c.prior, "SUPERSEDED") /\ MayBecome(m, "APPROVED")
        /\ ~NotInForce(m, clock) /\ (m.kind = "EPISODIC" => m.expires # Never)
    BY DEF DecideCorrection, Corrects, Decidable
  <1>5. c.prior.state = "APPROVED" /\ m.state = "CANDIDATE"
    BY <1>4, Lifecycle
  <1>6. Valid(c.id, u)
    <2>1. /\ u.state = "APPROVED" /\ u.supersedes = m.supersedes /\ u.version = m.version /\ u.kind = m.kind
          /\ u.created = m.created /\ u.expires = m.expires /\ u.reviewed = clock
      <3>1. m \in MemoryRecord /\ "APPROVED" \in States /\ clock \in Nat
        BY <1>1, <1>3 DEF Settled, States
      <3> QED
        BY <3>1, ReviewedRecord
    <2>2. m.created \in Nat /\ m.expires \in Nat /\ m.created <= clock /\ Valid(c.id, m)
      BY <1>1, SettledRecord DEF Settled
    <2> HIDE DEF u, m
    <2> QED
      BY <1>3, <1>4, <2>1, <2>2 DEF Valid, NotInForce, Never
  <1>7. Valid(p, s)
    <2>1. /\ s.state = "SUPERSEDED" /\ s.supersedes = c.prior.supersedes /\ s.version = c.prior.version
          /\ s.kind = c.prior.kind /\ s.created = c.prior.created /\ s.expires = c.prior.expires
          /\ s.reviewed = c.prior.reviewed
      BY <1>1, BecomingRecord DEF Settled, States
    <2>2. Valid(p, c.prior)
      BY <1>1 DEF Settled
    <2> HIDE DEF s
    <2> QED
      BY <2>1, <2>2 DEF Valid
  <1>8. /\ Follows(c.id, m, u, clock) /\ u \in MemoryRecord /\ u.state = "APPROVED"
        /\ u.version = m.version /\ u.scope = m.scope
    BY <1>1, <1>3, <1>5, <1>6, ReviewFollows
  <1>9. /\ Follows(p, c.prior, s, clock) /\ s \in MemoryRecord /\ s.state = "SUPERSEDED"
        /\ s.version = c.prior.version /\ s.scope = c.prior.scope
    BY <1>1, <1>4, <1>7, BecomingFollows
  <1> HIDE DEF u, s
  <1>10. /\ d \in Client /\ d.at = "command" /\ d.op = c.op /\ d.id = c.id /\ d.copy = m /\ d.prior = c.prior
         /\ d.updated = u /\ d.superseded = s
    <2> DEFINE e == [c EXCEPT !.at = "command", !.updated = u]
    <2>1. e \in Client /\ e.at = "command" /\ e.op = c.op /\ e.id = c.id /\ e.copy = m /\ e.prior = c.prior
          /\ e.updated = u
      BY <1>1, <1>8 DEF Client, Commanding
    <2>2. d = [e EXCEPT !.superseded = s]
      OBVIOUS
    <2> HIDE DEF e
    <2> QED
      BY <1>9, <2>1, <2>2 DEF Client
  <1> HIDE DEF d
  <1>11. Replaced(u, s)
    BY <1>4, <1>8, <1>9 DEF Replaced, Over
  <1>12. PlannedPair(d, clock)
    BY <1>1, <1>4, <1>5, <1>8, <1>9, <1>10, <1>11 DEF PlannedPair
  <1>13. ClientOK(d, memory, clock)
    BY <1>1, <1>10, <1>12 DEF ClientOK, Planned, Decisions
  <1> QED
    BY <1>1, <1>2, <1>10, <1>13, ReviewerStep DEF Writing

LEMMA StaleStep ==
  ASSUME StoreInv, NEW r \in Reviewers, Stale(r)
  PROVE  StoreInv'
  BY ReviewerStep, RestingOK DEF Stale, Writing

-----------------------------------------------------------------------------
(* The store's own steps. *)

LEMMA TickStep ==
  ASSUME StoreInv, Tick
  PROVE  StoreInv'
  <1>1. /\ clock \in Nat \ {0} /\ TableOK(memory, clock) /\ ClientsTyped /\ ClientsOK /\ TxnOK
        /\ clock' = clock + 1 /\ UNCHANGED <<memory, client, staged>>
    BY DEF StoreInv, Clocked, Tick
  <1>2. clock' \in Nat \ {0} /\ clock <= clock'
    BY <1>1
  <1>3. TableOK(memory, clock')
    <2>1. \A i \in MemoryIds : RowSettled(i, memory[i], clock')
      BY <1>1, <1>2, SettledLasts DEF TableOK, RowSettled
    <2> QED
      BY <1>1, <2>1 DEF TableOK
  <1>4. \A r \in Reviewers : ClientOK(client[r], memory, clock')
    <2>1. Advances(memory, memory)
      BY DEF Advances
    <2> QED
      BY <1>1, <1>2, <1>3, <2>1, ClientLasts DEF ClientsOK
  <1>5. TxnOK'
    BY <1>1 DEF TxnOK, OpenFor, Unchanged
  <1> QED
    BY <1>1, <1>2, <1>3, <1>4, <1>5 DEF StoreInv, Clocked, ClientsTyped, ClientsOK

LEMMA NobodyWrites ==
  ASSUME TxnOK, staged = NoTxn
  PROVE  \A r \in Reviewers : client[r].at \notin Writing
  <1> SUFFICES ASSUME NEW r \in Reviewers, client[r].at \in Writing PROVE FALSE
    OBVIOUS
  <1>1. OpenFor(r)
    BY DEF TxnOK
  <1>2. staged.by = {r}
    BY <1>1 DEF OpenFor, Txn, Writing
  <1> QED
    BY <1>2 DEF NoTxn

LEMMA CreateStep ==
  ASSUME StoreInv, NEW id \in MemoryIds, NEW d \in Drafts[id], CreateCandidate(id, NewRecord(d))
  PROVE  StoreInv'
  <1> DEFINE m == NewRecord(d)
             later == [memory EXCEPT ![id] = m]
  <1>1. /\ clock \in Nat \ {0} /\ TableOK(memory, clock) /\ ClientsTyped /\ ClientsOK /\ TxnOK
        /\ staged = NoTxn /\ memory[id] = Absent /\ Valid(id, m) /\ memory' = later
        /\ UNCHANGED <<clock, client, staged>>
    BY DEF StoreInv, Clocked, CreateCandidate
  <1>2. Settled(id, m, clock) /\ m.state = "CANDIDATE" /\ m.stateVersion = 1
    <2>1. d \in [version: Nat \ {0}, supersedes: MemoryIds \cup {NoId}, scope: STRING, kind: STRING, expires: Nat]
      BY StoreAssumption
    <2>2. m = [state |-> "CANDIDATE", stateVersion |-> 1, version |-> d.version, supersedes |-> d.supersedes,
               scope |-> d.scope, kind |-> d.kind, created |-> clock, expires |-> d.expires, reviewed |-> Never]
      BY DEF NewRecord
    <2>3. m \in MemoryRecord
      BY <1>1, <2>1, <2>2 DEF MemoryRecord, States, Never
    <2>4. Valid(id, m)
      BY <1>1
    <2> HIDE DEF m
    <2> QED
      BY <1>1, <2>2, <2>3, <2>4 DEF Settled, Never
  <1> HIDE DEF m
  <1>3. TableOK(later, clock)
    BY <1>1, <1>2, WriteAlone DEF Keeps, Reached
  <1>4. Advances(memory, later)
    <2>1. later[id] = m /\ \A i \in MemoryIds : i # id => later[i] = memory[i]
      BY <1>1 DEF TableOK
    <2> HIDE DEF later
    <2> QED
      BY <1>1, <1>2, <2>1, AbsentRow DEF Advances
  <1> HIDE DEF later
  <1>5. \A r \in Reviewers : ClientOK(client[r], later, clock)
    BY <1>1, <1>3, <1>4, ClientLasts DEF ClientsOK
  <1>6. \A r \in Reviewers : client'[r].at \notin Writing
    BY <1>1, NobodyWrites
  <1>7. TxnOK'
    BY <1>1, <1>6 DEF TxnOK
  <1> QED
    BY <1>1, <1>3, <1>5, <1>7 DEF StoreInv, Clocked, ClientsTyped, ClientsOK

LEMMA GiveUpStep ==
  ASSUME StoreInv, NEW r \in Reviewers, GiveUp(r)
  PROVE  StoreInv'
  <1>1. /\ Clocked /\ TableOK(memory, clock) /\ client \in [Reviewers -> Client] /\ ClientsOK /\ TxnOK
        /\ client' = [client EXCEPT ![r] = Resting] /\ UNCHANGED <<clock, memory>>
        /\ staged' = IF r \in staged.by THEN NoTxn ELSE staged
    BY DEF StoreInv, ClientsTyped, GiveUp
  <1>2. client'[r] = Resting /\ \A q \in Reviewers : q # r => client'[q] = client[q]
    BY <1>1
  <1>3. ClientsTyped' /\ ClientsOK'
    BY <1>1, <1>2, RestingOK DEF ClientsTyped, ClientsOK
  <1>4. ASSUME NEW q \in Reviewers, client'[q].at \in Writing PROVE OpenFor(q)'
    <2>1. q # r /\ client'[q] = client[q] /\ client[q].at \in Writing
      BY <1>2, <1>4, RestingOK
    <2>2. OpenFor(q)
      BY <1>1, <2>1 DEF TxnOK
    <2>3. staged.by = {q}
      BY <2>1, <2>2 DEF OpenFor, Txn, Writing
    <2>4. staged' = staged
      BY <1>1, <2>1, <2>3
    <2> QED
      BY <1>1, <2>1, <2>2, <2>4 DEF OpenFor, Unchanged
  <1>5. staged' = NoTxn \/ \E q \in Reviewers : staged'.by = {q} /\ client'[q].at \in Writing
    <2>1. CASE staged = NoTxn
      BY <1>1, <2>1
    <2>2. CASE staged # NoTxn
      <3>1. PICK q \in Reviewers : staged.by = {q} /\ client[q].at \in Writing
        BY <1>1, <2>2 DEF TxnOK
      <3> QED
        BY <1>1, <1>2, <3>1
    <2> QED
      BY <2>1, <2>2
  <1> QED
    BY <1>1, <1>3, <1>4, <1>5 DEF StoreInv, Clocked, TxnOK

\* What a reviewer holds while its command goes from one place to the next
Placed(c, at) == [c EXCEPT !.at = at]

LEMMA PlacedFacts ==
  ASSUME NEW c \in Client, NEW at \in Commanding
  PROVE  /\ Placed(c, at) \in Client /\ Placed(c, at).at = at /\ Placed(c, at).op = c.op
         /\ Placed(c, at).id = c.id /\ Placed(c, at).copy = c.copy /\ Placed(c, at).prior = c.prior
         /\ Placed(c, at).updated = c.updated /\ Placed(c, at).superseded = c.superseded
         /\ Priors(Placed(c, at)) = Priors(c) /\ Unchanged(Placed(c, at)) = Unchanged(c)
         /\ \A table : After(table, Placed(c, at)) = After(table, c)
  <1>1. /\ Placed(c, at) \in Client /\ Placed(c, at).at = at /\ Placed(c, at).op = c.op
        /\ Placed(c, at).id = c.id /\ Placed(c, at).copy = c.copy /\ Placed(c, at).prior = c.prior
        /\ Placed(c, at).updated = c.updated /\ Placed(c, at).superseded = c.superseded
    BY DEF Placed, Client
  <1>2. Priors(Placed(c, at)) = Priors(c)
    BY <1>1 DEF Priors
  <1>3. Unchanged(Placed(c, at)) = Unchanged(c)
    BY <1>1, <1>2, Zenon DEF Unchanged
  <1>4. \A table : After(table, Placed(c, at)) = After(table, c)
    BY <1>1, <1>2, Zenon DEF After
  <1> QED
    BY <1>1, <1>2, <1>3, <1>4

LEMMA PlacedOK ==
  ASSUME NEW c \in Client, NEW at \in Commanding, NEW table, NEW now, c.at \in Commanding, ClientOK(c, table, now)
  PROVE  ClientOK(Placed(c, at), table, now)
  <1> DEFINE d == Placed(c, at)
  <1>1. /\ d.at \in Commanding /\ d.op = c.op /\ d.id = c.id /\ d.copy = c.copy /\ d.prior = c.prior
        /\ d.updated = c.updated /\ d.superseded = c.superseded
    BY PlacedFacts
  <1> HIDE DEF d
  <1>2. /\ c.id \in MemoryIds /\ c.op \in Decisions /\ Held(table, now, c.id, c.copy) /\ Planned(c, now)
        /\ c.op = "correct" => c.copy.supersedes \in MemoryIds /\ Held(table, now, c.copy.supersedes, c.prior)
    BY DEF ClientOK, Paired, Commanding, Writing
  <1>3. Planned(d, now)
    BY <1>1, <1>2 DEF Planned, PlannedAlone, PlannedPair
  <1>4. d.at # "paired"
    BY <1>1 DEF Commanding, Writing
  <1>5. ClientOK(d, table, now)
    BY <1>1, <1>2, <1>3, <1>4 DEF ClientOK, Paired
  <1> QED
    BY <1>5 DEF d

\* The transaction of r opens or goes on
LEMMA TransactionStep ==
  ASSUME StoreInv, NEW r \in Reviewers, NEW at \in Writing, client[r].at \in Commanding,
         client' = [client EXCEPT ![r] = Placed(client[r], at)], UNCHANGED <<clock, memory>>,
         staged'.by = {r}, \A q \in Reviewers \ {r} : client[q].at \notin Writing,
         Unchanged(client[r]),
         at = "half" => Priors(client[r]) # {}
           /\ staged' = Txn(r, [memory EXCEPT ![client[r].id] = client[r].updated]),
         at = "written" => staged' = Txn(r, After(memory, client[r]))
  PROVE  StoreInv'
  <1> DEFINE c == client[r]
             d == Placed(client[r], at)
  <1>1. /\ Clocked /\ TableOK(memory, clock) /\ client \in [Reviewers -> Client] /\ c \in Client
        /\ ClientsOK /\ at \in Commanding
    BY DEF StoreInv, ClientsTyped, Commanding
  <1>2. client'[r] = d /\ \A q \in Reviewers : q # r => client'[q] = client[q]
    BY <1>1
  <1>3. /\ d \in Client /\ d.at = at /\ d.id = c.id /\ d.updated = c.updated /\ Priors(d) = Priors(c)
        /\ d.copy = c.copy /\ d.prior = c.prior /\ After(memory, d) = After(memory, c)
    BY <1>1, PlacedFacts
  <1>4. ClientOK(d, memory, clock)
    BY <1>1, PlacedOK DEF ClientsOK
  <1> HIDE DEF d
  <1>5. ClientsTyped' /\ ClientsOK'
    <2>1. client' \in [Reviewers -> Client]
      BY <1>1, <1>3 DEF d
    <2>2. \A q \in Reviewers : ClientOK(client'[q], memory, clock)
      BY <1>1, <1>2, <1>4 DEF ClientsOK
    <2> QED
      BY <2>1, <2>2 DEF ClientsTyped, ClientsOK
  <1>6. OpenFor(r)'
    <2>1. /\ memory[d.id] = d.copy
          /\ \A p \in Priors(d) : memory[p] = d.prior
      BY <1>3 DEF Unchanged
    <2>2. /\ d.at = "half" => Priors(d) # {} /\ staged' = Txn(r, [memory EXCEPT ![d.id] = d.updated])
          /\ d.at = "written" => staged' = Txn(r, After(memory, d))
      BY <1>3
    <2>3. memory' = memory
      OBVIOUS
    <2> QED
      BY <1>2, <2>1, <2>2, <2>3, Zenon DEF OpenFor, Unchanged
  <1>7. \A q \in Reviewers : client'[q].at \in Writing => OpenFor(q)'
    BY <1>2, <1>6
  <1>8. \E q \in Reviewers : staged'.by = {q} /\ client'[q].at \in Writing
    BY <1>2, <1>3
  <1> QED
    BY <1>1, <1>5, <1>7, <1>8 DEF StoreInv, Clocked, TxnOK

LEMMA BeginWriteStep ==
  ASSUME StoreInv, NEW r \in Reviewers, BeginWrite(r)
  PROVE  StoreInv'
  <1> DEFINE c == client[r]
             at == IF Priors(c) = {} THEN "written" ELSE "half"
             rows == [memory EXCEPT ![c.id] = c.updated]
  <1>1. /\ c.at = "command" /\ staged = NoTxn /\ Unchanged(c) /\ staged' = Txn(r, rows)
        /\ client' = [client EXCEPT ![r] = Placed(c, at)] /\ UNCHANGED <<clock, memory>>
    BY DEF BeginWrite, Txn, Placed
  <1>2. at \in Writing /\ c.at \in Commanding
    BY <1>1 DEF Writing, Commanding
  <1>3. \A q \in Reviewers : client[q].at \notin Writing
    BY <1>1, NobodyWrites DEF StoreInv
  <1>4. staged'.by = {r}
    BY <1>1 DEF Txn
  <1>5. at = "half" => Priors(c) # {} /\ staged' = Txn(r, [memory EXCEPT ![c.id] = c.updated])
    BY <1>1
  <1>6. at = "written" => staged' = Txn(r, After(memory, c))
    <2> SUFFICES ASSUME Priors(c) = {} PROVE rows = After(memory, c)
      BY <1>1
    <2>1. memory = [i \in MemoryIds |-> memory[i]]
      BY DEF StoreInv, TableOK
    <2>2. After(memory, c) = [i \in MemoryIds |-> IF i = c.id THEN c.updated ELSE memory[i]]
      BY DEF After
    <2> QED
      BY <2>1, <2>2
  <1> HIDE DEF at, rows
  <1> QED
    BY <1>1, <1>2, <1>3, <1>4, <1>5, <1>6, TransactionStep

LEMMA SupersedePriorStep ==
  ASSUME StoreInv, NEW r \in Reviewers, SupersedePrior(r)
  PROVE  StoreInv'
  <1> DEFINE c == client[r]
             half == [memory EXCEPT ![c.id] = c.updated]
  <1>1. /\ c.at = "half" /\ UNCHANGED <<clock, memory>> /\ client' = [client EXCEPT ![r] = Placed(c, "written")]
        /\ staged' = [staged EXCEPT !.rows = [i \in MemoryIds |-> IF i \in Priors(c) THEN c.superseded ELSE @[i]]]
    BY DEF SupersedePrior, Placed
  <1>2. OpenFor(r) /\ TxnOK /\ memory = [i \in MemoryIds |-> memory[i]]
    BY <1>1 DEF StoreInv, TxnOK, TableOK, Writing
  <1>3. staged = Txn(r, half) /\ Unchanged(c)
    BY <1>1, <1>2 DEF OpenFor
  <1>4. staged' = Txn(r, [i \in MemoryIds |-> IF i \in Priors(c) THEN c.superseded ELSE half[i]])
    BY <1>1, <1>3 DEF Txn
  <1>5. [i \in MemoryIds |-> IF i \in Priors(c) THEN c.superseded ELSE half[i]] = After(memory, c)
    BY <1>2 DEF After
  <1>6. \A q \in Reviewers \ {r} : client[q].at \notin Writing
    <2> SUFFICES ASSUME NEW q \in Reviewers \ {r}, client[q].at \in Writing PROVE FALSE
      OBVIOUS
    <2>1. staged.by = {q}
      BY <1>2 DEF TxnOK, OpenFor, Txn, Writing
    <2> QED
      BY <1>3, <2>1 DEF Txn
  <1>7. staged' = Txn(r, After(memory, c)) /\ staged'.by = {r}
    BY <1>4, <1>5 DEF Txn
  <1>8. "written" \in Writing /\ c.at \in Commanding /\ "written" # "half"
    BY <1>1 DEF Writing, Commanding
  <1> QED
    BY <1>1, <1>3, <1>6, <1>7, <1>8, TransactionStep

\* The rows a planned command leaves are a table, and later
LEMMA AfterCommand ==
  ASSUME NEW table, NEW now \in Nat, TableOK(table, now), NEW c, ClientOK(c, table, now), c.at \in Commanding,
         table[c.id] = c.copy, \A p \in Priors(c) : table[p] = c.prior
  PROVE  TableOK(After(table, c), now) /\ Advances(table, After(table, c))
  <1> DEFINE later == After(table, c)
  <1>1. c.id \in MemoryIds /\ Planned(c, now) /\ table = [i \in MemoryIds |-> table[i]]
    BY DEF ClientOK, Commanding, Writing, TableOK
  <1>2. Settled(c.id, c.copy, now)
    BY DEF ClientOK, Commanding, Writing, Held
  <1>3. CASE c.op # "correct"
    <2>1. PlannedAlone(c, now) /\ Priors(c) = {}
      BY <1>1, <1>3 DEF Planned, Priors
    <2>2. later = [i \in MemoryIds |-> IF i = c.id THEN c.updated ELSE table[i]]
      BY <2>1 DEF After
    <2>3. later = [table EXCEPT ![c.id] = c.updated]
      BY <1>1, <2>2
    <2>4. Keeps(table[c.id], c.updated) /\ Settled(c.id, c.updated, now)
      BY <2>1, FollowsKeeps DEF PlannedAlone
    <2>5. TableOK(later, now)
      BY <1>1, <2>1, <2>3, <2>4, WriteAlone DEF PlannedAlone
    <2>6. c.updated.stateVersion = c.copy.stateVersion + 1 /\ c.copy.stateVersion \in Nat
      BY <1>2, <2>1, SettledRecord DEF PlannedAlone, Follows
    <2>7. Advances(table, later)
      BY <2>2, <2>6 DEF Advances
    <2> QED
      BY <2>5, <2>7
  <1>4. CASE c.op = "correct"
    <2> DEFINE p == c.copy.supersedes
    <2>1. PlannedPair(c, now)
      BY <1>1, <1>4 DEF Planned
    <2>2. /\ Priors(c) = {p} /\ p \in MemoryIds /\ p # c.id
          /\ later = [i \in MemoryIds |-> IF i = p THEN c.superseded ELSE IF i = c.id THEN c.updated ELSE table[i]]
      BY <1>4, <2>1, AfterRows
    <2>3. TableOK(later, now)
      BY <1>1, <1>4, <2>1, <2>2, WritePair
    <2>4. /\ c.updated.stateVersion = c.copy.stateVersion + 1 /\ c.copy.stateVersion \in Nat
          /\ c.superseded.stateVersion = c.prior.stateVersion + 1 /\ table[p] = c.prior
      BY <1>2, <2>1, <2>2, SettledRecord DEF PlannedPair, Follows
    <2>5. c.prior.stateVersion \in Nat
      BY <2>2, <2>4, TableVersions
    <2> HIDE DEF p, later
    <2>6. Advances(table, later)
      BY <2>2, <2>4, <2>5 DEF Advances
    <2> QED
      BY <2>3, <2>6 DEF later
  <1> QED
    BY <1>3, <1>4

LEMMA CommitStep ==
  ASSUME StoreInv, NEW r \in Reviewers, NEW arrives, Commit(r, arrives)
  PROVE  StoreInv'
  <1> DEFINE c == client[r]
             later == After(memory, c)
             d == IF arrives THEN Resting ELSE Placed(c, "command")
  <1>1. /\ Clocked /\ clock \in Nat /\ clock' = clock /\ TableOK(memory, clock) /\ ClientsOK /\ TxnOK
        /\ client \in [Reviewers -> Client] /\ c.at = "written" /\ memory' = staged.rows /\ staged' = NoTxn
        /\ client' = [client EXCEPT ![r] = d]
    BY DEF StoreInv, Clocked, ClientsTyped, Commit, Placed
  <1>2. staged = Txn(r, later) /\ Unchanged(c)
    BY <1>1 DEF TxnOK, OpenFor, Writing
  <1>3. memory' = later
    BY <1>1, <1>2 DEF Txn
  <1>4. TableOK(later, clock) /\ Advances(memory, later)
    <2>1. c.at \in Commanding /\ ClientOK(c, memory, clock)
      BY <1>1 DEF Commanding, Writing, ClientsOK
    <2> QED
      BY <1>1, <1>2, <2>1, AfterCommand DEF Unchanged
  <1>5. d \in Client /\ d.at \notin Writing /\ ClientOK(d, memory, clock)
    <2>1. CASE arrives
      BY <2>1, RestingOK
    <2>2. CASE ~arrives
      <3>1. /\ c \in Client /\ "command" \in Commanding /\ c.at \in Commanding
            /\ ClientOK(c, memory, clock)
        BY <1>1 DEF Commanding, Writing, ClientsOK
      <3>2. d = Placed(c, "command")
        BY <2>2
      <3>3. d \in Client /\ d.at = "command" /\ ClientOK(d, memory, clock)
        BY <3>1, <3>2, PlacedFacts, PlacedOK
      <3> QED
        BY <3>3 DEF Writing
    <2> QED
      BY <2>1, <2>2
  <1> HIDE DEF d, later
  <1>6. client'[r] = d /\ \A q \in Reviewers : q # r => client'[q] = client[q]
    BY <1>1
  <1>7. \A q \in Reviewers : ClientOK(client'[q], later, clock)
    <2>1. \A q \in Reviewers : ClientOK(client'[q], memory, clock)
      BY <1>1, <1>5, <1>6 DEF ClientsOK
    <2> QED
      BY <1>1, <1>4, <2>1, ClientLasts
  <1>8. \A q \in Reviewers : client'[q].at \notin Writing
    <2> SUFFICES ASSUME NEW q \in Reviewers, q # r, client[q].at \in Writing PROVE FALSE
      BY <1>5, <1>6
    <2>1. staged.by = {q}
      BY <1>1 DEF TxnOK, OpenFor, Txn, Writing
    <2> QED
      BY <1>2, <2>1 DEF Txn
  <1>9. ClientsTyped' /\ ClientsOK' /\ TxnOK'
    BY <1>1, <1>3, <1>5, <1>7, <1>8 DEF ClientsTyped, ClientsOK, TxnOK
  <1> QED
    BY <1>1, <1>3, <1>4, <1>9 DEF StoreInv, Clocked

-----------------------------------------------------------------------------
(* The invariant, and what follows from it. *)

LEMMA StoreInvInit == MemoryInit => StoreInv
  <1> SUFFICES ASSUME MemoryInit PROVE StoreInv
    OBVIOUS
  <1>1. /\ clock = 1 /\ staged = NoTxn /\ memory = [i \in MemoryIds |-> Absent]
        /\ client = [r \in Reviewers |-> Resting]
    BY DEF MemoryInit
  <1>2. TableOK(memory, clock)
    BY <1>1, AbsentRow DEF TableOK, RowSettled, Corrected, SoleCorrection, Succeeded
  <1>3. ClientsTyped /\ ClientsOK /\ \A r \in Reviewers : client[r].at \notin Writing
    BY <1>1, RestingOK DEF ClientsTyped, ClientsOK
  <1> QED
    BY <1>1, <1>2, <1>3 DEF StoreInv, Clocked, TxnOK

LEMMA StoreInvStep == StoreInv /\ [MemoryStep]_store => StoreInv'
  <1> SUFFICES ASSUME StoreInv, [MemoryStep]_store PROVE StoreInv'
    OBVIOUS
  <1>1. CASE Tick
    BY <1>1, TickStep
  <1>2. CASE \E id \in MemoryIds : \E d \in Drafts[id] : CreateCandidate(id, NewRecord(d))
    BY <1>2, CreateStep
  <1>3. ASSUME NEW r \in Reviewers,
               \/ \E id \in MemoryIds, op \in {"approve", "reject", "expire", "delete", "correct"} : Get(r, id, op)
               \/ GetPrior(r) \/ Decide(r) \/ DecideCorrection(r)
               \/ BeginWrite(r) \/ SupersedePrior(r) \/ Commit(r, TRUE) \/ Commit(r, FALSE) \/ Stale(r) \/ GiveUp(r)
        PROVE  StoreInv'
    <2>1. CASE \E id \in MemoryIds, op \in {"approve", "reject", "expire", "delete", "correct"} : Get(r, id, op)
      BY <2>1, GetStep DEF Decisions
    <2>2. CASE GetPrior(r) \/ Decide(r) \/ DecideCorrection(r) \/ Stale(r)
      BY <2>2, GetPriorStep, DecideStep, DecideCorrectionStep, StaleStep
    <2>3. CASE BeginWrite(r) \/ SupersedePrior(r) \/ GiveUp(r)
      BY <2>3, BeginWriteStep, SupersedePriorStep, GiveUpStep
    <2>4. CASE Commit(r, TRUE) \/ Commit(r, FALSE)
      BY <2>4, CommitStep, Zenon
    <2> QED
      BY <1>3, <2>1, <2>2, <2>3, <2>4
  <1>4. CASE UNCHANGED store
    BY <1>4 DEF store, StoreInv, Clocked, ClientsTyped, ClientsOK, TxnOK, OpenFor, Unchanged
  <1> QED
    BY <1>1, <1>2, <1>3, <1>4 DEF MemoryStep

\* Rows, copies, commands and the open transaction stay consistent: every copy a reviewer
\* holds is its row or an older version of it, every command is a step from its copies, and
\* the table keeps the chains of corrections.  (sqlite_store.py, persistence.py)
THEOREM StoreInvariant == MemorySpec => []StoreInv
  BY StoreInvInit, StoreInvStep, PTL DEF MemorySpec

LEMMA OneVersion == StoreInv => OneCurrentVersion
  <1> SUFFICES ASSUME StoreInv, NEW i \in MemoryIds
               PROVE  /\ memory[i].state = "SUPERSEDED" => Approved(i) \cup Deleted(i) # {}
                      /\ Cardinality(Approved(i)) <= 1
                      /\ \A j \in Approved(i) :
                           /\ memory[i].state \in {"SUPERSEDED", "DELETED"}
                           /\ memory[j].version = memory[i].version + 1 /\ memory[j].scope = memory[i].scope
    BY DEF OneCurrentVersion
  <1>1. Corrected(memory) /\ SoleCorrection(memory) /\ Succeeded(memory)
    BY DEF StoreInv, TableOK
  <1>2. Approved(i) = {j \in MemoryIds : Reached(memory[j]) /\ memory[j].supersedes = i}
    BY DEF Approved, Reached
  <1>3. memory[i].state = "SUPERSEDED" => Approved(i) \cup Deleted(i) # {}
    <2> SUFFICES ASSUME memory[i].state = "SUPERSEDED" PROVE Approved(i) \cup Deleted(i) # {}
      OBVIOUS
    <2>1. PICK j \in MemoryIds : memory[j].supersedes = i /\ Lasting(memory[j])
      BY <1>1 DEF Succeeded
    <2>2. j \in Approved(i) \cup Deleted(i)
      BY <1>2, <2>1 DEF Lasting, Deleted
    <2> QED
      BY <2>2
  <1>4. Cardinality(Approved(i)) <= 1
    <2>1. \A j, k \in Approved(i) : j = k
      BY <1>1, <1>2 DEF SoleCorrection
    <2>2. CASE Approved(i) = {}
      <3>1. Cardinality({}) = 0
        BY FS_EmptySet
      <3> QED
        BY <2>2, <3>1
    <2>3. CASE Approved(i) # {}
      <3>1. PICK j : Approved(i) = {j}
        BY <2>1, <2>3
      <3>2. Cardinality({j}) = 1
        BY FS_Singleton
      <3> QED
        BY <3>1, <3>2
    <2> QED
      BY <2>2, <2>3
  <1>5. \A j \in Approved(i) : Replaced(memory[j], memory[i])
    BY <1>1, <1>2 DEF Corrected
  <1> QED
    BY <1>3, <1>4, <1>5 DEF Replaced, Over

LEMMA CopiesCurrent == StoreInv => VersionsIdentify
  BY DEF StoreInv, ClientsOK, ClientOK, Held, VersionsIdentify

LEMMA RecallSound == StoreInv => RecallIsReviewed
  <1> SUFFICES ASSUME StoreInv, NEW scope, NEW i \in MemoryIds, i \in Recalled(scope, clock)
               PROVE  /\ Valid(i, memory[i]) /\ memory[i].reviewed <= clock
                      /\ \A j \in Recalled(scope, clock) : memory[j].supersedes # i
    BY DEF RecallIsReviewed
  <1>1. memory[i].state = "APPROVED"
    BY DEF Recalled
  <1>2. Settled(i, memory[i], clock)
    BY <1>1 DEF StoreInv, TableOK, RowSettled, Absent
  <1>3. ASSUME NEW j \in Recalled(scope, clock), memory[j].supersedes = i PROVE FALSE
    <2>1. j \in MemoryIds /\ Reached(memory[j])
      BY DEF Recalled, Reached
    <2>2. Over(memory[i])
      BY <1>3, <2>1 DEF StoreInv, TableOK, Corrected, Replaced
    <2> QED
      BY <1>1, <2>2 DEF Over
  <1> QED
    BY <1>2, <1>3 DEF Settled

\* Of a memory and its corrections one version is recalled: a correction in force has ended
\* the record it replaces in the same commit, two corrections of one record never both win,
\* and a decision taken on a copy with the present version is taken on the present row.
\* (commit_cas, commit_correction_atomic, is_recallable)
THEOREM RuntimeStoreIsCurrent == MemorySpec => []StoreIsCurrent
  <1>1. StoreInv => StoreIsCurrent
    BY OneVersion, CopiesCurrent, RecallSound DEF StoreIsCurrent
  <1> QED
    BY <1>1, StoreInvariant, PTL

----------------------------------------------------------------------------
(* The evidence of Coach results.  A request names the claims it saw in    *)
(* its snapshot and those it inserts, and no others.  The table only       *)
(* grows, so what it saw is there when it commits, and what it inserts     *)
(* becomes visible with the result that names it or not at all.            *)

RunStates == {"none", "ACTIVE", "REVOKED"}
CoachTxn ==
  [kind: {"none", "start", "ask"},
   pc: {"idle", "published", "calling", "persisting", "answered", "faulted", "failed", "crashed"},
   run: RunStates, sees: SUBSET STRING, claims: Seq([type: STRING, key: STRING]),
   records: Seq(STRING), inserted: SUBSET STRING]

\* A request names nothing before its answer, and then what it saw and what it inserted
CoachTxnOK(t, table) ==
  /\ t \in CoachTxn /\ t.sees \subseteq table
  /\ t.pc \in {"published", "calling"} => t.records = <<>> /\ t.inserted = {}
  /\ t.pc = "persisting" =>
       t.inserted \subseteq Range(t.records) /\ Range(t.records) \subseteq t.sees \cup t.inserted

TxnsOK == \A r \in CoachRequests : CoachTxnOK(txns[r], claimTable)
Typed ==
  /\ coachRun \in RunStates /\ claimTable \subseteq STRING
  /\ txns \in [CoachRequests -> CoachTxn]
\* Who was answered has a result
Answered(table) == \A r \in CoachRequests : txns[r].pc = "answered" => \E x \in table : x.by = r
\* The inductive invariant
EvidenceInv == Typed /\ TxnsOK /\ EvidenceIsWhole /\ Answered(results)

-----------------------------------------------------------------------------
(* One request's step. *)

LEMMA TxnLasts ==
  ASSUME NEW t, NEW table, NEW later, CoachTxnOK(t, table), table \subseteq later
  PROVE  CoachTxnOK(t, later)
  BY DEF CoachTxnOK

LEMMA RequestStep ==
  ASSUME EvidenceInv, NEW r \in CoachRequests, NEW d, txns' = [txns EXCEPT ![r] = d],
         CoachTxnOK(d, claimTable'), claimTable \subseteq claimTable', claimTable' \subseteq STRING,
         coachRun' \in RunStates,
         results \subseteq results', d.pc = "answered" => \E x \in results' : x.by = r,
         EvidenceIsWhole'
  PROVE  EvidenceInv'
  <1>1. Typed /\ TxnsOK /\ Answered(results)
    BY DEF EvidenceInv
  <1>2. txns'[r] = d /\ \A q \in CoachRequests : q # r => txns'[q] = txns[q]
    BY <1>1 DEF Typed
  <1>3. Typed'
    BY <1>1 DEF Typed, CoachTxnOK
  <1>4. \A q \in CoachRequests : CoachTxnOK(txns'[q], claimTable')
    BY <1>1, <1>2, TxnLasts DEF TxnsOK
  <1>6. Answered(results)'
    BY <1>1, <1>2 DEF Answered
  <1> QED
    BY <1>3, <1>4, <1>6 DEF EvidenceInv, TxnsOK

\* The same when nothing is committed
LEMMA QuietStep ==
  ASSUME EvidenceInv, NEW r \in CoachRequests, NEW d, txns' = [txns EXCEPT ![r] = d],
         CoachTxnOK(d, claimTable), UNCHANGED <<claimTable, results>>,
         coachRun' \in RunStates, d.pc # "answered"
  PROVE  EvidenceInv'
  <1>1. EvidenceIsWhole' /\ claimTable' \subseteq STRING
    BY DEF EvidenceInv, EvidenceIsWhole, Typed
  <1> QED
    BY <1>1, RequestStep

LEMMA FreshTxn ==
  /\ Fresh \in CoachTxn /\ Fresh.sees = {} /\ Fresh.records = <<>> /\ Fresh.inserted = {} /\ Fresh.claims = <<>>
  /\ Fresh.pc = "idle"
  <1>1. <<>> \in Seq([type: STRING, key: STRING]) /\ <<>> \in Seq(STRING)
    BY EmptySeq
  <1> QED
    BY <1>1 DEF Fresh, CoachTxn, RunStates

LEMMA BegunTxn ==
  ASSUME NEW kind \in {"start", "ask"}, NEW pc \in {"published", "answered"}, NEW table
  PROVE  /\ CoachTxnOK([Fresh EXCEPT !.kind = kind, !.pc = pc], table)
         /\ [Fresh EXCEPT !.kind = kind, !.pc = pc].pc = pc
  <1> DEFINE d == [Fresh EXCEPT !.kind = kind, !.pc = pc]
  <1>1. /\ d \in CoachTxn /\ d.sees = {} /\ d.records = <<>> /\ d.inserted = {} /\ d.pc = pc
    BY FreshTxn DEF CoachTxn
  <1> HIDE DEF d
  <1>2. CoachTxnOK(d, table)
    BY <1>1 DEF CoachTxnOK
  <1> QED
    BY <1>1, <1>2 DEF d

LEMMA StartWithoutContextStep ==
  ASSUME EvidenceInv, NEW r \in CoachRequests, StartWithoutContext(r)
  PROVE  EvidenceInv'
  <1> DEFINE d == [Fresh EXCEPT !.kind = "start", !.pc = "answered"]
             x == [by |-> r, records |-> <<>>]
  <1>1. /\ coachRun = "none" /\ coachRun' = "ACTIVE" /\ results' = results \cup {x}
        /\ txns' = [txns EXCEPT ![r] = d] /\ claimTable' = claimTable
    BY DEF StartWithoutContext, Set
  <1>2. CoachTxnOK(d, claimTable) /\ d.pc = "answered"
    BY BegunTxn
  <1>3. x.by = r /\ x \in results' /\ Range(x.records) = {}
    BY <1>1 DEF Range
  <1> HIDE DEF d, x
  <1>4. EvidenceIsWhole'
    BY <1>1, <1>3 DEF EvidenceInv, EvidenceIsWhole
  <1>5. claimTable \subseteq STRING /\ coachRun' \in RunStates
    BY <1>1 DEF EvidenceInv, Typed, RunStates
  <1> QED
    BY <1>1, <1>2, <1>3, <1>4, <1>5, RequestStep

LEMMA StartStep ==
  ASSUME EvidenceInv, NEW r \in CoachRequests, StartCoach(r) \/ AskCoach(r)
  PROVE  EvidenceInv'
  <1>1. PICK kind \in {"start", "ask"} :
          /\ txns' = [txns EXCEPT ![r] = [Fresh EXCEPT !.kind = kind, !.pc = "published"]]
          /\ coachRun' \in {"ACTIVE", coachRun} /\ UNCHANGED <<claimTable, results>>
    BY DEF StartCoach, AskCoach, Set
  <1> DEFINE d == [Fresh EXCEPT !.kind = kind, !.pc = "published"]
  <1>2. CoachTxnOK(d, claimTable) /\ d.pc = "published"
    BY BegunTxn
  <1> HIDE DEF d
  <1>3. coachRun' \in RunStates /\ txns' = [txns EXCEPT ![r] = d]
    BY <1>1 DEF EvidenceInv, Typed, RunStates, d
  <1> QED
    BY <1>1, <1>2, <1>3, QuietStep

LEMMA ReadScopeStep ==
  ASSUME EvidenceInv, NEW r \in CoachRequests, ReadScope(r)
  PROVE  EvidenceInv'
  <1> DEFINE t == txns[r]
             pc == IF coachRun = "ACTIVE" THEN "calling" ELSE "faulted"
             d == [t EXCEPT !.run = coachRun, !.sees = claimTable, !.pc = pc]
  <1>1. /\ t \in CoachTxn /\ t.records = <<>> /\ t.inserted = {} /\ coachRun \in RunStates
        /\ claimTable \in SUBSET STRING
    BY DEF EvidenceInv, Typed, TxnsOK, CoachTxnOK, ReadScope
  <1>2. txns' = [txns EXCEPT ![r] = d] /\ UNCHANGED <<coachRun, claimTable, results>>
    BY DEF ReadScope, Set
  <1>3. pc \in {"calling", "faulted"}
    OBVIOUS
  <1> HIDE DEF pc
  <1>4. /\ d \in CoachTxn /\ d.sees = claimTable /\ d.records = <<>> /\ d.inserted = {} /\ d.pc = pc
    BY <1>1, <1>3 DEF CoachTxn
  <1> HIDE DEF d
  <1>5. CoachTxnOK(d, claimTable)
    BY <1>3, <1>4 DEF CoachTxnOK
  <1> QED
    BY <1>1, <1>2, <1>3, <1>4, <1>5, QuietStep

LEMMA RuntimeAnswersStep ==
  ASSUME EvidenceInv, NEW r \in CoachRequests, NEW claims \in CoachAnswers, RuntimeAnswers(r, claims)
  PROVE  EvidenceInv'
  <1> DEFINE t == txns[r]
             d == [t EXCEPT !.claims = claims, !.pc = "persisting"]
  <1>1. /\ t \in CoachTxn /\ t.records = <<>> /\ t.inserted = {} /\ t.sees \subseteq claimTable
        /\ coachRun \in RunStates
    BY DEF EvidenceInv, Typed, TxnsOK, CoachTxnOK, RuntimeAnswers
  <1>2. txns' = [txns EXCEPT ![r] = d] /\ UNCHANGED <<coachRun, claimTable, results>>
    BY DEF RuntimeAnswers, Set
  <1>3. claims \in Seq([type: STRING, key: STRING])
    BY AnswersAssumption
  <1>4. /\ d \in CoachTxn /\ d.sees = t.sees /\ d.records = <<>> /\ d.inserted = {} /\ d.pc = "persisting"
    BY <1>1, <1>3 DEF CoachTxn
  <1>5. Range(<<>>) = {}
    BY DEF Range
  <1> HIDE DEF d
  <1>6. CoachTxnOK(d, claimTable)
    BY <1>1, <1>4, <1>5 DEF CoachTxnOK
  <1> QED
    BY <1>1, <1>2, <1>4, <1>6, QuietStep

\* A request that has ended otherwise than with an answer keeps what it holds out of the records
LEMMA EndStep ==
  ASSUME EvidenceInv, NEW r \in CoachRequests, NEW pc \in {"faulted", "failed", "crashed"},
         NEW inserted \in SUBSET STRING,
         txns' = [txns EXCEPT ![r] = [txns[r] EXCEPT !.pc = pc, !.inserted = inserted]],
         UNCHANGED <<claimTable, results>>,
         coachRun' \in RunStates
  PROVE  EvidenceInv'
  <1> DEFINE t == txns[r]
             d == [t EXCEPT !.pc = pc, !.inserted = inserted]
  <1>1. t \in CoachTxn /\ t.sees \subseteq claimTable
    BY DEF EvidenceInv, Typed, TxnsOK, CoachTxnOK
  <1>2. d \in CoachTxn /\ d.sees = t.sees /\ d.pc = pc
    BY <1>1 DEF CoachTxn
  <1> HIDE DEF d
  <1>3. CoachTxnOK(d, claimTable)
    BY <1>1, <1>2 DEF CoachTxnOK
  <1>4. txns' = [txns EXCEPT ![r] = d]
    BY DEF d
  <1> QED
    BY <1>2, <1>3, <1>4, QuietStep

LEMMA FailureSteps ==
  ASSUME EvidenceInv, NEW r \in CoachRequests,
         \/ RuntimeFails(r) \/ DuplicateClaim(r) \/ DeadlockClaim(r) \/ Fault(r) \/ CrashCoach(r) \/ ResultFails(r)
  PROVE  EvidenceInv'
  <1> DEFINE t == txns[r]
  <1>1. t \in CoachTxn /\ coachRun \in RunStates
    BY DEF EvidenceInv, Typed
  <1>2. [t EXCEPT !.pc = "faulted"] = [t EXCEPT !.pc = "faulted", !.inserted = t.inserted]
    BY <1>1 DEF CoachTxn
  <1>3. [t EXCEPT !.pc = "failed"] = [t EXCEPT !.pc = "failed", !.inserted = t.inserted]
    BY <1>1 DEF CoachTxn
  <1>4. t.inserted \in SUBSET STRING /\ {} \in SUBSET STRING
    BY <1>1 DEF CoachTxn
  <1>5. CASE RuntimeFails(r)
    BY <1>1, <1>2, <1>4, <1>5, EndStep DEF RuntimeFails, Set
  <1>6. CASE DuplicateClaim(r) \/ DeadlockClaim(r)
    <2>1. /\ txns' = [txns EXCEPT ![r] = [t EXCEPT !.pc = "faulted", !.inserted = {}]]
          /\ UNCHANGED <<coachRun, claimTable, results>>
      BY <1>6 DEF DuplicateClaim, DeadlockClaim, LoseRace, Set
    <2> QED
      BY <1>1, <1>4, <2>1, EndStep
  <1>7. CASE Fault(r)
    BY <1>1, <1>3, <1>4, <1>7, EndStep DEF Fault, Set, Withdrawn, RunStates
  <1>8. CASE CrashCoach(r)
    BY <1>1, <1>4, <1>8, EndStep DEF CrashCoach, Set
  <1>9. CASE ResultFails(r)
    BY <1>1, <1>4, <1>9, EndStep DEF ResultFails, Set, RolledBack
  <1> QED
    BY <1>5, <1>6, <1>7, <1>8, <1>9

LEMMA Appended ==
  ASSUME NEW T, NEW s \in Seq(T), NEW e \in T
  PROVE  /\ Append(s, e) \in Seq(T) /\ Len(s) \in Nat
         /\ Len(Append(s, e)) = Len(s) + 1
         /\ \A i \in 1..Len(s) : Append(s, e)[i] = s[i]
         /\ Append(s, e)[Len(s) + 1] = e
  OBVIOUS

LEMMA RangeAppend ==
  ASSUME NEW T, NEW s \in Seq(T), NEW e \in T
  PROVE  Append(s, e) \in Seq(T) /\ Range(Append(s, e)) = Range(s) \cup {e}
  <1> DEFINE a == Append(s, e)
  <1>1. /\ a \in Seq(T) /\ Len(a) = Len(s) + 1 /\ Len(s) \in Nat
        /\ \A i \in 1..Len(s) : a[i] = s[i]
        /\ a[Len(s) + 1] = e
    BY Appended
  <1> HIDE DEF a
  <1>2. Range(a) = {a[i] : i \in 1..Len(a)}
    BY <1>1, RangeEquality
  <1>3. Range(s) = {s[i] : i \in 1..Len(s)}
    BY RangeEquality
  <1>4. 1..Len(a) = 1..Len(s) \cup {Len(s) + 1}
    BY <1>1
  <1>5. {a[i] : i \in 1..Len(a)} = {s[i] : i \in 1..Len(s)} \cup {e}
    BY <1>1, <1>4
  <1>6. Range(a) = Range(s) \cup {e}
    BY <1>2, <1>3, <1>5
  <1> QED
    BY <1>1, <1>6 DEF a

LEMMA ClaimKey ==
  ASSUME EvidenceInv, NEW r \in CoachRequests, Remaining(r)
  PROVE  NextKey(r) \in STRING
  <1>1. txns[r].claims \in Seq([type: STRING, key: STRING]) /\ txns[r].records \in Seq(STRING)
    BY DEF EvidenceInv, Typed, CoachTxn
  <1>2. Len(txns[r].records) + 1 \in 1..Len(txns[r].claims)
    BY <1>1 DEF Remaining
  <1>3. txns[r].claims[Len(txns[r].records) + 1] \in [type: STRING, key: STRING]
    BY <1>1, <1>2, ElementOfSeq
  <1> QED
    BY <1>3 DEF NextKey

LEMMA RecordStep ==
  ASSUME EvidenceInv, NEW r \in CoachRequests, ReuseClaim(r) \/ InsertClaim(r)
  PROVE  EvidenceInv'
  <1> DEFINE t == txns[r]
             key == NextKey(r)
             more == Append(t.records, key)
  <1>1. /\ t \in CoachTxn /\ t.records \in Seq(STRING) /\ t.inserted \in SUBSET STRING /\ t.sees \subseteq claimTable
        /\ t.pc = "persisting" /\ t.inserted \subseteq Range(t.records)
        /\ Range(t.records) \subseteq t.sees \cup t.inserted /\ coachRun \in RunStates
    BY DEF EvidenceInv, Typed, TxnsOK, CoachTxnOK, CoachTxn, ReuseClaim, InsertClaim, Remaining
  <1>2. key \in STRING
    BY ClaimKey DEF ReuseClaim, InsertClaim
  <1> HIDE DEF key
  <1>3. more \in Seq(STRING) /\ Range(more) = Range(t.records) \cup {key}
    BY <1>1, <1>2, RangeAppend
  <1> HIDE DEF more
  <1>4. CASE ReuseClaim(r)
    <2> DEFINE d == [t EXCEPT !.records = more]
    <2>1. txns' = [txns EXCEPT ![r] = d] /\ UNCHANGED <<coachRun, claimTable, results>>
      BY <1>4 DEF ReuseClaim, Set, Recorded, more, key
    <2>2. key \in t.sees \cup t.inserted
      BY <1>4 DEF ReuseClaim, KnownClaim, key
    <2>3. d \in CoachTxn /\ d.sees = t.sees /\ d.inserted = t.inserted /\ d.records = more /\ d.pc = t.pc
      BY <1>1, <1>3 DEF CoachTxn
    <2> HIDE DEF d
    <2>4. CoachTxnOK(d, claimTable)
      BY <1>1, <1>3, <2>2, <2>3 DEF CoachTxnOK
    <2> QED
      BY <1>1, <2>1, <2>3, <2>4, QuietStep
  <1>5. CASE InsertClaim(r)
    <2> DEFINE e == [t EXCEPT !.records = more]
               kept == t.inserted \cup {key}
               d == [e EXCEPT !.inserted = kept]
    <2>1. e \in CoachTxn /\ e.sees = t.sees /\ e.inserted = t.inserted /\ e.records = more /\ e.pc = t.pc
      BY <1>1, <1>3 DEF CoachTxn
    <2>2. kept \in SUBSET STRING /\ kept = t.inserted \cup {key}
      BY <1>1, <1>2
    <2>3. txns' = [txns EXCEPT ![r] = [e EXCEPT !.inserted = @ \cup {key}]]
          /\ UNCHANGED <<coachRun, claimTable, results>>
      BY <1>5 DEF InsertClaim, Set, Recorded, more, key
    <2>4. txns' = [txns EXCEPT ![r] = d]
      BY <2>1, <2>3
    <2> HIDE DEF e, kept
    <2>5. d \in CoachTxn /\ d.sees = t.sees /\ d.inserted = kept /\ d.records = more /\ d.pc = t.pc
      BY <2>1, <2>2 DEF CoachTxn
    <2> HIDE DEF d
    <2>6. CoachTxnOK(d, claimTable)
      BY <1>1, <1>3, <2>2, <2>5 DEF CoachTxnOK
    <2> QED
      BY <1>1, <2>3, <2>4, <2>5, <2>6, QuietStep
  <1> QED
    BY <1>4, <1>5

\* The commit: what the request inserted and the result that names it
LEMMA PersistResultStep ==
  ASSUME EvidenceInv, NEW r \in CoachRequests, PersistResult(r)
  PROVE  EvidenceInv'
  <1> DEFINE t == txns[r]
             d == [t EXCEPT !.pc = "answered", !.inserted = {}]
             x == [by |-> r, records |-> t.records]
             table == claimTable \cup t.inserted
  <1>1. /\ t \in CoachTxn /\ t.inserted \in SUBSET STRING /\ t.sees \subseteq claimTable /\ claimTable \subseteq STRING
        /\ t.inserted \subseteq Range(t.records) /\ Range(t.records) \subseteq t.sees \cup t.inserted
        /\ coachRun \in RunStates /\ claimTable = UNION {Range(y.records) : y \in results}
    BY DEF EvidenceInv, Typed, TxnsOK, CoachTxnOK, CoachTxn, PersistResult, EvidenceIsWhole
  <1>2. /\ claimTable' = table /\ results' = results \cup {x} /\ coachRun' = coachRun
        /\ txns' = [txns EXCEPT ![r] = d]
    BY DEF PersistResult, Set
  <1>3. d \in CoachTxn /\ d.sees = t.sees /\ d.pc = "answered"
    BY <1>1 DEF CoachTxn
  <1>4. x.by = r /\ Range(x.records) = Range(t.records)
    OBVIOUS
  <1>5. table = claimTable \cup Range(t.records)
    BY <1>1
  <1> HIDE DEF d, x
  <1>6. CoachTxnOK(d, claimTable')
    BY <1>1, <1>2, <1>3 DEF CoachTxnOK
  <1>7. UNION {Range(y.records) : y \in results \cup {x}} = claimTable \cup Range(x.records)
    BY <1>1
  <1>8. EvidenceIsWhole'
    BY <1>2, <1>4, <1>5, <1>7 DEF EvidenceIsWhole
  <1>9. x \in results' /\ claimTable' \subseteq STRING /\ claimTable \subseteq claimTable' /\ results \subseteq results'
    BY <1>1, <1>2
  <1> QED
    BY <1>1, <1>2, <1>3, <1>4, <1>6, <1>8, <1>9, RequestStep

LEMMA RevokeStep ==
  ASSUME EvidenceInv, RevokeCoachRun
  PROVE  EvidenceInv'
  <1>1. coachRun' = "REVOKED" /\ UNCHANGED <<claimTable, results, txns>>
    BY DEF RevokeCoachRun
  <1>2. Typed' /\ TxnsOK' /\ EvidenceIsWhole' /\ Answered(results)'
    BY <1>1 DEF EvidenceInv, Typed, RunStates, TxnsOK, EvidenceIsWhole, Answered
  <1> QED
    BY <1>2 DEF EvidenceInv

-----------------------------------------------------------------------------
(* The invariant, and what follows from it. *)

LEMMA EvidenceInvInit == CoachInit => EvidenceInv
  <1> SUFFICES ASSUME CoachInit PROVE EvidenceInv
    OBVIOUS
  <1>1. /\ coachRun \in {"none", "ACTIVE"} /\ claimTable = {} /\ results = {}
        /\ txns = [r \in CoachRequests |-> Fresh]
    BY DEF CoachInit
  <1>2. Typed
    BY <1>1, FreshTxn DEF Typed, RunStates
  <1>3. TxnsOK
    BY <1>1, FreshTxn DEF TxnsOK, CoachTxnOK
  <1>4. EvidenceIsWhole /\ Answered(results)
    BY <1>1, FreshTxn DEF EvidenceIsWhole, Answered
  <1> QED
    BY <1>2, <1>3, <1>4 DEF EvidenceInv

LEMMA EvidenceInvStep == EvidenceInv /\ [CoachNext]_evidence => EvidenceInv'
  <1> SUFFICES ASSUME EvidenceInv, [CoachNext]_evidence PROVE EvidenceInv'
    OBVIOUS
  <1>1. ASSUME NEW r \in CoachRequests,
               \/ StartWithoutContext(r) \/ StartCoach(r) \/ AskCoach(r) \/ ReadScope(r)
               \/ \E claims \in CoachAnswers : RuntimeAnswers(r, claims)
               \/ RuntimeFails(r)
               \/ ReuseClaim(r) \/ InsertClaim(r) \/ DuplicateClaim(r) \/ DeadlockClaim(r)
               \/ PersistResult(r) \/ ResultFails(r) \/ Fault(r) \/ CrashCoach(r)
        PROVE  EvidenceInv'
    BY <1>1, StartWithoutContextStep, StartStep, ReadScopeStep, RuntimeAnswersStep, FailureSteps, RecordStep,
       PersistResultStep
  <1>2. CASE RevokeCoachRun
    BY <1>2, RevokeStep
  <1>3. CASE UNCHANGED evidence
    BY <1>3 DEF evidence, EvidenceInv, Typed, TxnsOK, EvidenceIsWhole, Answered
  <1> QED
    BY <1>1, <1>2, <1>3 DEF CoachNext

\* Every request names only what it saw or inserts, claims and results are committed
\* together, and who was answered has a result.  (persist_coach_claim,
\* _persist_coach_evidence)
THEOREM EvidenceInvariant == CoachSpec => []EvidenceInv
  BY EvidenceInvInit, EvidenceInvStep, PTL DEF CoachSpec

LEMMA AnswersVisible == EvidenceInv => AnswersStayVisible
  <1> SUFFICES ASSUME EvidenceInv, \A x \in results : ~Repeats(x),
                      NEW r \in CoachRequests, txns[r].pc = "answered"
               PROVE  \E x \in History : x.by = r
    BY DEF AnswersStayVisible
  <1>1. ASSUME NEW x \in results PROVE Belongs(x)
    <2>1. Range(x.records) \subseteq claimTable
      BY DEF EvidenceInv, EvidenceIsWhole
    <2>2. Range(x.records) \cap claimTable = Range(x.records)
      BY <2>1
    <2>3. Cardinality(Range(x.records)) = Len(x.records)
      BY DEF Repeats
    <2> QED
      BY <2>2, <2>3 DEF Belongs
  <1>2. History = results
    BY <1>1 DEF History
  <1> QED
    BY <1>2 DEF EvidenceInv, Answered

\* Every claim record is named by a result and every record a result names exists, and an
\* answer that was shown stays in the history, whatever fails, crashes, deadlocks or loses a
\* race on a claim.  (_persist_coach_evidence, start_erp_coach, coach_run_detail)
THEOREM CoachEvidenceIsWhole == CoachSpec => []CoachRecordsAreWhole
  <1>1. EvidenceInv => CoachRecordsAreWhole
    BY AnswersVisible DEF EvidenceInv, CoachRecordsAreWhole
  <1> QED
    BY <1>1, EvidenceInvariant, PTL
=============================================================================
