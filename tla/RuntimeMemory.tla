--------------------------- MODULE RuntimeMemory ---------------------------
(***************************************************************************)
(* The memories the runtime keeps in SQLite: agent_runtime/memory.  A      *)
(* reviewer reads exact records, decides on the copies with the pure       *)
(* functions of decisions.py, and hands the result to the store as a       *)
(* command of persistence.py, bound to the copies.  The store commits one  *)
(* command at a time (BEGIN IMMEDIATE), each row by compare-and-set, a     *)
(* correction and the record it replaces together; the process may die in  *)
(* between, an answer may be lost and the command be sent again.           *)
(*                                                                         *)
(* The callers are not in the repository.  They are taken to approve a     *)
(* correction with approve_correction and anything else with               *)
(* approve_candidate, to expire a record at its time, and to delete one.   *)
(***************************************************************************)
EXTENDS Integers, FiniteSets

CONSTANTS
  MemoryIds,  \* the ids of records
  Drafts,     \* what may be proposed under each: version, predecessor, scope, kind, expiry
  Reviewers,  \* clients of the store
  MaxTime     \* the clock stops there

\* An id no record has, a text that is not set
NoId == 0
NoText == "none"

ASSUME StoreAssumption ==
  /\ MemoryIds \subseteq Nat \ {NoId} /\ IsFiniteSet(MemoryIds)
  /\ \A id \in MemoryIds :
       Drafts[id] \subseteq [version: Nat \ {0}, supersedes: MemoryIds \cup {NoId}, scope: STRING,
                            kind: STRING, expires: Nat]
  /\ MaxTime \in Nat

VARIABLES
  clock,
  memory,   \* memory_records as committed, by id
  client,   \* what each reviewer holds
  staged    \* the open transaction: its owner and the rows as it will leave them

store == <<clock, memory, client, staged>>

Never == 0
Absent == [state |-> "ABSENT", stateVersion |-> 0, version |-> 0, supersedes |-> NoId, scope |-> NoText,
           kind |-> NoText, created |-> 0, expires |-> Never, reviewed |-> Never]
Resting == [at |-> "idle", op |-> NoText, id |-> NoId, copy |-> Absent, prior |-> Absent,
            updated |-> Absent, superseded |-> Absent]
NoTxn == [by |-> {}, rows |-> <<>>]

---------------------------------------------------------------------------
(***************************************************************************)
(* Contracts and decisions.                                                *)
(***************************************************************************)
TRANSITIONS ==
  [CANDIDATE |-> {"APPROVED", "REJECTED", "EXPIRED", "DELETED"},
   APPROVED |-> {"SUPERSEDED", "EXPIRED", "DELETED"},
   REJECTED |-> {"DELETED"}, SUPERSEDED |-> {"DELETED"}, EXPIRED |-> {"DELETED"}, DELETED |-> {}]
MayBecome(record, target) == record.state \in DOMAIN TRANSITIONS /\ target \in TRANSITIONS[record.state]
NotInForce(record, now) == record.expires # Never /\ now >= record.expires

\* MemoryRecord.validate_invariants, without what is about text
Valid(id, record) ==
  /\ record.expires # Never => record.created < record.expires
  /\ record.reviewed # Never => record.created <= record.reviewed
  /\ record.state \in {"APPROVED", "REJECTED"} => record.reviewed # Never
  /\ record.expires # Never /\ record.reviewed # Never => record.reviewed < record.expires
  /\ record.kind = "EPISODIC" /\ record.state = "APPROVED" => record.expires # Never
  /\ record.supersedes # NoId => record.supersedes # id /\ record.version >= 2
Becoming(record, target) == [record EXCEPT !.state = target, !.stateVersion = @ + 1]
Reviewed(record, target, at) == [Becoming(record, target) EXCEPT !.reviewed = at]

\* approve_candidate and reject_candidate, with reviewed_at and now the present
Decidable(record, target) ==
  /\ MayBecome(record, target) /\ ~NotInForce(record, clock)
  /\ target = "APPROVED" /\ record.kind = "EPISODIC" => record.expires # Never
\* approve_correction, with the checks AtomicCorrectionCommand repeats
Corrects(id, record, prior) ==
  /\ record.supersedes \notin {NoId, id}
  /\ record.scope = prior.scope /\ record.kind = prior.kind /\ record.version = prior.version + 1
  /\ prior.reviewed # Never /\ ~NotInForce(prior, clock)
  /\ MayBecome(prior, "SUPERSEDED")
  /\ Decidable(record, "APPROVED")

---------------------------------------------------------------------------
(***************************************************************************)
(* create_candidate: an id of its own, or one the store draws until it is  *)
(* free.  Nothing about a predecessor is looked up.                        *)
(***************************************************************************)
NewRecord(d) ==
  [state |-> "CANDIDATE", stateVersion |-> 1, version |-> d.version, supersedes |-> d.supersedes,
   scope |-> d.scope, kind |-> d.kind, created |-> clock, expires |-> d.expires, reviewed |-> Never]
CreateCandidate(id, record) ==
  /\ staged = NoTxn
  /\ memory[id] = Absent /\ Valid(id, record)
  /\ memory' = [memory EXCEPT ![id] = record]
  /\ UNCHANGED <<clock, client, staged>>

\* get_exact
Get(r, id, op) ==
  /\ client[r].at = "idle" /\ memory[id] # Absent
  /\ client' = [client EXCEPT ![r] = [@ EXCEPT !.at = "read", !.op = op, !.id = id, !.copy = memory[id]]]
  /\ UNCHANGED <<clock, memory, staged>>
GetPrior(r) ==
  LET c == client[r] IN
  /\ c.at = "read" /\ c.op = "correct" /\ c.copy.supersedes # NoId
  /\ memory[c.copy.supersedes] # Absent
  /\ client' = [client EXCEPT ![r] = [@ EXCEPT !.at = "paired", !.prior = memory[c.copy.supersedes]]]
  /\ UNCHANGED <<clock, memory, staged>>

\* The command: SingleRecordCasCommand or AtomicCorrectionCommand
Target(op) == [approve |-> "APPROVED", reject |-> "REJECTED", expire |-> "EXPIRED", delete |-> "DELETED"][op]
\* The callers' part, not the code's: approve_candidate would take a correction as well
CallerChooses(op, record) == op = "approve" => record.supersedes = NoId
Decide(r) ==
  LET c == client[r]
      record == IF c.op \in {"approve", "reject"} THEN Reviewed(c.copy, Target(c.op), clock)
                ELSE Becoming(c.copy, Target(c.op))
  IN
  /\ c.at = "read" /\ c.op # "correct" /\ CallerChooses(c.op, c.copy)
  /\ CASE c.op = "approve" -> Decidable(c.copy, "APPROVED")
       [] c.op = "reject" -> Decidable(c.copy, "REJECTED")
       [] c.op = "expire" -> NotInForce(c.copy, clock) /\ MayBecome(c.copy, "EXPIRED")
       [] c.op = "delete" -> MayBecome(c.copy, "DELETED")
  /\ Valid(c.id, record)
  /\ client' = [client EXCEPT ![r] = [@ EXCEPT !.at = "command", !.updated = record]]
  /\ UNCHANGED <<clock, memory, staged>>
DecideCorrection(r) ==
  LET c == client[r] IN
  /\ c.at = "paired" /\ Corrects(c.id, c.copy, c.prior)
  /\ client' = [client EXCEPT ![r] =
       [@ EXCEPT !.at = "command", !.updated = Reviewed(c.copy, "APPROVED", clock),
                 !.superseded = Becoming(c.prior, "SUPERSEDED")]]
  /\ UNCHANGED <<clock, memory, staged>>

---------------------------------------------------------------------------
(***************************************************************************)
(* commit_cas and commit_correction_atomic.                                *)
(***************************************************************************)
\* Mutant: a correction leaves its predecessor as it is
NoPriors(c) == {}
Priors(c) == IF c.op = "correct" THEN {c.copy.supersedes} ELSE {}
Unchanged(c) == memory[c.id] = c.copy /\ \A p \in Priors(c) : memory[p] = c.prior
BeginWrite(r) ==
  LET c == client[r] IN
  /\ c.at = "command" /\ staged = NoTxn /\ Unchanged(c)
  /\ staged' = [by |-> {r}, rows |-> [memory EXCEPT ![c.id] = c.updated]]
  /\ client' = [client EXCEPT ![r].at = IF Priors(c) = {} THEN "written" ELSE "half"]
  /\ UNCHANGED <<clock, memory>>
SupersedePrior(r) ==
  LET c == client[r] IN
  /\ c.at = "half"
  /\ staged' = [staged EXCEPT !.rows = [i \in MemoryIds |-> IF i \in Priors(c) THEN c.superseded ELSE @[i]]]
  /\ client' = [client EXCEPT ![r].at = "written"]
  /\ UNCHANGED <<clock, memory>>
\* The answer arrives, or it is lost and the command is sent again
Commit(r, arrives) ==
  /\ client[r].at = "written"
  /\ memory' = staged.rows /\ staged' = NoTxn
  /\ client' = [client EXCEPT ![r] = IF arrives THEN Resting ELSE [@ EXCEPT !.at = "command"]]
  /\ UNCHANGED clock
\* STALE_VERSION
Stale(r) ==
  /\ client[r].at = "command" /\ staged = NoTxn /\ ~Unchanged(client[r])
  /\ client' = [client EXCEPT ![r] = Resting]
  /\ UNCHANGED <<clock, memory, staged>>
\* A decision the functions refuse, a database that stays busy or fails, a process that dies:
\* an open transaction is rolled back
GiveUp(r) ==
  /\ client[r].at # "idle"
  /\ client' = [client EXCEPT ![r] = Resting]
  /\ staged' = IF r \in staged.by THEN NoTxn ELSE staged
  /\ UNCHANGED <<clock, memory>>
Tick == clock < MaxTime /\ clock' = clock + 1 /\ UNCHANGED <<memory, client, staged>>

\* recall_exact: is_recallable for one scope at a time
Recalled(scope, now) ==
  {i \in MemoryIds :
     /\ memory[i].state = "APPROVED" /\ memory[i].reviewed # Never /\ memory[i].reviewed <= now
     /\ ~NotInForce(memory[i], now) /\ memory[i].scope = scope}

---------------------------------------------------------------------------
MemoryInit ==
  /\ clock = 1 /\ staged = NoTxn
  /\ memory = [i \in MemoryIds |-> Absent]
  /\ client = [r \in Reviewers |-> Resting]
MemoryStep ==
  \/ Tick
  \/ \E id \in MemoryIds : \E d \in Drafts[id] : CreateCandidate(id, NewRecord(d))
  \/ \E r \in Reviewers :
       \/ \E id \in MemoryIds, op \in {"approve", "reject", "expire", "delete", "correct"} : Get(r, id, op)
       \/ GetPrior(r) \/ Decide(r) \/ DecideCorrection(r)
       \/ BeginWrite(r) \/ SupersedePrior(r) \/ Commit(r, TRUE) \/ Commit(r, FALSE) \/ Stale(r) \/ GiveUp(r)
MemorySpec == MemoryInit /\ [][MemoryStep]_store

---------------------------------------------------------------------------
(***************************************************************************)
(* Properties.                                                             *)
(***************************************************************************)
\* The corrections of a record that were approved; one that is deleted may have been
Approved(i) ==
  {j \in MemoryIds : memory[j].supersedes = i /\ memory[j].reviewed # Never
                     /\ memory[j].state \in {"APPROVED", "SUPERSEDED", "EXPIRED"}}
Deleted(i) == {j \in MemoryIds : memory[j].supersedes = i /\ memory[j].state = "DELETED"}
\* Of a memory and its corrections one version is recalled: a correction in force has ended its
\* predecessor in the same commit, and two corrections of one record never both win
OneCurrentVersion ==
  \A i \in MemoryIds :
    /\ memory[i].state = "SUPERSEDED" => Approved(i) \cup Deleted(i) # {}
    /\ Cardinality(Approved(i)) <= 1
    /\ \A j \in Approved(i) :
         /\ memory[i].state \in {"SUPERSEDED", "DELETED"}
         /\ memory[j].version = memory[i].version + 1 /\ memory[j].scope = memory[i].scope
\* A version number stands for one content: what a reviewer decides on a copy with the present
\* number is decided on the present record
VersionsIdentify ==
  \A r \in Reviewers :
    client[r].at # "idle" /\ memory[client[r].id].stateVersion = client[r].copy.stateVersion =>
      memory[client[r].id] = client[r].copy
\* What is recalled was reviewed while it was valid, although time passes between the
\* decision and its commit
RecallIsReviewed ==
  \A scope \in {"warehouse", "company"}, i \in MemoryIds :
    i \in Recalled(scope, clock) =>
      /\ Valid(i, memory[i]) /\ memory[i].reviewed <= clock
      /\ \A j \in Recalled(scope, clock) : memory[j].supersedes # i
\* Of a memory and its corrections one version is recalled, reviewed in time, and decisions are
\* made on what is stored
StoreIsCurrent == OneCurrentVersion /\ VersionsIdentify /\ RecallIsReviewed
=============================================================================
