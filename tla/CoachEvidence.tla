---------------------------- MODULE CoachEvidence ----------------------------
(***************************************************************************)
(* What the app keeps of a Coach answer (coach/service.py of the Frappe    *)
(* app, start_erp_coach, ask_coach and coach_run_detail of api.py): the    *)
(* Run, one claim record for each distinct claim, and one result that      *)
(* names them.                                                             *)
(*                                                                         *)
(* A request is a transaction under REPEATABLE READ: it reads the Run and  *)
(* the claims as they were at its first read, before the runtime call, and *)
(* inserts into a table whose unique key other requests fill meanwhile.    *)
(* start_erp_coach commits its Run before the call, so that the runtime    *)
(* can see it, and goes on in a second transaction.  A claim is            *)
(* [type, key]; the key is what the dedupe key digests: the text, the      *)
(* citations and the source revision, not the type.                        *)
(***************************************************************************)
EXTENDS Integers, Sequences, FiniteSets, Functions

CONSTANTS
  CoachRequests,  \* concurrent requests
  CoachAnswers    \* the validated claims an answer may hold; <<>> is a refusal

ASSUME AnswersAssumption == CoachAnswers \subseteq Seq([type: STRING, key: STRING])

VARIABLES
  coachRun,    \* the Run: "none", "ACTIVE" or "REVOKED", as committed
  claimTable,  \* keys of the committed claim records
  results,     \* committed results: [by, records], records one key for each claim
  txns         \* the requests

evidence == <<coachRun, claimTable, results, txns>>

Fresh == [kind |-> "none", pc |-> "idle", run |-> "none", sees |-> {}, claims |-> <<>>,
          records |-> <<>>, inserted |-> {}]
Set(r, t) == txns' = [txns EXCEPT ![r] = t]

\* A Run that was issued with its capability, or none yet
CoachInit ==
  /\ coachRun \in {"none", "ACTIVE"}
  /\ claimTable = {} /\ results = {}
  /\ txns = [r \in CoachRequests |-> Fresh]

---------------------------------------------------------------------------
\* start_erp_coach without a document: the Run and a refusal are committed together
StartWithoutContext(r) ==
  /\ txns[r].pc = "idle" /\ coachRun = "none"
  /\ coachRun' = "ACTIVE"
  /\ results' = results \cup {[by |-> r, records |-> <<>>]}
  /\ Set(r, [Fresh EXCEPT !.kind = "start", !.pc = "answered"])
  /\ UNCHANGED claimTable
\* start_erp_coach with one: the Run is published first
StartCoach(r) ==
  /\ txns[r].pc = "idle" /\ coachRun = "none"
  /\ coachRun' = "ACTIVE"
  /\ Set(r, [Fresh EXCEPT !.kind = "start", !.pc = "published"])
  /\ UNCHANGED <<claimTable, results>>
\* ask_coach needs the capability, which a published Run never hands out
AskCoach(r) ==
  /\ txns[r].pc = "idle" /\ coachRun # "none" /\ \A q \in CoachRequests : txns[q].kind # "start"
  /\ Set(r, [Fresh EXCEPT !.kind = "ask", !.pc = "published"])
  /\ UNCHANGED <<coachRun, claimTable, results>>

\* The first read: _run_scope and resolve_run
ReadScope(r) ==
  /\ txns[r].pc = "published"
  /\ Set(r, [txns[r] EXCEPT !.run = coachRun, !.sees = claimTable,
                            !.pc = IF coachRun = "ACTIVE" THEN "calling" ELSE "faulted"])
  /\ UNCHANGED <<coachRun, claimTable, results>>
\* The runtime answers, and the answer is valid (_call_coach_runtime, _validate_coach_answer)
RuntimeAnswers(r, claims) ==
  /\ txns[r].pc = "calling"
  /\ Set(r, [txns[r] EXCEPT !.claims = claims, !.pc = "persisting"])
  /\ UNCHANGED <<coachRun, claimTable, results>>
RuntimeFails(r) ==
  /\ txns[r].pc = "calling"
  /\ Set(r, [txns[r] EXCEPT !.pc = "faulted"])
  /\ UNCHANGED <<coachRun, claimTable, results>>

---------------------------------------------------------------------------
(***************************************************************************)
(* persist_coach_claim, claim by claim.                                    *)
(***************************************************************************)
Remaining(r) == txns[r].pc = "persisting" /\ Len(txns[r].records) < Len(txns[r].claims)
NextKey(r) == txns[r].claims[Len(txns[r].records) + 1].key
KnownClaim(r) == NextKey(r) \in txns[r].sees \cup txns[r].inserted
Holder(key, r) == {q \in CoachRequests \ {r} : key \in txns[q].inserted}
Recorded(t, key) == [t EXCEPT !.records = Append(@, key)]

\* _load_by_dedupe finds the record in what this transaction can see
ReuseClaim(r) ==
  /\ Remaining(r) /\ KnownClaim(r)
  /\ Set(r, Recorded(txns[r], NextKey(r)))
  /\ UNCHANGED <<coachRun, claimTable, results>>
InsertClaim(r) ==
  /\ Remaining(r) /\ ~KnownClaim(r)
  /\ NextKey(r) \notin claimTable /\ Holder(NextKey(r), r) = {}
  /\ Set(r, [Recorded(txns[r], NextKey(r)) EXCEPT !.inserted = @ \cup {NextKey(r)}])
  /\ UNCHANGED <<coachRun, claimTable, results>>

\* The winner of the race is outside this transaction's snapshot, and cannot be loaded
LoseRace(r) == Set(r, [txns[r] EXCEPT !.pc = "faulted", !.inserted = {}])
DuplicateClaim(r) ==
  /\ Remaining(r) /\ ~KnownClaim(r) /\ NextKey(r) \in claimTable
  /\ LoseRace(r)
  /\ UNCHANGED <<coachRun, claimTable, results>>
\* Two requests wait for each other's key: the database ends one of them
DeadlockClaim(r) ==
  /\ Remaining(r) /\ ~KnownClaim(r)
  /\ \E q \in Holder(NextKey(r), r) :
       Remaining(q) /\ ~KnownClaim(q) /\ r \in Holder(NextKey(q), q)
  /\ LoseRace(r)
  /\ UNCHANGED <<coachRun, claimTable, results>>

\* _persist_coach_result, and the commit at the end of the request
PersistResult(r) ==
  /\ txns[r].pc = "persisting" /\ ~Remaining(r)
  /\ claimTable' = claimTable \cup txns[r].inserted
  /\ results' = results \cup {[by |-> r, records |-> txns[r].records]}
  /\ Set(r, [txns[r] EXCEPT !.pc = "answered", !.inserted = {}])
  /\ UNCHANGED coachRun
Kept(r) == txns[r].inserted
RolledBack(r) == {}
\* The result is refused or cannot be inserted: the savepoint takes the claims with it
ResultFails(r) ==
  /\ txns[r].pc = "persisting" /\ ~Remaining(r)
  /\ claimTable' = claimTable \cup RolledBack(r)
  /\ Set(r, [txns[r] EXCEPT !.pc = "faulted", !.inserted = {}])
  /\ UNCHANGED <<coachRun, results>>

---------------------------------------------------------------------------
\* revoke_server_run: a Run that was published for a failed question is withdrawn.  If that
\* fails too it is rolled back, the error is answered all the same and the Run stays as it is
Withdrawn(r) == IF txns[r].kind = "start" THEN {"REVOKED", coachRun} ELSE {coachRun}
Fault(r) ==
  /\ txns[r].pc = "faulted"
  /\ coachRun' \in Withdrawn(r)
  /\ Set(r, [txns[r] EXCEPT !.pc = "failed"])
  /\ UNCHANGED <<claimTable, results>>
\* The worker dies: its transaction is rolled back, a published Run stays
CrashCoach(r) ==
  /\ txns[r].pc \in {"published", "calling", "persisting", "faulted"}
  /\ Set(r, [txns[r] EXCEPT !.pc = "crashed", !.inserted = {}])
  /\ UNCHANGED <<coachRun, claimTable, results>>
\* The initiator revokes or cancels the Run
RevokeCoachRun ==
  /\ coachRun = "ACTIVE" /\ coachRun' = "REVOKED"
  /\ UNCHANGED <<claimTable, results, txns>>

CoachNext ==
  \/ \E r \in CoachRequests :
       \/ StartWithoutContext(r) \/ StartCoach(r) \/ AskCoach(r) \/ ReadScope(r)
       \/ \E claims \in CoachAnswers : RuntimeAnswers(r, claims)
       \/ RuntimeFails(r)
       \/ ReuseClaim(r) \/ InsertClaim(r) \/ DuplicateClaim(r) \/ DeadlockClaim(r)
       \/ PersistResult(r) \/ ResultFails(r) \/ Fault(r) \/ CrashCoach(r)
  \/ RevokeCoachRun
CoachSpec == CoachInit /\ [][CoachNext]_evidence

---------------------------------------------------------------------------
\* _result_claims_belong_to_run: as many records as the result names
Belongs(result) ==
  Cardinality(Range(result.records) \cap claimTable) = Len(result.records)
\* coach_run_detail: one result that fails hides the history of the whole Run
History == IF \A x \in results : Belongs(x) THEN results ELSE {}

(***************************************************************************)
(* Properties.                                                             *)
(***************************************************************************)
\* Claims and results are kept together or not at all: every claim record is named by a
\* result, and every record a result names exists, whatever fails, crashes or loses a race
\* between the inserts.  (_persist_coach_evidence and its savepoints)
EvidenceIsWhole ==
  claimTable = UNION {Range(x.records) : x \in results}
\* An answer the user was shown stays in the history of its Run, as long as no answer of
\* the Run stated one text with one set of citations twice under two types: such an answer
\* names one record twice, and coach_run_detail refuses it.
\* (persist_coach_claim, _result_claims_belong_to_run)
Repeats(x) == Cardinality(Range(x.records)) # Len(x.records)
AnswersStayVisible ==
  (\A x \in results : ~Repeats(x)) =>
    \A r \in CoachRequests : txns[r].pc = "answered" => \E x \in History : x.by = r
\* Claims and results are kept together, an answer stays in the history
CoachRecordsAreWhole == EvidenceIsWhole /\ AnswersStayVisible
==============================================================================
