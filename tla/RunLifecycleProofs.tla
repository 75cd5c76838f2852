------------------------- MODULE RunLifecycleProofs -------------------------
(***************************************************************************)
(* Proofs about RunLifecycle for any number of requests and Gateway calls, *)
(* every execution mode and any bound on the number of saves, and about    *)
(* what an analysis of a Run computes, ScopeAnalysis.                      *)
(***************************************************************************)
EXTENDS RunLifecycle, ScopeAnalysis, FiniteSetTheorems, SequenceTheorems, TLAPS

\* A Run that expired was closed as expired.
ExpiredIsClosed == run.status = "EXPIRED" => run.state = "EXPIRED"

\* What the row was when a request at some place loaded it.
LoadedFor(t) ==
    /\ t.at \in {"analyze", "resume", "cancel", "revoke", "plan", "planning",
                 "calling", "answered", "closeout"} => t.doc.status = "ACTIVE"
    /\ t.at = "analyze" => t.doc.state = "CREATED"
    /\ t.at = "cancel" => t.doc.state \in CancellableStates
    /\ t.at \in {"plan", "planning"} => t.doc.state = "PROPOSED"
    /\ t.at \in {"resume", "calling", "answered", "closeout", "terminal"} => t.doc.state = "ANALYZING"
    /\ t.at \in {"resume", "calling", "answered", "closeout"} => mode # "DETERMINISTIC"
    /\ t.at = "closing" => t.doc.state = IF mode = "DETERMINISTIC" THEN "CREATED" ELSE "ANALYZING"
    /\ t.at = "terminal" => \/ t.doc.status = "ACTIVE"
                            \/ t.doc.status = "REVOKED" /\ t.target = "FAILED"

LoadedRows == \A q \in Requests : LoadedFor(req[q])

\* A loaded row is no newer than the committed one; the same stamp means the
\* same row, the same state_version the same state and status.
RowsAge ==
    \A q \in Requests : req[q].at \notin {"idle", "done"} =>
        LET doc == req[q].doc IN
        /\ doc.stamp <= run.stamp
        /\ doc.stamp = run.stamp => doc = run
        /\ doc.version <= run.version
        /\ doc.version = run.version => doc.state = run.state /\ doc.status = run.status

\* The request that analysed a proposed Run has answered, and nobody else has
\* rows but those whose deletion failed; whoever has rows or a plan has answered.
OneAnalysis ==
    /\ IF run.state \in {"PROPOSED", "SUCCEEDED"} THEN \E q \in Requests : analyses \ residue = {q}
                                                  ELSE analyses \subseteq residue
    /\ \A q \in Requests : q \in analyses \cup residue \/ q = plan => req[q].at = "done"

\* A closeout, a plan and a reading handler hold the lock of the row.
LockHeld ==
    /\ \A q \in Requests : req[q].at \in {"closing", "planning"} => lock = q
    /\ \A g \in Calls : call[g].at = "reading" => lock = g

\* A workflow invocation is started once, by the call that reserved it, and
\* read once, by the same call.
ReservedOnce ==
    /\ mode # "PLAN_EXECUTE" => reads = 0
    /\ mode = "PLAN_EXECUTE" =>
          /\ reads <= 1
          /\ ledger = "NONE" => reads = 0
          /\ \A g \in Calls : call[g].at = "started" => ledger # "NONE" /\ reads = 0
          /\ \A g, h \in Calls : call[g].at = "started" /\ call[h].at = "started" => g = h

RowInv ==
    /\ TypeOK /\ ExpiredIsClosed /\ LoadedRows /\ RowsAge
    /\ OneAnalysis /\ PlanIffSucceeded /\ LockHeld /\ QuietWhileReading

-----------------------------------------------------------------------------
(* What a step of a request does, seen from the row. *)

Entries == [at : Places, doc : RunRows, resumed : BOOLEAN, target : {"FAILED", "CANCELLED", "EXPIRED"}]

\* How an entry of the request table and the committed row fit together.
Aged(t, row) ==
    t.at \notin {"idle", "done"} =>
        /\ t.doc.stamp <= row.stamp
        /\ t.doc.stamp = row.stamp => t.doc = row
        /\ t.doc.version <= row.version
        /\ t.doc.version = row.version => t.doc.state = row.state /\ t.doc.status = row.status

\* A save: a later stamp; a status that is no longer ACTIVE and a final state
\* are kept; whatever changes the state or the status has a later version.
Later(old, new) ==
    /\ new \in RunRows
    /\ old.stamp < new.stamp /\ old.version <= new.version
    /\ new.version = old.version => new.state = old.state /\ new.status = old.status
    /\ new.status # old.status => old.status = "ACTIVE"
    /\ new.state # old.state => old.state \notin TerminalStates
    /\ new.status = "EXPIRED" => new.state = "EXPIRED"

\* The rows are left alone.
KeepsRows == UNCHANGED rowVars

\* The Run is moved among the states without analysis rows, or keeps its state.
MovesRun ==
    /\ Later(run, run')
    /\ \/ run'.state = run.state
       \/ run.state \in CancellableStates /\ run'.state \notin {"PROPOSED", "SUCCEEDED"}

SavesRun == MovesRun /\ UNCHANGED <<analyses, plan, residue>>

\* The rows of one analysis are committed with the state PROPOSED.
SavesAnalysis(p) ==
    /\ Later(run, run')
    /\ run.state \in CancellableStates /\ run'.state = "PROPOSED"
    /\ analyses' = analyses \cup {p} /\ plan' = plan /\ residue' = residue

\* The plan is committed with the state SUCCEEDED.
SavesPlan(p) ==
    /\ Later(run, run')
    /\ run.state = "PROPOSED" /\ run'.state = "SUCCEEDED"
    /\ analyses' = analyses /\ plan = Nobody /\ plan' = p /\ residue' = residue

\* Rows of a failed analysis, or a plan that came too late, could not be deleted.
LeavesRows(p) ==
    /\ residue' = residue \cup {p}
    /\ \/ analyses' = analyses \cup {p} /\ plan' = plan /\ (run' = run \/ MovesRun)
       \/ plan = Nobody /\ plan' = p /\ UNCHANGED <<run, analyses>>

Commits(p) == SavesAnalysis(p) \/ SavesPlan(p) \/ LeavesRows(p)

\* The lock is kept, taken by a request that goes on, or given back.
MovesLock(p) ==
    \/ lock' = lock
    \/ lock = Nobody /\ lock' = p
    \/ lock = p /\ lock' = Nobody /\ req'[p].at = "done"

RequestMoves(p) ==
    /\ mode' = mode
    /\ req[p].at # "done"
    /\ \A q \in Requests \ {p} : req'[q] = req[q]
    /\ req' \in [Requests -> Entries]
    /\ LoadedFor(req'[p]) /\ Aged(req'[p], run')
    /\ KeepsRows \/ SavesRun \/ (Commits(p) /\ req'[p].at = "done")
    /\ MovesLock(p)
    /\ KeepsRows \/ lock = Nobody \/ (lock = p /\ req'[p].at = "done")
    /\ req'[p].at \in {"closing", "planning"} => lock' = p
    /\ req'[p].at = "closing" /\ mode # "DETERMINISTIC" =>
          /\ run'.status = "ACTIVE" /\ run'.state = "ANALYZING"
          /\ run'.version = req'[p].doc.version
    /\ capOver' \in BOOLEAN /\ overdue' \in BOOLEAN /\ handed' \subseteq Nat
    /\ UNCHANGED gatewayVars

-----------------------------------------------------------------------------
(* The pieces of an action. *)

LEMMA NewRunType == NewRun \in RunRows /\ Idle \in Entries
  BY DEF NewRun, RunRows, RunStates, Idle, Entries, Places

LEMMA FinishStep ==
    ASSUME TypeOK, NEW p \in Requests, Finish(p)
    PROVE  /\ req' \in [Requests -> Entries]
           /\ \A q \in Requests \ {p} : req'[q] = req[q]
           /\ req'[p].at = "done"
           /\ LoadedFor(req'[p]) /\ \A row : Aged(req'[p], row)
  <1>1. [Idle EXCEPT !.at = "done"] \in Entries /\ [Idle EXCEPT !.at = "done"].at = "done"
    BY NewRunType DEF Idle, Entries, Places
  <1>2. req \in [Requests -> Entries]
    BY DEF TypeOK, Entries
  <1>3. req'[p].at = "done" /\ req' \in [Requests -> Entries] /\ \A q \in Requests \ {p} : req'[q] = req[q]
    BY <1>1, <1>2 DEF Finish
  <1> QED
    BY <1>3 DEF LoadedFor, Aged

\* The new entry of a request that goes on.
LEMMA EntryStep ==
    ASSUME TypeOK, NEW p \in Requests, NEW t \in Entries, req' = [req EXCEPT ![p] = t]
    PROVE  /\ req' \in [Requests -> Entries]
           /\ \A q \in Requests \ {p} : req'[q] = req[q]
           /\ req'[p] = t
  BY DEF TypeOK, Entries

LEMMA GoStep ==
    ASSUME TypeOK, NEW p \in Requests, NEW place \in Places, Go(p, place)
    PROVE  /\ req' \in [Requests -> Entries]
           /\ \A q \in Requests \ {p} : req'[q] = req[q]
           /\ req'[p].at = place /\ req'[p].doc = req[p].doc
           /\ req'[p].target = req[p].target /\ req'[p].resumed = req[p].resumed
  <1>1. req[p] \in Entries /\ req \in [Requests -> Entries]
    BY DEF TypeOK, Entries
  <1>2. req' = [req EXCEPT ![p] = [req[p] EXCEPT !.at = place]]
    BY <1>1 DEF Go
  <1>3. [req[p] EXCEPT !.at = place] \in Entries
    BY <1>1 DEF Entries
  <1> QED
    BY <1>1, <1>2, <1>3 DEF Entries

LEMMA LoadStep ==
    ASSUME TypeOK, NEW p \in Requests, NEW place \in Places, Load(p, place)
    PROVE  /\ req' \in [Requests -> Entries]
           /\ \A q \in Requests \ {p} : req'[q] = req[q]
           /\ req'[p].at = place /\ req'[p].doc = run
           /\ req'[p].target = req[p].target /\ req'[p].resumed = req[p].resumed
  <1>1. req[p] \in Entries /\ req \in [Requests -> Entries] /\ run \in RunRows
    BY DEF TypeOK, Entries
  <1>2. req' = [req EXCEPT ![p] = [req[p] EXCEPT !.at = place, !.doc = run]]
    BY <1>1 DEF Load
  <1>3. [req[p] EXCEPT !.at = place, !.doc = run] \in Entries
    BY <1>1 DEF Entries
  <1> QED
    BY <1>1, <1>2, <1>3 DEF Entries

\* A request whose save is accepted has loaded the committed row.
LEMMA LatestIsRun ==
    ASSUME RowInv, NEW p \in Requests, req[p].at \notin {"idle", "done"}, Latest(p)
    PROVE  req[p].doc = run
  BY DEF RowInv, RowsAge, Latest

\* The rows the saves produce.
LEMMA SavedRow ==
    ASSUME NEW row \in RunRows, NEW state \in RunStates, NEW status \in {"ACTIVE", "REVOKED", "EXPIRED"}
    PROVE  /\ SetState(row, state) \in RunRows
           /\ SetState(row, state).state = state /\ SetState(row, state).status = row.status
           /\ SetState(row, state).version = row.version + 1 /\ SetState(row, state).stamp = row.stamp + 1
           /\ Closed(row, state, status) \in RunRows
           /\ Closed(row, state, status).state = state /\ Closed(row, state, status).status = status
           /\ Closed(row, state, status).version = row.version + 1
           /\ Closed(row, state, status).stamp = row.stamp + 1
           /\ Rotated(row) \in RunRows
           /\ Rotated(row).state = row.state /\ Rotated(row).status = row.status
           /\ Rotated(row).version = row.version /\ Rotated(row).stamp = row.stamp + 1
           /\ Rotated(row).cap \in Nat
  <1>0. row.stamp + 1 \in Nat /\ row.version + 1 \in Nat /\ row.cap + 1 \in Nat
    BY DEF RunRows
  <1>1. Saved(row) \in RunRows /\ Saved(row) = [row EXCEPT !.stamp = row.stamp + 1]
    BY DEF Saved, RunRows
  <1>2. SetState(row, state) = [row EXCEPT !.stamp = row.stamp + 1, !.state = state, !.version = row.version + 1]
    BY <1>1 DEF SetState, RunRows
  <1>3. Closed(row, state, status) =
           [row EXCEPT !.stamp = row.stamp + 1, !.state = state, !.version = row.version + 1, !.status = status]
    BY <1>2 DEF Closed, RunRows
  <1>4. Rotated(row) = [row EXCEPT !.stamp = row.stamp + 1, !.cap = row.cap + 1]
    BY <1>1 DEF Rotated, RunRows
  <1>5. /\ SetState(row, state) \in RunRows
        /\ SetState(row, state).state = state /\ SetState(row, state).status = row.status
        /\ SetState(row, state).version = row.version + 1 /\ SetState(row, state).stamp = row.stamp + 1
    BY <1>0, <1>2 DEF RunRows
  <1>6. /\ Closed(row, state, status) \in RunRows
        /\ Closed(row, state, status).state = state /\ Closed(row, state, status).status = status
        /\ Closed(row, state, status).version = row.version + 1
        /\ Closed(row, state, status).stamp = row.stamp + 1
    BY <1>0, <1>3 DEF RunRows
  <1>7. /\ Rotated(row) \in RunRows
        /\ Rotated(row).state = row.state /\ Rotated(row).status = row.status
        /\ Rotated(row).version = row.version /\ Rotated(row).stamp = row.stamp + 1
        /\ Rotated(row).cap \in Nat
    BY <1>0, <1>4 DEF RunRows
  <1> QED
    BY <1>5, <1>6, <1>7

-----------------------------------------------------------------------------
(* Requests that answer. *)

\* A request that answers with the rows saved, or not, moves as it should.
LEMMA FinishMoves ==
    ASSUME RowInv, NEW p \in Requests, req[p].at # "done", Finish(p), mode' = mode,
           KeepsRows \/ SavesRun \/ Commits(p),
           \/ lock' = lock /\ (lock = Nobody \/ KeepsRows)
           \/ lock = p /\ lock' = Nobody,
           capOver' \in BOOLEAN, overdue' \in BOOLEAN, handed' \subseteq Nat, UNCHANGED gatewayVars
    PROVE  RequestMoves(p)
  <1>1. /\ req' \in [Requests -> Entries]
        /\ \A q \in Requests \ {p} : req'[q] = req[q]
        /\ req'[p].at = "done"
        /\ LoadedFor(req'[p]) /\ Aged(req'[p], run')
    BY FinishStep DEF RowInv
  <1>2. MovesLock(p) /\ (KeepsRows \/ lock = Nobody \/ (lock = p /\ req'[p].at = "done"))
    BY <1>1 DEF MovesLock
  <1> QED
    BY <1>1, <1>2 DEF RequestMoves

\* The states a save may leave.
LEMMA StatesMove ==
    /\ "CREATED" \notin TerminalStates /\ "ANALYZING" \notin TerminalStates
    /\ "PROPOSED" \notin TerminalStates
    /\ CancellableStates = {"CREATED", "ANALYZING"}
  BY DEF TerminalStates, RunTransitions, RunStates, CancellableStates

\* A close or a change of state of the committed row.
LEMMA SaveStep ==
    ASSUME RowInv, NEW state \in RunStates, UNCHANGED <<analyses, plan, residue>>,
           \/ run.state \in CancellableStates /\ state \notin {"PROPOSED", "SUCCEEDED"}
           \/ run.state = state,
           \/ run' = SetState(run, state)
           \/ \E status \in {"REVOKED", "EXPIRED"} :
                 /\ run' = Closed(run, state, status)
                 /\ run.status = "ACTIVE" \/ run.status = status
                 /\ status = "EXPIRED" => state = "EXPIRED"
    PROVE  SavesRun
  <1>0. run \in RunRows /\ (run.status = "EXPIRED" => run.state = "EXPIRED")
    BY DEF RowInv, TypeOK, ExpiredIsClosed
  <1>1. run.stamp < run.stamp + 1 /\ run.version < run.version + 1 /\ run.version \in Nat
    BY <1>0 DEF RunRows
  <1>2. run.state # state => run.state \notin TerminalStates /\ run.state \in {"CREATED", "ANALYZING"}
    BY StatesMove
  <1>3. run' \in RunRows /\ run'.state = state /\ run'.version = run.version + 1 /\ run'.stamp = run.stamp + 1
    BY <1>0, SavedRow
  <1>4. run'.status # run.status => run.status = "ACTIVE"
    <2>1. CASE run' = SetState(run, state)
      BY <1>0, <2>1, SavedRow
    <2>2. ASSUME NEW status \in {"REVOKED", "EXPIRED"}, run' = Closed(run, state, status),
                 run.status = "ACTIVE" \/ run.status = status
          PROVE  run'.status # run.status => run.status = "ACTIVE"
      <3>1. Closed(run, state, status).status = status
        BY <1>0, SavedRow
      <3> QED
        BY <2>2, <3>1
    <2> QED
      BY <2>1, <2>2
  <1>5. run'.status = "EXPIRED" => run'.state = "EXPIRED"
    BY <1>0, <1>2, SavedRow
  <1> QED
    BY <1>1, <1>2, <1>3, <1>4, <1>5 DEF SavesRun, MovesRun, Later

LEMMA ClosingRequests ==
    ASSUME RowInv, NEW p \in Requests,
           ExpireOnLoad(p) \/ SaveCancel(p) \/ SaveRevoke(p) \/ MarkTerminal(p)
    PROVE  RequestMoves(p)
  <1> USE DEF rowVars, clockVars
  <1>0. run \in RunRows /\ capOver \in BOOLEAN /\ overdue \in BOOLEAN /\ handed \subseteq Nat
        /\ req[p] \in Entries
    BY DEF RowInv, TypeOK, Entries
  <1>1. KeepsRows \/ SavesRun
    <2>1. CASE ExpireOnLoad(p)
      BY <2>1, SaveStep DEF ExpireOnLoad, RunStates
    <2>2. CASE SaveCancel(p)
      <3>1. CASE Latest(p)
        <4>1. run.status = "ACTIVE" /\ run.state \in CancellableStates
          BY <2>2, <3>1, LatestIsRun DEF SaveCancel, RowInv, LoadedRows, LoadedFor
        <4> QED
          BY <2>2, <3>1, <4>1, SaveStep DEF SaveCancel, RunStates
      <3> QED
        BY <2>2, <3>1 DEF SaveCancel, KeepsRows
    <2>3. CASE SaveRevoke(p)
      <3>1. CASE Latest(p)
        <4>1. run.status = "ACTIVE" /\ run.state \in RunStates
          BY <1>0, <2>3, <3>1, LatestIsRun DEF SaveRevoke, RowInv, LoadedRows, LoadedFor, RunRows
        <4> QED
          BY <2>3, <3>1, <4>1, SaveStep DEF SaveRevoke
      <3> QED
        BY <2>3, <3>1 DEF SaveRevoke, KeepsRows
    <2>4. CASE MarkTerminal(p)
      <3>1. CASE Latest(p)
        <4>1. /\ run.state = "ANALYZING"
              /\ run.status = "ACTIVE" \/ (run.status = "REVOKED" /\ req[p].target = "FAILED")
          BY <2>4, <3>1, LatestIsRun DEF MarkTerminal, RowInv, LoadedRows, LoadedFor
        <4>2. req[p].target \in {"FAILED", "CANCELLED", "EXPIRED"}
          BY <1>0 DEF Entries
        <4>3. PICK status \in {"REVOKED", "EXPIRED"} :
                 status = IF req[p].target = "EXPIRED" THEN "EXPIRED" ELSE "REVOKED"
          OBVIOUS
        <4>4. run' = Closed(run, req[p].target, status) /\ UNCHANGED <<analyses, plan, residue>>
          BY <2>4, <3>1, <4>3 DEF MarkTerminal
        <4>5. run.status = "ACTIVE" \/ run.status = status
          BY <4>1, <4>3
        <4> QED
          BY <4>1, <4>2, <4>3, <4>4, <4>5, StatesMove, SaveStep DEF RunStates
      <3> QED
        BY <2>4, <3>1 DEF MarkTerminal, KeepsRows
    <2> QED
      BY <2>1, <2>2, <2>3, <2>4
  <1>2. /\ Finish(p) /\ lock' = lock /\ lock = Nobody /\ req[p].at # "done" /\ mode' = mode
        /\ UNCHANGED <<capOver, overdue, handed, gatewayVars>>
    BY DEF ExpireOnLoad, SaveCancel, SaveRevoke, MarkTerminal, LockFree
  <1> QED
    BY <1>0, <1>1, <1>2, FinishMoves

\* The end of a closeout: the request holds the lock and gives it back.
LEMMA ClosingOut ==
    ASSUME RowInv, NEW p \in Requests, Propose(p) \/ FailCloseout(p) \/ BreakCloseout(p)
    PROVE  RequestMoves(p)
  <1> USE DEF rowVars, clockVars
  <1>0. /\ run \in RunRows /\ capOver \in BOOLEAN /\ overdue \in BOOLEAN /\ handed \subseteq Nat
        /\ req[p].at = "closing" /\ lock = p /\ p \notin analyses
    BY DEF RowInv, TypeOK, LockHeld, OneAnalysis, Propose, FailCloseout, BreakCloseout
  <1>1. Latest(p) => run.state = IF mode = "DETERMINISTIC" THEN "CREATED" ELSE "ANALYZING"
    BY <1>0, LatestIsRun DEF RowInv, LoadedRows, LoadedFor
  <1>2. ASSUME Latest(p)
        PROVE  /\ Analyzed(run) \in RunRows /\ Analyzed(run).status = run.status
               /\ Analyzed(run).version >= run.version /\ Analyzed(run).stamp >= run.stamp
    <2>1. CASE mode = "DETERMINISTIC"
      <3>1. Analyzed(run) = SetState(run, "ANALYZING") /\ "ANALYZING" \in RunStates
        BY <2>1 DEF Analyzed, RunStates
      <3>2. /\ SetState(run, "ANALYZING") \in RunRows /\ SetState(run, "ANALYZING").status = run.status
            /\ SetState(run, "ANALYZING").version = run.version + 1
            /\ SetState(run, "ANALYZING").stamp = run.stamp + 1
        BY <1>0, <3>1, SavedRow
      <3> QED
        BY <1>0, <3>1, <3>2 DEF RunRows
    <2>2. CASE mode # "DETERMINISTIC"
      BY <1>0, <2>2 DEF Analyzed, RunRows
    <2> QED
      BY <2>1, <2>2
  <1>3. ASSUME Latest(p), NEW state \in RunStates, run' = SetState(Analyzed(run), state)
        PROVE  /\ Later(run, run') /\ run'.state = state /\ run.state \in CancellableStates
               /\ run.state \notin TerminalStates
    <2>1. /\ run' \in RunRows /\ run'.state = state /\ run'.status = run.status
          /\ run'.version = Analyzed(run).version + 1 /\ run'.stamp = Analyzed(run).stamp + 1
      BY <1>2, <1>3, SavedRow
    <2>2. run'.version > run.version /\ run'.stamp > run.stamp
      BY <1>0, <1>2, <1>3, <2>1 DEF RunRows
    <2>3. run.state \in {"CREATED", "ANALYZING"} /\ run.status # "EXPIRED"
      BY <1>1, <1>3 DEF RowInv, ExpiredIsClosed
    <2> QED
      BY <1>0, <2>1, <2>2, <2>3, StatesMove DEF Later, RunRows
  <1>4. ASSUME CleanUp(p), plan' = plan, run' = run \/ MovesRun
        PROVE  KeepsRows \/ SavesRun \/ Commits(p)
    <2>1. CASE analyses' = Cleaned(analyses \cup {p}, p) /\ residue' = residue
      <3>1. analyses' = analyses
        BY <1>0, <2>1 DEF Cleaned
      <3> QED
        BY <1>4, <2>1, <3>1 DEF KeepsRows, SavesRun
    <2>2. CASE analyses' = analyses \cup {p} /\ residue' = residue \cup {p}
      BY <1>4, <2>2 DEF Commits, LeavesRows
    <2> QED
      BY <1>4, <2>1, <2>2 DEF CleanUp
  <1>6. ASSUME Latest(p), run' = SetState(Analyzed(run), "CREATED") PROVE MovesRun
    BY <1>3, <1>6 DEF MovesRun, RunStates
  <1>7. KeepsRows \/ SavesRun \/ Commits(p)
    <2>1. CASE Propose(p) /\ Latest(p)
      BY <1>3, <2>1 DEF Propose, SavesAnalysis, Commits, RunStates
    <2>2. CASE Propose(p) /\ ~Latest(p)
      BY <1>4, <2>2 DEF Propose
    <2>3. CASE FailCloseout(p)
      BY <1>4, <1>6, <2>3 DEF FailCloseout
    <2>4. CASE BreakCloseout(p) /\ mode = "PLAN_EXECUTE" /\ ~req[p].resumed
      BY <1>4, <1>6, <2>4 DEF BreakCloseout, Analyzed
    <2>5. CASE BreakCloseout(p) /\ ~(mode = "PLAN_EXECUTE" /\ ~req[p].resumed)
      BY <2>5 DEF BreakCloseout, KeepsRows
    <2> QED
      BY <2>1, <2>2, <2>3, <2>4, <2>5
  <1>5. /\ Finish(p) /\ lock' = Nobody /\ mode' = mode
        /\ UNCHANGED <<capOver, overdue, handed, gatewayVars>>
    BY DEF Propose, FailCloseout, BreakCloseout
  <1> QED
    BY <1>0, <1>5, <1>7, FinishMoves

LEMMA RecoverMoves ==
    ASSUME RowInv, NEW p \in Requests, Recover(p)
    PROVE  RequestMoves(p)
  <1> USE DEF rowVars, clockVars
  <1>0. /\ capOver \in BOOLEAN /\ overdue \in BOOLEAN /\ handed \subseteq Nat
        /\ req[p].at = "recover" /\ p \notin analyses /\ lock = Nobody
    BY DEF RowInv, TypeOK, OneAnalysis, Recover, LockFree
  <1>1. analyses' = analyses /\ plan' = plan /\ residue' = residue
    BY <1>0 DEF Recover, Cleaned
  <1>2. KeepsRows \/ SavesRun
    <2>1. CASE req[p].doc.state = "ANALYZING" /\ Latest(p)
      <3>1. run.state = "ANALYZING" /\ run' = SetState(run, "CREATED")
        BY <1>0, <2>1, LatestIsRun DEF Recover
      <3> QED
        BY <1>1, <3>1, StatesMove, SaveStep DEF RunStates
    <2>2. CASE ~(req[p].doc.state = "ANALYZING" /\ Latest(p))
      BY <1>1, <2>2 DEF Recover, KeepsRows
    <2> QED
      BY <2>1, <2>2
  <1> QED
    BY <1>0, <1>2, FinishMoves DEF Recover

LEMMA SavePlanMoves ==
    ASSUME RowInv, NEW p \in Requests, SavePlan(p)
    PROVE  RequestMoves(p)
  <1> USE DEF rowVars, clockVars
  <1>0. /\ run \in RunRows /\ capOver \in BOOLEAN /\ overdue \in BOOLEAN /\ handed \subseteq Nat
        /\ req[p].at = "planning" /\ lock = p
    BY DEF RowInv, TypeOK, LockHeld, SavePlan
  <1>1. KeepsRows \/ Commits(p)
    <2>1. CASE plan = Nobody /\ Latest(p)
      <3>1. run' = Closed(run, "SUCCEEDED", "REVOKED") /\ plan' = p /\ UNCHANGED <<analyses, residue>>
        BY <2>1 DEF SavePlan
      <3>2. run.status = "ACTIVE" /\ run.state = "PROPOSED"
        BY <1>0, <2>1, LatestIsRun DEF RowInv, LoadedRows, LoadedFor
      <3>3. /\ run' \in RunRows /\ run'.state = "SUCCEEDED" /\ run'.status = "REVOKED"
            /\ run'.version = run.version + 1 /\ run'.stamp = run.stamp + 1
        BY <1>0, <3>1, SavedRow DEF RunStates
      <3>4. Later(run, run')
        BY <1>0, <3>2, <3>3, StatesMove DEF Later, RunRows
      <3> QED
        BY <2>1, <3>1, <3>2, <3>3, <3>4 DEF SavesPlan, Commits
    <2>2. CASE plan = Nobody /\ ~Latest(p)
      BY <2>2 DEF SavePlan, Withdrawn, KeepsRows, Commits, LeavesRows
    <2>3. CASE plan # Nobody
      BY <2>3 DEF SavePlan, KeepsRows
    <2> QED
      BY <2>1, <2>2, <2>3
  <1> QED
    BY <1>0, <1>1, FinishMoves DEF SavePlan

-----------------------------------------------------------------------------
(* Requests that go on. *)

\* A request goes on with the rows and the lock as they are.
LEMMA GoOnMoves ==
    ASSUME RowInv, NEW p \in Requests, req[p].at # "done", KeepsRows,
           req' \in [Requests -> Entries], \A q \in Requests \ {p} : req'[q] = req[q],
           LoadedFor(req'[p]), Aged(req'[p], run), req'[p].at \notin {"closing", "planning"},
           UNCHANGED <<mode, lock, clockVars, handed, gatewayVars>>
    PROVE  RequestMoves(p)
  <1>1. /\ run' = run /\ capOver' \in BOOLEAN /\ overdue' \in BOOLEAN /\ handed' \subseteq Nat
    BY DEF RowInv, TypeOK, KeepsRows, rowVars, clockVars
  <1> QED
    BY <1>1 DEF RequestMoves, MovesLock

\* What was just loaded is the committed row.
LEMMA LoadedIsAged ==
    ASSUME RowInv, NEW t, t.doc = run
    PROVE  Aged(t, run)
  BY DEF Aged, RowInv, TypeOK, RunRows

LEMMA LoadMoves ==
    ASSUME RowInv, NEW p \in Requests, NEW place \in Places, Load(p, place),
           req[p].at # "done", place \notin {"closing", "planning"},
           \A t \in Entries : t.at = place /\ t.doc = run /\ t.target = req[p].target => LoadedFor(t),
           UNCHANGED <<mode, rowVars, lock, clockVars, handed, gatewayVars>>
    PROVE  RequestMoves(p)
  <1>1. /\ req' \in [Requests -> Entries]
        /\ \A q \in Requests \ {p} : req'[q] = req[q]
        /\ req'[p].at = place /\ req'[p].doc = run
        /\ req'[p].target = req[p].target
    BY LoadStep DEF RowInv
  <1>2. LoadedFor(req'[p]) /\ Aged(req'[p], run)
    BY <1>1, LoadedIsAged
  <1> QED
    BY <1>1, <1>2, GoOnMoves DEF KeepsRows

LEMMA EntryLoads ==
    ASSUME RowInv, NEW p \in Requests,
           \/ LoadAnalyze(p) \/ LoadPlan(p) \/ LoadResume(p) \/ LoadCancel(p) \/ LoadRevoke(p)
    PROVE  RequestMoves(p)
  <1>1. CASE LoadAnalyze(p)
    BY <1>1, LoadMoves DEF LoadAnalyze, LoadActive, LoadedFor, Places
  <1>2. CASE LoadPlan(p)
    BY <1>2, LoadMoves DEF LoadPlan, LoadActive, LoadedFor, Places
  <1>3. CASE LoadResume(p)
    BY <1>3, LoadMoves DEF LoadResume, LoadedFor, Places
  <1>4. CASE LoadCancel(p)
    BY <1>4, LoadMoves DEF LoadCancel, LoadedFor, Places
  <1>5. CASE LoadRevoke(p)
    BY <1>5, LoadMoves DEF LoadRevoke, LoadedFor, Places
  <1> QED
    BY <1>1, <1>2, <1>3, <1>4, <1>5

\* A request that goes on with the row it has.
LEMMA PassOn ==
    ASSUME RowInv, NEW p \in Requests, NEW place \in Places, Go(p, place),
           req[p].at \notin {"idle", "done"}, place \notin {"idle", "done", "closing", "planning"},
           \A t \in Entries : t.at = place /\ t.doc = req[p].doc => LoadedFor(t),
           UNCHANGED <<mode, rowVars, lock, clockVars, handed, gatewayVars>>
    PROVE  RequestMoves(p)
  <1>1. /\ req' \in [Requests -> Entries]
        /\ \A q \in Requests \ {p} : req'[q] = req[q]
        /\ req'[p].at = place /\ req'[p].doc = req[p].doc
    BY GoStep DEF RowInv
  <1>2. LoadedFor(req'[p]) /\ Aged(req'[p], run)
    BY <1>1 DEF Aged, RowInv, RowsAge
  <1> QED
    BY <1>1, <1>2, GoOnMoves DEF KeepsRows

\* A request that ends with the rows and the lock as they are.
LEMMA EndMoves ==
    ASSUME RowInv, NEW p \in Requests, Finish(p), req[p].at # "done",
           UNCHANGED <<mode, rowVars, lock, clockVars, handed, gatewayVars>>
    PROVE  RequestMoves(p)
  BY FinishMoves DEF RowInv, TypeOK, KeepsRows, clockVars

\* The answers of the runtime.
LEMMA AnswersMove ==
    ASSUME RowInv, NEW p \in Requests,
           \/ \E code : AgentAnswer(p, code)
           \/ \E status : WorkflowAnswer(p, status)
           \/ BreakCall(p)
    PROVE  RequestMoves(p)
  <1>0. /\ req[p].at = "calling" /\ req[p].doc.status = "ACTIVE" /\ req[p].doc.state = "ANALYZING"
        /\ mode # "DETERMINISTIC"
        /\ UNCHANGED <<mode, rowVars, lock, clockVars, handed, gatewayVars>>
        /\ req[p] \in Entries /\ run \in RunRows /\ TypeOK
    BY DEF RowInv, LoadedRows, LoadedFor, AgentAnswer, WorkflowAnswer, BreakCall, TypeOK, Entries
  <1>1. CASE Go(p, "answered")
    BY <1>0, <1>1, PassOn DEF LoadedFor, Places
  <1>2. CASE Load(p, "recover")
    BY <1>0, <1>2, LoadMoves DEF LoadedFor, Places
  <1>3. CASE Finish(p)
    BY <1>0, <1>3, EndMoves
  <1>4. ASSUME NEW status \in {"FAILED", "CANCELLED", "EXPIRED"},
               req' = [req EXCEPT ![p].at = "terminal", ![p].target = status]
        PROVE  RequestMoves(p)
    <2>1. PICK t \in Entries : t = [req[p] EXCEPT !.at = "terminal", !.target = status]
      BY <1>0 DEF Entries, Places
    <2>2. t.at = "terminal" /\ t.doc = req[p].doc
      BY <1>0, <2>1 DEF Entries
    <2>3. req' = [req EXCEPT ![p] = t]
      BY <1>0, <1>4, <2>1 DEF TypeOK
    <2>4. req' \in [Requests -> Entries] /\ req'[p] = t /\ \A q \in Requests \ {p} : req'[q] = req[q]
      BY <1>0, <2>3, EntryStep
    <2>5. LoadedFor(t) /\ Aged(t, run)
      BY <1>0, <2>2 DEF LoadedFor, Aged, RowInv, RowsAge
    <2> QED
      BY <1>0, <2>2, <2>4, <2>5, GoOnMoves DEF KeepsRows
  <1>5. ASSUME req' = [req EXCEPT ![p].at = "terminal", ![p].target = "FAILED", ![p].doc = run],
               run.state = "ANALYZING"
        PROVE  RequestMoves(p)
    <2>1. PICK t \in Entries : t = [req[p] EXCEPT !.at = "terminal", !.target = "FAILED", !.doc = run]
      BY <1>0 DEF Entries, Places
    <2>2. t.at = "terminal" /\ t.doc = run /\ t.target = "FAILED"
      BY <1>0, <2>1 DEF Entries
    <2>3. req' = [req EXCEPT ![p] = t]
      BY <1>0, <1>5, <2>1 DEF TypeOK
    <2>4. req' \in [Requests -> Entries] /\ req'[p] = t /\ \A q \in Requests \ {p} : req'[q] = req[q]
      BY <1>0, <2>3, EntryStep
    <2>5. run.status \in {"ACTIVE", "REVOKED"}
      BY <1>0, <1>5 DEF RowInv, ExpiredIsClosed, RunRows
    <2>6. LoadedFor(t) /\ Aged(t, run)
      BY <1>5, <2>2, <2>5, LoadedIsAged DEF LoadedFor
    <2> QED
      BY <1>0, <2>2, <2>4, <2>6, GoOnMoves DEF KeepsRows
  <1>6. ASSUME NEW code, AgentAnswer(p, code) PROVE RequestMoves(p)
    BY <1>1, <1>2, <1>6 DEF AgentAnswer
  <1>7. ASSUME NEW status, WorkflowAnswer(p, status) PROVE RequestMoves(p)
    BY <1>1, <1>3, <1>4, <1>7 DEF WorkflowAnswer
  <1>8. CASE BreakCall(p)
    BY <1>3, <1>5, <1>8 DEF BreakCall
  <1> QED
    BY <1>6, <1>7, <1>8

LEMMA LoadCloseoutMoves ==
    ASSUME RowInv, NEW p \in Requests, LoadCloseout(p)
    PROVE  RequestMoves(p)
  <1>0. /\ req[p].at = "answered" /\ mode # "DETERMINISTIC"
        /\ UNCHANGED <<mode, rowVars, lock, clockVars, handed, gatewayVars>>
    BY DEF LoadCloseout, RowInv, LoadedRows, LoadedFor
  <1>1. CASE Load(p, "closeout") /\ run.status = "ACTIVE" /\ run.state = "ANALYZING"
    BY <1>0, <1>1, LoadMoves DEF LoadedFor, Places
  <1>2. CASE Load(p, "recover")
    BY <1>0, <1>2, LoadMoves DEF LoadedFor, Places
  <1>3. CASE Finish(p)
    BY <1>0, <1>3, EndMoves
  <1> QED
    BY <1>1, <1>2, <1>3 DEF LoadCloseout

\* The closeout takes the lock only of the version it has loaded.
LEMMA BeginCloseoutMoves ==
    ASSUME RowInv, NEW p \in Requests, BeginCloseout(p)
    PROVE  RequestMoves(p)
  <1>0. /\ req[p].at = "closeout" /\ lock = Nobody
        /\ req[p].doc.state = "ANALYZING" /\ mode # "DETERMINISTIC"
        /\ UNCHANGED <<mode, rowVars, clockVars, handed, gatewayVars>>
        /\ capOver \in BOOLEAN /\ overdue \in BOOLEAN /\ handed \subseteq Nat /\ run \in RunRows
    BY DEF BeginCloseout, LockFree, RowInv, LoadedRows, LoadedFor, TypeOK
  <1>1. CASE lock' = lock /\ Go(p, "recover")
    BY <1>0, <1>1, PassOn DEF LoadedFor, Places
  <1>2. CASE Recheck(req[p].doc.version) /\ lock' = p /\ Go(p, "closing")
    <2>1. /\ req' \in [Requests -> Entries]
          /\ \A q \in Requests \ {p} : req'[q] = req[q]
          /\ req'[p].at = "closing" /\ req'[p].doc = req[p].doc
      BY <1>2, GoStep DEF RowInv, Places
    <2>2. run.status = "ACTIVE" /\ run.version = req[p].doc.version /\ run.state = "ANALYZING"
      BY <1>0, <1>2 DEF Recheck, RowInv, RowsAge
    <2>3. Aged(req'[p], run)
      BY <1>0, <2>1 DEF Aged, RowInv, RowsAge
    <2>4. ~SavesAnalysis(p) /\ KeepsRows /\ MovesLock(p)
      BY <1>0, <1>2 DEF SavesAnalysis, KeepsRows, MovesLock, Later, rowVars, RunRows
    <2> QED
      BY <1>0, <1>2, <2>1, <2>2, <2>3, <2>4 DEF RequestMoves, LoadedFor, rowVars, clockVars
  <1> QED
    BY <1>1, <1>2 DEF BeginCloseout

\* The row a plan goes on with, of the request's snapshot or of the table.
LEMMA LockPlanMoves ==
    ASSUME RowInv, NEW p \in Requests, LockPlan(p)
    PROVE  RequestMoves(p)
  <1>0. /\ req[p].at = "plan" /\ lock = Nobody
        /\ UNCHANGED <<mode, rowVars, clockVars, handed, gatewayVars>>
        /\ capOver \in BOOLEAN /\ overdue \in BOOLEAN /\ handed \subseteq Nat
        /\ run \in RunRows /\ req[p] \in Entries /\ TypeOK
    BY DEF LockPlan, LockFree, RowInv, TypeOK, Entries
  <1>1. CASE lock' = lock /\ Finish(p)
    BY <1>0, <1>1, EndMoves
  <1>2. ASSUME NEW r \in {req[p].doc, run}, r.status = "ACTIVE", r.state = "PROPOSED", lock' = p,
               req' = [req EXCEPT ![p].at = "planning", ![p].doc = r]
        PROVE  RequestMoves(p)
    <2>0. r \in RunRows
      BY <1>0, <1>2 DEF Entries
    <2>1. PICK t \in Entries : t = [req[p] EXCEPT !.at = "planning", !.doc = r]
      BY <1>0, <2>0 DEF Entries, Places
    <2>2. t.at = "planning" /\ t.doc = r
      BY <1>0, <2>1 DEF Entries
    <2>3. req' = [req EXCEPT ![p] = t]
      BY <1>0, <1>2, <2>1 DEF TypeOK
    <2>4. req' \in [Requests -> Entries] /\ req'[p] = t /\ \A q \in Requests \ {p} : req'[q] = req[q]
      BY <1>0, <2>3, EntryStep
    <2>5. LoadedFor(t)
      BY <1>2, <2>2 DEF LoadedFor
    <2>6. Aged(t, run)
      <3>1. CASE r = run
        BY <2>2, <3>1, LoadedIsAged
      <3>2. CASE r = req[p].doc
        BY <1>0, <2>2, <3>2 DEF Aged, RowInv, RowsAge
      <3> QED
        BY <1>2, <3>1, <3>2
    <2>7. ~SavesAnalysis(p) /\ KeepsRows /\ MovesLock(p)
      BY <1>0, <1>2 DEF SavesAnalysis, KeepsRows, MovesLock, Later, rowVars, RunRows
    <2> QED
      BY <1>0, <1>2, <2>2, <2>4, <2>5, <2>6, <2>7 DEF RequestMoves, rowVars, clockVars
  <1> QED
    BY <1>1, <1>2 DEF LockPlan

\* A request saves the row with a fresh capability and calls the runtime.
LEMMA CallMoves ==
    ASSUME RowInv, NEW p \in Requests, NEW row \in RunRows, NEW resumed \in BOOLEAN,
           req[p].at # "done", lock = Nobody, mode # "DETERMINISTIC",
           run' = row, Later(run, row), row.state = "ANALYZING", row.status = "ACTIVE",
           run.state \in CancellableStates,
           req' = [req EXCEPT ![p] = [req[p] EXCEPT !.at = "calling", !.doc = row, !.resumed = resumed]],
           capOver' \in BOOLEAN, handed' \subseteq Nat,
           UNCHANGED <<mode, analyses, plan, residue, lock, overdue, gatewayVars>>
    PROVE  RequestMoves(p)
  <1>0. req[p] \in Entries /\ overdue \in BOOLEAN /\ TypeOK
    BY DEF RowInv, TypeOK, Entries
  <1>1. PICK t \in Entries : t = [req[p] EXCEPT !.at = "calling", !.doc = row, !.resumed = resumed]
    BY <1>0 DEF Entries, Places
  <1>2. t.at = "calling" /\ t.doc = row
    BY <1>0, <1>1 DEF Entries
  <1>3. req' \in [Requests -> Entries] /\ req'[p] = t /\ \A q \in Requests \ {p} : req'[q] = req[q]
    BY <1>0, <1>1, EntryStep
  <1>4. LoadedFor(t)
    BY <1>2 DEF LoadedFor
  <1>5. Aged(t, run')
    BY <1>2 DEF Aged, RunRows
  <1>6. SavesRun /\ MovesLock(p)
    BY DEF SavesRun, MovesRun, MovesLock
  <1> QED
    BY <1>0, <1>2, <1>3, <1>4, <1>5, <1>6 DEF RequestMoves

LEMMA BeginResumeMoves ==
    ASSUME RowInv, NEW p \in Requests, BeginResume(p)
    PROVE  RequestMoves(p)
  <1> USE DEF rowVars, clockVars
  <1>0. /\ req[p].at = "resume" /\ lock = Nobody /\ mode # "DETERMINISTIC"
        /\ run \in RunRows /\ handed \subseteq Nat /\ req \in [Requests -> Entries] /\ req[p] \in Entries
        /\ UNCHANGED <<mode, analyses, plan, residue, overdue, gatewayVars>>
    BY DEF BeginResume, LockFree, RowInv, TypeOK, Entries, LoadedRows, LoadedFor
  <1>1. CASE Conflict(p)
    BY <1>0, <1>1, EndMoves DEF Conflict
  <1>2. CASE Latest(p) /\ ~overdue
    <2>1. run.state = "ANALYZING" /\ run.status = "ACTIVE"
      BY <1>0, <1>2, LatestIsRun DEF RowInv, LoadedRows, LoadedFor
    <2>2. PICK row \in RunRows : row = Rotated(run)
      BY <1>0, SavedRow DEF RunStates
    <2>3. /\ row.state = run.state /\ row.status = run.status /\ row.version = run.version
          /\ row.stamp = run.stamp + 1 /\ row.cap \in Nat
      BY <1>0, <2>2, SavedRow DEF RunStates
    <2>4. Later(run, row)
      BY <1>0, <2>1, <2>3 DEF Later, RunRows
    <2>5. /\ run' = row /\ capOver' = FALSE /\ handed' = handed \cup {row.cap} /\ lock' = lock
          /\ req' = [req EXCEPT ![p].at = "calling", ![p].doc = row, ![p].resumed = TRUE]
      BY <1>2, <2>2 DEF BeginResume
    <2>6. req' = [req EXCEPT ![p] = [req[p] EXCEPT !.at = "calling", !.doc = row, !.resumed = TRUE]]
      BY <1>0, <2>5
    <2>7. UNCHANGED <<mode, analyses, plan, residue, lock, overdue, gatewayVars>>
      BY <1>0, <2>5
    <2>8. /\ row.state = "ANALYZING" /\ row.status = "ACTIVE" /\ run.state \in CancellableStates
          /\ req[p].at # "done" /\ capOver' \in BOOLEAN /\ handed' \subseteq Nat /\ run' = row
      BY <1>0, <2>1, <2>3, <2>5, StatesMove
    <2> QED
      BY <1>0, <2>4, <2>6, <2>7, <2>8, CallMoves
  <1> QED
    BY <1>1, <1>2 DEF BeginResume

LEMMA BeginAnalysisMoves ==
    ASSUME RowInv, NEW p \in Requests, BeginAnalysis(p)
    PROVE  RequestMoves(p)
  <1> USE DEF rowVars, clockVars
  <1>0. /\ req[p].at = "analyze" /\ lock = Nobody /\ TypeOK
        /\ run \in RunRows /\ handed \subseteq Nat /\ req \in [Requests -> Entries] /\ req[p] \in Entries
        /\ capOver \in BOOLEAN /\ overdue \in BOOLEAN
        /\ UNCHANGED <<mode, analyses, plan, residue, overdue, gatewayVars>>
    BY DEF BeginAnalysis, LockFree, RowInv, TypeOK, Entries
  <1>1. CASE Conflict(p)
    BY <1>0, <1>1, EndMoves DEF Conflict
  <1>2. ASSUME Latest(p)
        PROVE  run.state = "CREATED" /\ run.status = "ACTIVE" /\ req[p].doc = run
    BY <1>0, <1>2, LatestIsRun DEF RowInv, LoadedRows, LoadedFor
  <1>3. CASE Latest(p) /\ mode = "DETERMINISTIC" /\ lock' = p /\ Go(p, "closing")
             /\ UNCHANGED <<run, capOver, handed>>
    <2>1. /\ req' \in [Requests -> Entries]
          /\ \A q \in Requests \ {p} : req'[q] = req[q]
          /\ req'[p].at = "closing" /\ req'[p].doc = req[p].doc
      BY <1>0, <1>3, GoStep DEF Places
    <2>2. LoadedFor(req'[p]) /\ Aged(req'[p], run)
      BY <1>2, <1>3, <2>1, LoadedIsAged DEF LoadedFor
    <2>3. KeepsRows /\ MovesLock(p)
      BY <1>0, <1>3 DEF KeepsRows, MovesLock
    <2> QED
      BY <1>0, <1>3, <2>1, <2>2, <2>3 DEF RequestMoves
  <1>4. CASE Latest(p) /\ run' = SetState(run, "ANALYZING") /\ Finish(p)
             /\ UNCHANGED <<lock, capOver, handed>>
    <2>1. SavesRun
      BY <1>0, <1>2, <1>4, StatesMove, SaveStep DEF RunStates
    <2> QED
      BY <1>0, <1>4, <2>1, FinishMoves
  <1>5. CASE /\ Latest(p) /\ mode # "DETERMINISTIC"
             /\ run' = Rotated(SetState(run, "ANALYZING"))
             /\ capOver' = FALSE /\ handed' = handed \cup {run'.cap} /\ lock' = lock
             /\ req' = [req EXCEPT ![p].at = "calling", ![p].doc = run']
    <2>1. run.state = "CREATED" /\ run.status = "ACTIVE"
      BY <1>2, <1>5
    <2>2. PICK mid \in RunRows :
             /\ mid = SetState(run, "ANALYZING")
             /\ mid.state = "ANALYZING" /\ mid.status = run.status
             /\ mid.version = run.version + 1 /\ mid.stamp = run.stamp + 1
      BY <1>0, SavedRow DEF RunStates
    <2>3. PICK row \in RunRows :
             /\ row = Rotated(mid)
             /\ row.state = mid.state /\ row.status = mid.status
             /\ row.version = mid.version /\ row.stamp = mid.stamp + 1 /\ row.cap \in Nat
      BY <2>2, SavedRow DEF RunStates
    <2>4. Later(run, row)
      BY <1>0, <2>1, <2>2, <2>3, StatesMove DEF Later, RunRows
    <2>5. run' = row
      BY <1>5, <2>2, <2>3
    <2>6. PICK resumed \in BOOLEAN : resumed = req[p].resumed
      BY <1>0 DEF Entries
    <2>7. [req[p] EXCEPT !.at = "calling", !.doc = row]
             = [req[p] EXCEPT !.at = "calling", !.doc = row, !.resumed = resumed]
      BY <1>0, <2>6 DEF Entries
    <2>8. req' = [req EXCEPT ![p] = [req[p] EXCEPT !.at = "calling", !.doc = row]]
      BY <1>0, <1>5, <2>5
    <2>9. handed' \subseteq Nat
      BY <1>0, <1>5, <2>3, <2>5
    <2>10. req' = [req EXCEPT ![p] = [req[p] EXCEPT !.at = "calling", !.doc = row, !.resumed = resumed]]
      BY <2>7, <2>8
    <2>11. row.state = "ANALYZING" /\ row.status = "ACTIVE" /\ run.state \in CancellableStates
      BY <2>1, <2>2, <2>3, StatesMove
    <2>12. req[p].at # "done" /\ mode # "DETERMINISTIC" /\ capOver' \in BOOLEAN /\ lock' = lock /\ lock = Nobody
      BY <1>0, <1>5
    <2>13. UNCHANGED <<mode, analyses, plan, residue, lock, overdue, gatewayVars>>
      BY <1>0, <2>12
    <2> QED
      BY <2>4, <2>5, <2>9, <2>10, <2>11, <2>12, <2>13, CallMoves
  <1> QED
    BY <1>1, <1>3, <1>4, <1>5 DEF BeginAnalysis

\* The death of a worker.
LEMMA CrashMoves ==
    ASSUME RowInv, NEW p \in Requests, Crash(p)
    PROVE  RequestMoves(p)
  <1>0. /\ Finish(p) /\ req[p].at # "done" /\ KeepsRows /\ mode' = mode
        /\ UNCHANGED <<clockVars, handed, gatewayVars>>
        /\ lock' = lock \/ (lock = p /\ lock' = Nobody)
    BY DEF Crash, KeepsRows
  <1> QED
    BY <1>0, FinishMoves DEF RowInv, TypeOK, clockVars

LEMMA RequestsMove ==
    ASSUME RowInv, NEW p \in Requests, RequestStep(p)
    PROVE  RequestMoves(p)
  BY ClosingRequests, ClosingOut, RecoverMoves, SavePlanMoves, EntryLoads, AnswersMove, LoadCloseoutMoves,
     BeginCloseoutMoves, LockPlanMoves, BeginAnalysisMoves, BeginResumeMoves, CrashMoves DEF RequestStep

-----------------------------------------------------------------------------
(* What a step of a Gateway call does. *)

CallEntries == [at : CallPlaces, version : Nat, saw : {"NONE", "STARTED", "SUCCEEDED"}]

GatewayMoves(g) ==
    /\ UNCHANGED <<mode, rowVars, clockVars, req, handed>>
    /\ call' \in [Calls -> CallEntries]
    /\ \A h \in Calls \ {g} : call'[h] = call[h]
    /\ ledger' \in {"NONE", "STARTED", "SUCCEEDED"} /\ reads' \in Nat
    /\ \/ lock' = lock
       \/ lock = Nobody /\ lock' = g
       \/ lock = g /\ lock' = Nobody /\ call'[g].at # "reading"
    /\ call'[g].at = "reading" =>
          lock' = g /\ run.status = "ACTIVE" /\ run.version = call'[g].version

LEMMA AnswerStep ==
    ASSUME TypeOK, NEW g \in Calls, NEW outcome \in {"answered", "cached", "rejected"}, Answer(g, outcome)
    PROVE  /\ call' \in [Calls -> CallEntries]
           /\ \A h \in Calls \ {g} : call'[h] = call[h]
           /\ call'[g].at = outcome
  <1>1. [at |-> outcome, version |-> 0, saw |-> "NONE"] \in CallEntries
    BY DEF CallEntries, CallPlaces
  <1>2. call \in [Calls -> CallEntries]
    BY DEF TypeOK, CallEntries
  <1> QED
    BY <1>1, <1>2 DEF Answer

LEMMA GoCallStep ==
    ASSUME TypeOK, NEW g \in Calls, NEW place \in CallPlaces, GoCall(g, place)
    PROVE  /\ call' \in [Calls -> CallEntries]
           /\ \A h \in Calls \ {g} : call'[h] = call[h]
           /\ call'[g].at = place /\ call'[g].version = call[g].version
  <1>1. call[g] \in CallEntries /\ call \in [Calls -> CallEntries]
    BY DEF TypeOK, CallEntries
  <1>2. call' = [call EXCEPT ![g] = [call[g] EXCEPT !.at = place]]
    BY <1>1 DEF GoCall
  <1>3. [call[g] EXCEPT !.at = place] \in CallEntries
    BY <1>1 DEF CallEntries
  <1> QED
    BY <1>1, <1>2, <1>3 DEF CallEntries

LEMMA CallsMove ==
    ASSUME RowInv, NEW g \in Calls, CallStep(g)
    PROVE  GatewayMoves(g)
  <1>0. TypeOK /\ ledger \in {"NONE", "STARTED", "SUCCEEDED"} /\ reads \in Nat /\ run \in RunRows
        /\ (call[g].at = "reading" => lock = g)
    BY DEF RowInv, TypeOK, LockHeld
  <1>1. ASSUME NEW cap \in handed, Resolve(g, cap)
        PROVE  GatewayMoves(g)
    <2>0. run.version \in Nat
      BY <1>0 DEF RunRows
    <2>1. PICK place \in {"resolved", "started"} :
             place = IF mode = "PLAN_EXECUTE" THEN "resolved" ELSE "started"
      OBVIOUS
    <2>4. PICK t : t = [at |-> place, version |-> run.version, saw |-> ledger]
      OBVIOUS
    <2>2. call' = [call EXCEPT ![g] = t] /\ t.at \in {"resolved", "started"} /\ t \in CallEntries
      BY <1>0, <1>1, <2>0, <2>1, <2>4 DEF Resolve, CallEntries, CallPlaces
    <2>3. call' \in [Calls -> CallEntries] /\ call'[g] = t /\ \A h \in Calls \ {g} : call'[h] = call[h]
      BY <1>0, <2>2 DEF TypeOK, CallEntries
    <2> QED
      BY <1>0, <1>1, <2>2, <2>3 DEF Resolve, GatewayMoves
  <1>2. CASE Reserve(g)
    <2>1. CASE GoCall(g, "started") /\ ledger' = "STARTED"
      BY <1>0, <1>2, <2>1, GoCallStep DEF Reserve, GatewayMoves, CallPlaces
    <2>2. ASSUME NEW outcome \in {"cached", "rejected"}, Answer(g, outcome), ledger' = ledger
          PROVE  GatewayMoves(g)
      BY <1>0, <1>2, <2>2, AnswerStep DEF Reserve, GatewayMoves
    <2> QED
      BY <1>2, <2>1, <2>2 DEF Reserve
  <1>3. CASE Dispatch(g)
    <2>1. CASE Recheck(call[g].version) /\ lock' = g /\ GoCall(g, "reading")
      <3>1. /\ call' \in [Calls -> CallEntries]
            /\ \A h \in Calls \ {g} : call'[h] = call[h]
            /\ call'[g].at = "reading" /\ call'[g].version = call[g].version
        BY <1>0, <2>1, GoCallStep DEF CallPlaces
      <3>2. reads' \in Nat /\ lock = Nobody /\ UNCHANGED <<mode, rowVars, clockVars, req, handed, ledger>>
        BY <1>0, <1>3, <2>1 DEF Dispatch, LockFree
      <3> QED
        BY <1>0, <2>1, <3>1, <3>2 DEF GatewayMoves, Recheck
    <2>2. CASE Answer(g, "rejected") /\ UNCHANGED <<lock, reads>>
      BY <1>0, <1>3, <2>2, AnswerStep DEF Dispatch, GatewayMoves
    <2> QED
      BY <1>3, <2>1, <2>2 DEF Dispatch
  <1>4. CASE CompleteCall(g)
    BY <1>0, <1>4, AnswerStep DEF CompleteCall, GatewayMoves
  <1>5. CASE FailCall(g)
    BY <1>0, <1>5, AnswerStep DEF FailCall, GatewayMoves
  <1>6. CASE CrashCall(g)
    BY <1>0, <1>6, AnswerStep DEF CrashCall, GatewayMoves
  <1> QED
    BY <1>1, <1>2, <1>3, <1>4, <1>5, <1>6 DEF CallStep

-----------------------------------------------------------------------------
(* The rows and the requests that loaded them. *)

\* A later row is later for everybody who loaded an earlier one.
LEMMA AgedLasts ==
    ASSUME NEW t \in Entries, NEW old \in RunRows, NEW new, Aged(t, old), new = old \/ Later(old, new)
    PROVE  Aged(t, new)
  BY DEF Aged, Later, Entries, RunRows

LEMMA RowsLater ==
    ASSUME RowInv, NEW p \in Requests, RequestMoves(p)
    PROVE  run' = run \/ Later(run, run')
  BY DEF RequestMoves, KeepsRows, SavesRun, MovesRun, Commits, SavesAnalysis, SavesPlan, LeavesRows, rowVars

LEMMA RequestKeepsRowInv ==
    ASSUME RowInv, NEW p \in Requests, RequestMoves(p)
    PROVE  RowInv'
  <1> USE DEF rowVars, clockVars, gatewayVars
  <1>0. /\ req \in [Requests -> Entries] /\ run \in RunRows /\ analyses \subseteq Requests
        /\ Nobody \notin Requests \cup Calls /\ Requests \cap Calls = {}
        /\ run' = run \/ Later(run, run')
    BY RowsLater, ConstantsAssumption DEF RowInv, TypeOK, Entries
  <1>1. TypeOK'
    <2>1. run' \in RunRows
      BY <1>0 DEF Later
    <2>2. analyses' \subseteq Requests /\ plan' \in Requests \cup {Nobody} /\ residue' \subseteq Requests
      BY DEF RequestMoves, KeepsRows, SavesRun, Commits, SavesAnalysis, SavesPlan, LeavesRows, RowInv, TypeOK
    <2>3. lock' \in Requests \cup Calls \cup {Nobody}
      BY DEF RequestMoves, MovesLock, RowInv, TypeOK
    <2>4. req' \in [Requests -> [at : Places, doc : RunRows, resumed : BOOLEAN,
                                 target : {"FAILED", "CANCELLED", "EXPIRED"}]]
      BY DEF RequestMoves, Entries
    <2> QED
      BY <2>1, <2>2, <2>3, <2>4 DEF RequestMoves, RowInv, TypeOK
  <1>2. ExpiredIsClosed'
    BY <1>0 DEF Later, RowInv, ExpiredIsClosed
  <1>3. LoadedRows'
    BY DEF RequestMoves, LoadedRows, LoadedFor, RowInv
  <1>4. RowsAge'
    <2>1. \A q \in Requests : Aged(req[q], run)
      BY DEF RowInv, RowsAge, Aged
    <2>2. \A q \in Requests : Aged(req'[q], run')
      <3>1. ASSUME NEW q \in Requests \ {p} PROVE Aged(req'[q], run')
        BY <1>0, <2>1, <3>1, AgedLasts DEF RequestMoves
      <3> QED
        BY <3>1 DEF RequestMoves
    <2> QED
      BY <2>2 DEF RowsAge, Aged
  <1>5. OneAnalysis'
    <2>0. /\ CancellableStates = {"CREATED", "ANALYZING"} /\ req[p].at # "done"
          /\ p \notin analyses \cup residue /\ p # plan /\ p # Nobody
      BY <1>0, StatesMove DEF RequestMoves, RowInv, OneAnalysis
    <2>1. \A q \in Requests : q \in analyses \cup residue \/ q = plan => req'[q].at = "done"
      BY <1>0, <2>0 DEF RequestMoves, RowInv, OneAnalysis
    <2>2. CASE KeepsRows
      BY <2>1, <2>2 DEF KeepsRows, RowInv, OneAnalysis
    <2>3. CASE SavesRun
      BY <2>0, <2>1, <2>3 DEF SavesRun, MovesRun, RowInv, OneAnalysis
    <2>4. CASE SavesAnalysis(p) /\ req'[p].at = "done"
      <3>1. analyses \subseteq residue /\ run'.state = "PROPOSED" /\ analyses' = analyses \cup {p}
            /\ residue' = residue /\ plan' = plan
        BY <2>0, <2>4 DEF SavesAnalysis, RowInv, OneAnalysis
      <3>2. analyses' \ residue' = {p}
        BY <2>0, <3>1
      <3> QED
        BY <2>1, <2>4, <3>1, <3>2 DEF OneAnalysis
    <2>5. CASE SavesPlan(p) /\ req'[p].at = "done"
      BY <2>1, <2>5 DEF SavesPlan, RowInv, OneAnalysis
    <2>6. CASE LeavesRows(p) /\ req'[p].at = "done"
      <3>1. /\ residue' = residue \cup {p} /\ analyses' \subseteq analyses \cup {p} /\ analyses \subseteq analyses'
            /\ plan' = plan \/ plan' = p
        BY <2>6 DEF LeavesRows
      <3>2. analyses' \ residue' = analyses \ residue
        BY <2>0, <3>1
      <3>3. /\ run.state \in {"PROPOSED", "SUCCEEDED"} <=> run'.state \in {"PROPOSED", "SUCCEEDED"}
        BY <2>0, <2>6 DEF LeavesRows, MovesRun
      <3>4. IF run'.state \in {"PROPOSED", "SUCCEEDED"} THEN \E q \in Requests : analyses' \ residue' = {q}
                                                        ELSE analyses' \subseteq residue'
        BY <3>1, <3>2, <3>3 DEF RowInv, OneAnalysis
      <3> QED
        BY <2>1, <2>6, <3>1, <3>4 DEF OneAnalysis
    <2> QED
      BY <2>2, <2>3, <2>4, <2>5, <2>6 DEF RequestMoves, Commits
  <1>6. PlanIffSucceeded'
    <2>0. /\ CancellableStates = {"CREATED", "ANALYZING"}
          /\ plan \notin residue \cup {Nobody} <=> run.state = "SUCCEEDED"
          /\ p \notin residue /\ p # plan /\ p # Nobody
      BY <1>0, StatesMove DEF RowInv, PlanIffSucceeded, RequestMoves, OneAnalysis
    <2>1. CASE KeepsRows
      BY <2>0, <2>1 DEF KeepsRows, PlanIffSucceeded
    <2>2. CASE SavesRun
      BY <2>0, <2>2 DEF SavesRun, MovesRun, PlanIffSucceeded
    <2>3. CASE SavesAnalysis(p)
      BY <2>0, <2>3 DEF SavesAnalysis, PlanIffSucceeded
    <2>4. CASE SavesPlan(p)
      BY <2>0, <2>4 DEF SavesPlan, PlanIffSucceeded
    <2>5. CASE LeavesRows(p)
      BY <2>0, <2>5 DEF LeavesRows, MovesRun, PlanIffSucceeded
    <2> QED
      BY <2>1, <2>2, <2>3, <2>4, <2>5 DEF RequestMoves, Commits
  <1>7. /\ \A q \in Requests \ {p} : req'[q] = req[q]
        /\ call' = call /\ mode' = mode
        /\ \/ lock' = lock
           \/ lock = Nobody /\ lock' = p
           \/ lock = p /\ lock' = Nobody
        /\ KeepsRows \/ lock = Nobody \/ lock = p
    BY DEF RequestMoves, MovesLock
  <1>8. /\ \A q \in Requests : req[q].at \in {"closing", "planning"} => lock = q
        /\ \A g \in Calls : call[g].at = "reading" => lock = g
    BY DEF RowInv, LockHeld
  <1>9. LockHeld'
    <2>1. ASSUME NEW q \in Requests, req'[q].at \in {"closing", "planning"} PROVE lock' = q
      <3>1. CASE q = p
        BY <2>1, <3>1 DEF RequestMoves
      <3>2. CASE q # p
        BY <1>0, <1>7, <1>8, <2>1, <3>2
      <3> QED
        BY <3>1, <3>2
    <2>2. ASSUME NEW g \in Calls, call'[g].at = "reading" PROVE lock' = g
      BY <1>0, <1>7, <1>8, <2>2
    <2> QED
      BY <2>1, <2>2 DEF LockHeld
  <1>10. QuietWhileReading'
    <2>1. ASSUME NEW g \in Calls, call'[g].at = "reading"
          PROVE  run'.status = "ACTIVE" /\ run'.version = call'[g].version
      <3>1. lock = g /\ KeepsRows
        BY <1>0, <1>7, <1>8, <2>1
      <3> QED
        BY <2>1, <3>1 DEF RequestMoves, KeepsRows, RowInv, QuietWhileReading
    <2>2. ASSUME NEW q \in Requests, req'[q].at = "closing", mode' # "DETERMINISTIC"
          PROVE  /\ run'.status = "ACTIVE" /\ run'.state = "ANALYZING"
                 /\ run'.version = req'[q].doc.version
      <3>1. CASE q = p
        BY <2>2, <3>1 DEF RequestMoves
      <3>2. CASE q # p
        <4>1. req'[q] = req[q] /\ lock = q /\ KeepsRows
          BY <1>0, <1>7, <1>8, <2>2, <3>2
        <4> QED
          BY <2>2, <4>1 DEF RequestMoves, KeepsRows, RowInv, QuietWhileReading
      <3> QED
        BY <3>1, <3>2
    <2> QED
      BY <2>1, <2>2 DEF QuietWhileReading
  <1> QED
    BY <1>1, <1>2, <1>3, <1>4, <1>5, <1>6, <1>9, <1>10 DEF RowInv

LEMMA CallKeepsRowInv ==
    ASSUME RowInv, NEW g \in Calls, GatewayMoves(g)
    PROVE  RowInv'
  <1> USE DEF rowVars, clockVars
  <1>0. Nobody \notin Requests \cup Calls /\ Requests \cap Calls = {}
    BY ConstantsAssumption
  <1>1. TypeOK'
    BY DEF RowInv, TypeOK, GatewayMoves, CallEntries
  <1>2. ExpiredIsClosed' /\ LoadedRows' /\ RowsAge' /\ OneAnalysis' /\ PlanIffSucceeded'
    BY DEF RowInv, ExpiredIsClosed, LoadedRows, LoadedFor, RowsAge, OneAnalysis, PlanIffSucceeded, GatewayMoves
  <1>3. LockHeld'
    <2>1. ASSUME NEW q \in Requests, req'[q].at \in {"closing", "planning"} PROVE lock' = q
      BY <1>0, <2>1 DEF RowInv, LockHeld, GatewayMoves
    <2>2. ASSUME NEW h \in Calls, call'[h].at = "reading" PROVE lock' = h
      BY <1>0, <2>2 DEF RowInv, LockHeld, GatewayMoves
    <2> QED
      BY <2>1, <2>2 DEF LockHeld
  <1>4. QuietWhileReading'
    BY DEF RowInv, QuietWhileReading, GatewayMoves
  <1> QED
    BY <1>1, <1>2, <1>3, <1>4 DEF RowInv

\* The clocks only move the clocks.
LEMMA RowInvStep ==
    ASSUME RowInv, [Next]_vars
    PROVE  RowInv'
  <1>1. ASSUME NEW p \in Requests, RequestStep(p) PROVE RowInv'
    BY <1>1, RequestsMove, RequestKeepsRowInv
  <1>2. ASSUME NEW g \in Calls, CallStep(g) PROVE RowInv'
    BY <1>2, CallsMove, CallKeepsRowInv
  <1>3. CASE CapabilityExpires \/ DeadlinePasses \/ UNCHANGED vars
    <2>1. /\ UNCHANGED <<mode, run, analyses, plan, residue, lock, req, handed, call, ledger, reads>>
          /\ capOver' \in BOOLEAN /\ overdue' \in BOOLEAN
      BY <1>3 DEF CapabilityExpires, DeadlinePasses, vars, rowVars, clockVars, gatewayVars, RowInv, TypeOK
    <2>2. TypeOK'
      BY <2>1 DEF RowInv, TypeOK
    <2> QED
      BY <2>1, <2>2 DEF RowInv, ExpiredIsClosed, LoadedRows, LoadedFor, RowsAge, OneAnalysis,
                        PlanIffSucceeded, LockHeld, QuietWhileReading
  <1> QED
    BY <1>1, <1>2, <1>3 DEF Next

LEMMA RowInvariance == Spec => []RowInv
  <1>1. Init => RowInv
    <2> SUFFICES ASSUME Init PROVE RowInv
      OBVIOUS
    <2>1. req \in [Requests -> Entries] /\ \A q \in Requests : req[q].at = "idle"
      BY NewRunType DEF Init, Idle
    <2>2. TypeOK
      <3>1. call \in [Calls -> CallEntries]
        BY DEF Init, CallEntries, CallPlaces
      <3> QED
        BY <2>1, <3>1, NewRunType DEF Init, TypeOK, Entries, CallEntries
    <2>3. run.state = "CREATED" /\ run.status = "ACTIVE" /\ \A g \in Calls : call[g].at = "idle"
      BY DEF Init, NewRun
    <2>4. LoadedRows /\ RowsAge /\ LockHeld
      BY <2>1, <2>3 DEF LoadedRows, LoadedFor, RowsAge, LockHeld
    <2>5. ExpiredIsClosed /\ OneAnalysis /\ PlanIffSucceeded /\ QuietWhileReading
      BY <2>1, <2>3, ConstantsAssumption
         DEF Init, ExpiredIsClosed, OneAnalysis, PlanIffSucceeded, QuietWhileReading
    <2> QED
      BY <2>2, <2>4, <2>5 DEF RowInv
  <1> QED
    BY <1>1, RowInvStep, PTL DEF Spec

-----------------------------------------------------------------------------
(* The theorems. *)

\* Apart from what a failing delete left, plan_run finds the rows of exactly
\* one analysis in a proposed Run and none in a Run that was closed or sent back
\* before it was proposed, and a plan exists exactly when the Run succeeded:
\* recoveries, conflicts, rollbacks, runtime answers that come late and the
\* deaths of workers included.
THEOREM RowsAlwaysMatchState == Spec => []RowsMatchState
  <1>1. RowInv => RowsMatchState
    <2> SUFFICES ASSUME RowInv PROVE RowsMatchState
      OBVIOUS
    <2>1. \A q \in Requests : Cardinality({q}) = 1
      BY FS_Singleton
    <2>2. WholeAnalysis
      BY <2>1 DEF RowInv, OneAnalysis, WholeAnalysis
    <2> QED
      BY <2>2 DEF RowInv, RowsMatchState
  <1> QED
    BY <1>1, RowInvariance, PTL

\* No save of analyze_run, resume_run, cancel_run, revoke_run, plan_run or
\* their recoveries makes a closed Run active again or moves a finished one,
\* however long ago the request loaded the row.
THEOREM ClosedRunsAreNeverRevived == Spec => NeverRevived
  <1>1. RowInv /\ [Next]_vars =>
          [/\ run.status # "ACTIVE" => run'.status = run.status
           /\ run.state \in TerminalStates => run'.state = run.state]_vars
    <2> SUFFICES ASSUME RowInv, [Next]_vars
                 PROVE  /\ run.status # "ACTIVE" => run'.status = run.status
                        /\ run.state \in TerminalStates => run'.state = run.state
      OBVIOUS
    <2>1. run' = run \/ Later(run, run')
      <3>1. ASSUME NEW p \in Requests, RequestStep(p) PROVE run' = run \/ Later(run, run')
        BY <3>1, RequestsMove, RowsLater
      <3>2. ASSUME NEW g \in Calls, CallStep(g) PROVE run' = run
        BY <3>2, CallsMove DEF GatewayMoves, rowVars
      <3>3. CASE CapabilityExpires \/ DeadlinePasses \/ UNCHANGED vars
        BY <3>3 DEF CapabilityExpires, DeadlinePasses, vars, rowVars
      <3> QED
        BY <3>1, <3>2, <3>3 DEF Next
    <2> QED
      BY <2>1 DEF Later
  <1> QED
    BY <1>1, RowInvariance, PTL DEF Spec, NeverRevived

LEMMA ReservedOnceStep ==
    ASSUME RowInv, ReservedOnce, [Next]_vars
    PROVE  ReservedOnce'
  <1> USE DEF rowVars, clockVars, gatewayVars
  <1>0. TypeOK /\ call \in [Calls -> CallEntries] /\ reads \in Nat
    BY DEF RowInv, TypeOK, CallEntries
  <1>1. CASE UNCHANGED <<mode, call, ledger, reads>>
    BY <1>1 DEF ReservedOnce
  <1>2. ASSUME NEW g \in Calls, NEW outcome \in {"answered", "cached", "rejected"}, Answer(g, outcome),
               UNCHANGED <<mode, reads>>, ledger' = ledger \/ ledger' = "SUCCEEDED"
        PROVE  ReservedOnce'
    BY <1>0, <1>2, AnswerStep DEF ReservedOnce
  <1>3. ASSUME NEW g \in Calls, NEW cap, Resolve(g, cap)
        PROVE  ReservedOnce'
    <2>1. \A h \in Calls \ {g} : call'[h] = call[h]
      BY <1>0, <1>3 DEF Resolve
    <2>2. mode = "PLAN_EXECUTE" => call'[g].at = "resolved"
      BY <1>0, <1>3 DEF Resolve
    <2>3. UNCHANGED <<mode, ledger, reads>>
      BY <1>3 DEF Resolve
    <2> QED
      BY <2>1, <2>2, <2>3 DEF ReservedOnce
  <1>4. ASSUME NEW g \in Calls, Reserve(g)
        PROVE  ReservedOnce'
    <2>1. CASE ledger = "NONE" /\ ledger' = "STARTED" /\ GoCall(g, "started")
      <3>1. /\ \A h \in Calls \ {g} : call'[h] = call[h]
            /\ call'[g].at = "started" /\ UNCHANGED <<mode, reads>>
        BY <1>0, <1>4, <2>1, GoCallStep DEF Reserve, CallPlaces
      <3> QED
        BY <2>1, <3>1 DEF ReservedOnce
    <2>2. ASSUME NEW outcome \in {"cached", "rejected"}, Answer(g, outcome), ledger' = ledger
          PROVE  ReservedOnce'
      BY <1>2, <1>4, <2>2 DEF Reserve
    <2> QED
      BY <1>4, <2>1, <2>2 DEF Reserve
  <1>5. ASSUME NEW g \in Calls, Dispatch(g)
        PROVE  ReservedOnce'
    <2>1. CASE GoCall(g, "reading") /\ reads' = IF mode = "PLAN_EXECUTE" THEN reads + 1 ELSE reads
      <3>1. /\ \A h \in Calls \ {g} : call'[h] = call[h]
            /\ call'[g].at = "reading" /\ UNCHANGED <<mode, ledger>> /\ call[g].at = "started"
        BY <1>0, <1>5, <2>1, GoCallStep DEF Dispatch, CallPlaces
      <3>2. CASE mode # "PLAN_EXECUTE"
        BY <2>1, <3>1, <3>2 DEF ReservedOnce
      <3>3. CASE mode = "PLAN_EXECUTE"
        <4>1. reads = 0 /\ ledger # "NONE" /\ \A h \in Calls : call[h].at = "started" => h = g
          BY <3>1, <3>3 DEF ReservedOnce
        <4>2. reads' = 1 /\ \A h \in Calls : call'[h].at # "started"
          BY <2>1, <3>1, <3>3, <4>1
        <4> QED
          BY <3>1, <3>3, <4>1, <4>2 DEF ReservedOnce
      <3> QED
        BY <3>2, <3>3
    <2>2. CASE Answer(g, "rejected") /\ UNCHANGED <<lock, reads>>
      BY <1>2, <1>5, <2>2 DEF Dispatch
    <2> QED
      BY <1>5, <2>1, <2>2 DEF Dispatch
  <1>6. ASSUME NEW g \in Calls, CompleteCall(g) \/ FailCall(g) \/ CrashCall(g)
        PROVE  ReservedOnce'
    BY <1>2, <1>6 DEF CompleteCall, FailCall, CrashCall
  <1>7. ASSUME NEW p \in Requests, RequestStep(p)
        PROVE  UNCHANGED <<mode, call, ledger, reads>>
    BY <1>7, RequestsMove DEF RequestMoves
  <1>8. CASE CapabilityExpires \/ DeadlinePasses \/ UNCHANGED vars
    BY <1>1, <1>8 DEF CapabilityExpires, DeadlinePasses, vars
  <1> QED
    BY <1>1, <1>3, <1>4, <1>5, <1>6, <1>7, <1>8 DEF Next, CallStep

\* A handler reads ERP under a Run that stays active and in the version it was
\* admitted for, a closeout likewise, and one workflow invocation is read at
\* most once although the runtime repeats it and workers die.
THEOREM ReadsAreAlwaysSound == Spec => []ReadsAreSound
  <1>1. Init => ReservedOnce
    BY DEF Init, ReservedOnce
  <1>2. RowInv /\ ReservedOnce /\ [Next]_vars => ReservedOnce'
    BY ReservedOnceStep
  <1>3. RowInv /\ ReservedOnce => ReadsAreSound
    BY DEF RowInv, ReservedOnce, ReadsAreSound, ReadAtMostOnce, TypeOK
  <1> QED
    BY <1>1, <1>2, <1>3, RowInvariance, PTL DEF Spec

-----------------------------------------------------------------------------
(***************************************************************************)
(* ScopeAnalysis, for any ledgers, scopes, goals, page size and limits.    *)
(*                                                                         *)
(* sorted(): a finite set in a total order.                                *)
(***************************************************************************)
\* A strict total order of S, as the set of its pairs.
Orders(order, S) ==
    /\ order \subseteq S \X S
    /\ \A x \in S : <<x, x>> \notin order
    /\ \A x, y, z \in S : <<x, y>> \in order /\ <<y, z>> \in order => <<x, z>> \in order
    /\ \A x, y \in S : x = y \/ <<x, y>> \in order \/ <<y, x>> \in order

\* Ranked lists a finite set: every member once, each after those that precede it.
LEMMA RankedLists ==
    ASSUME NEW S, IsFiniteSet(S), NEW order, Orders(order, S)
    PROVE  /\ Cardinality(S) \in Nat
           /\ Ranked(S, order) \in [1..Cardinality(S) -> S]
           /\ \A x \in S : \E k \in 1..Cardinality(S) : Ranked(S, order)[k] = x
           /\ \A j, k \in 1..Cardinality(S) :
                j < k => <<Ranked(S, order)[j], Ranked(S, order)[k]>> \in order
           /\ \A j, k \in 1..Cardinality(S) : Ranked(S, order)[j] = Ranked(S, order)[k] => j = k
<1> DEFINE below(x) == {y \in S : <<y, x>> \in order}
<1> DEFINE T == 1..Cardinality(S)
<1> DEFINE f == [x \in S |-> Cardinality(below(x)) + 1]
<1> DEFINE r == Ranked(S, order)
<1>1. Cardinality(S) \in Nat
  BY FS_CardinalityType
<1>2. ASSUME NEW x \in S
      PROVE IsFiniteSet(below(x)) /\ Cardinality(below(x)) \in Nat /\ Cardinality(below(x)) + 1 \in T
  <2>1. below(x) \in SUBSET S
    OBVIOUS
  <2>2. IsFiniteSet(below(x)) /\ Cardinality(below(x)) <= Cardinality(S)
    BY <2>1, FS_Subset
  <2>3. Cardinality(below(x)) \in Nat
    BY <2>2, FS_CardinalityType
  <2>4. x \notin below(x)
    BY DEF Orders
  <2>5. Cardinality(below(x)) # Cardinality(S)
    BY <2>1, <2>4, FS_Subset
  <2> HIDE DEF below
  <2> QED
    BY <1>1, <2>2, <2>3, <2>5
<1>3. ASSUME NEW x \in S, NEW y \in S, <<x, y>> \in order
      PROVE Cardinality(below(x)) < Cardinality(below(y))
  <2>1. below(x) \in SUBSET below(y)
    BY <1>3 DEF Orders
  <2>2. x \in below(y) /\ x \notin below(x)
    BY <1>3 DEF Orders
  <2>3. IsFiniteSet(below(y))
    BY <1>2
  <2>4. /\ Cardinality(below(x)) <= Cardinality(below(y))
        /\ Cardinality(below(y)) = Cardinality(below(x)) => below(y) = below(x)
    BY <2>1, <2>3, FS_Subset
  <2>5. Cardinality(below(x)) # Cardinality(below(y))
    BY <2>2, <2>4
  <2>6. Cardinality(below(x)) \in Nat /\ Cardinality(below(y)) \in Nat
    BY <1>2
  <2> QED
    BY <2>4, <2>5, <2>6
<1>4. r = [k \in T |-> CHOOSE x \in S : Cardinality(below(x)) = k - 1]
  BY DEF Ranked
<1> HIDE DEF below, r
<1>5. f \in [S -> T] /\ \A x \in S : f[x] = Cardinality(below(x)) + 1
  BY <1>2
<1>6. \A x, y \in S : f[x] = f[y] => x = y
  <2>1. SUFFICES ASSUME NEW x \in S, NEW y \in S, x # y
                 PROVE f[x] # f[y]
    OBVIOUS
  <2>2. <<x, y>> \in order \/ <<y, x>> \in order
    BY <2>1 DEF Orders
  <2>3. Cardinality(below(x)) \in Nat /\ Cardinality(below(y)) \in Nat
    BY <1>2
  <2>4. Cardinality(below(x)) # Cardinality(below(y))
    BY <1>3, <2>2, <2>3
  <2> QED
    BY <1>5, <2>3, <2>4
<1> HIDE DEF f
<1>7. f \in Injection(S, T)
  BY <1>5, <1>6 DEF Injection, IsInjective
<1>8. IsFiniteSet(T) /\ Cardinality(T) = Cardinality(S)
  BY <1>1, FS_Interval
<1>9. f \in Surjection(S, T)
  BY <1>7, <1>8, FS_Injection
<1>10. ASSUME NEW k \in T
      PROVE r[k] \in S /\ f[r[k]] = k
  <2>1. PICK x \in S : f[x] = k
    BY <1>9 DEF Surjection
  <2>2. Cardinality(below(x)) = k - 1
    BY <1>2, <1>5, <2>1
  <2>3. r[k] \in S /\ Cardinality(below(r[k])) = k - 1
    BY <1>4, <2>2
  <2> QED
    BY <1>2, <1>5, <2>3
<1>11. r \in [T -> S]
  BY <1>4, <1>10
<1>12. ASSUME NEW x \in S PROVE \E k \in T : r[k] = x
  <2>1. f[x] \in T
    BY <1>5
  <2>2. r[f[x]] = x
    BY <1>6, <1>10, <2>1
  <2> QED
    BY <2>1, <2>2
<1>13. ASSUME NEW j \in T, NEW k \in T, j < k PROVE <<r[j], r[k]>> \in order
  <2>1. /\ r[j] \in S /\ Cardinality(below(r[j])) + 1 = j
        /\ r[k] \in S /\ Cardinality(below(r[k])) + 1 = k
    BY <1>5, <1>10
  <2>2. Cardinality(below(r[j])) \in Nat /\ Cardinality(below(r[k])) \in Nat
    BY <1>2, <2>1
  <2>3. Cardinality(below(r[j])) < Cardinality(below(r[k]))
    BY <1>13, <2>1, <2>2
  <2>4. r[j] = r[k] \/ <<r[j], r[k]>> \in order \/ <<r[k], r[j]>> \in order
    BY <2>1, Zenon DEF Orders
  <2>5. r[j] # r[k]
    BY <2>2, <2>3
  <2>6. <<r[k], r[j]>> \notin order
    BY <1>3, <2>1, <2>2, <2>3
  <2> QED
    BY <2>4, <2>5, <2>6
<1>14. \A j, k \in T : r[j] = r[k] => j = k
  BY <1>10
<1> QED
  BY <1>1, <1>11, <1>12, <1>13, <1>14 DEF r

\* The keys of lines, compared member by member, are in a total order.
Keys == Nat \X Nat \X Nat

\* How two keys compare.
LEMMA KeysCompared ==
    ASSUME NEW a \in Keys, NEW b \in Keys
    PROVE  /\ a = <<a[1], a[2], a[3]>> /\ a[1] \in Nat /\ a[2] \in Nat /\ a[3] \in Nat
           /\ Before(a, b) <=> \/ a[1] < b[1]
                               \/ a[1] = b[1] /\ a[2] < b[2]
                               \/ a[1] = b[1] /\ a[2] = b[2] /\ a[3] < b[3]
<1>1. a = <<a[1], a[2], a[3]>> /\ a[1] \in Nat /\ a[2] \in Nat /\ a[3] \in Nat
  BY DEF Keys
<1>2. b[1] \in Nat /\ b[2] \in Nat /\ b[3] \in Nat
  BY DEF Keys
<1>3. DOMAIN a = 1..3
  BY DEF Keys
<1>4. \A k \in 1..3 : k = 1 \/ k = 2 \/ k = 3
  OBVIOUS
<1> DEFINE agrees(k) == a[k] < b[k] /\ \A j \in 1..(k - 1) : a[j] = b[j]
<1>5. /\ agrees(1) <=> a[1] < b[1]
      /\ agrees(2) <=> a[1] = b[1] /\ a[2] < b[2]
      /\ agrees(3) <=> a[1] = b[1] /\ a[2] = b[2] /\ a[3] < b[3]
  <2>1. 1..(1 - 1) = {} /\ 1..(2 - 1) = {1} /\ 1..(3 - 1) = {1, 2}
    OBVIOUS
  <2> QED
    BY <2>1, Zenon
<1>6. Before(a, b) <=> \E k \in 1..3 : agrees(k)
  BY <1>3 DEF Before
<1> HIDE DEF agrees
<1> QED
  BY <1>1, <1>4, <1>5, <1>6

\* Before orders any keys.
LEMMA KeysAreOrdered ==
    ASSUME NEW S \in SUBSET Keys
    PROVE  Orders({p \in S \X S : Before(p[1], p[2])}, S)
<1> DEFINE R == {p \in S \X S : Before(p[1], p[2])}
<1>1. \A x, y \in S : <<x, y>> \in R <=> Before(x, y)
  OBVIOUS
<1>2. R \subseteq S \X S
  OBVIOUS
<1> HIDE DEF R
<1>3. ASSUME NEW x \in S PROVE ~Before(x, x)
  BY KeysCompared
<1>4. ASSUME NEW x \in S, NEW y \in S, NEW z \in S, Before(x, y), Before(y, z)
      PROVE Before(x, z)
  <2> x \in Keys /\ y \in Keys /\ z \in Keys
    OBVIOUS
  <2> QED
    BY <1>4, KeysCompared
<1>5. ASSUME NEW x \in S, NEW y \in S
      PROVE x = y \/ Before(x, y) \/ Before(y, x)
  <2> x \in Keys /\ y \in Keys
    OBVIOUS
  <2> QED
    BY KeysCompared
<1>6. Orders(R, S)
  BY <1>1, <1>2, <1>3, <1>4, <1>5 DEF Orders
<1> QED
  BY <1>6 DEF R

\* So does <, any numbers.
LEMMA NumbersAreOrdered ==
    ASSUME NEW S \in SUBSET Nat
    PROVE  Orders({p \in S \X S : Smaller(p[1], p[2])}, S)
<1> DEFINE R == {p \in S \X S : Smaller(p[1], p[2])}
<1>1. \A x, y \in S : <<x, y>> \in R <=> x < y
  BY DEF Smaller
<1>2. R \subseteq S \X S
  OBVIOUS
<1> HIDE DEF R
<1>3. Orders(R, S)
  BY <1>1, <1>2 DEF Orders
<1> QED
  BY <1>3 DEF R

-----------------------------------------------------------------------------
(***************************************************************************)
(* Sums over finite sets, by least exceptions: what a sum is follows from  *)
(* what the sums over strict subsets are.                                  *)
(***************************************************************************)
\* A claim about the subsets of a finite set holds of all of them if it holds of each whose
\* strict subsets it holds of: a least exception would be none.
LEMMA NoLeastException ==
    ASSUME NEW S, IsFiniteSet(S), NEW C \in SUBSET SUBSET S,
           \A U \in SUBSET S : (\A V \in SUBSET U : V # U => V \in C) => U \in C
    PROVE  \A U \in SUBSET S : U \in C
<1> DEFINE T == (SUBSET S) \ C
<1>1. SUFFICES ASSUME T # {} PROVE FALSE
  OBVIOUS
<1>2. FiniteSubsetsOf(S) = SUBSET S
  BY FS_FiniteSubsetsOfFinite
<1>3. IsWellFoundedOn(StrictSubsetOrdering(S), SUBSET S)
  BY <1>2, FS_StrictSubsetOrderingWellFounded
<1>4. T \subseteq SUBSET S
  OBVIOUS
<1>5. PICK U \in T : \A V \in T : <<V, U>> \notin StrictSubsetOrdering(S)
  <2> DEFINE R == StrictSubsetOrdering(S)
  <2> DEFINE P == SUBSET S
  <2>1. IsWellFoundedOn(R, P) /\ T \subseteq P /\ T # {}
    BY <1>1, <1>3
  <2> HIDE DEF R, P, T
  <2>2. \E U \in T : \A V \in T : ~(<<V, U>> \in R)
    BY <2>1, WFMin
  <2> QED
    BY <2>2 DEF R
<1>6. ASSUME NEW V \in SUBSET U, V # U PROVE V \in C
  <2>1. V \in SUBSET S /\ U \in SUBSET S
    OBVIOUS
  <2>2. <<V, U>> \in StrictSubsetOrdering(S)
    BY <1>6, <2>1 DEF StrictSubsetOrdering
  <2> QED
    BY <1>5, <2>1, <2>2
<1> QED
  BY <1>6

\* The sums of f over the subsets of S
First(s) == CHOOSE x \in s : TRUE
Sums(g, f, S) == g = [s \in SUBSET S |-> IF s = {} THEN 0 ELSE f[First(s)] + g[s \ {First(s)}]]
SumsOf(f, S) == CHOOSE g : Sums(g, f, S)

\* Sums over the subsets of two sets agree where both have one.
LEMMA SumsAgree ==
    ASSUME NEW f, NEW S, NEW T, NEW U, IsFiniteSet(U), U \subseteq S, U \subseteq T,
           NEW g, Sums(g, f, S), NEW h, Sums(h, f, T)
    PROVE  g[U] = h[U]
<1> DEFINE C == {V \in SUBSET U : g[V] = h[V]}
<1>1. ASSUME NEW V \in SUBSET U, \A W \in SUBSET V : W # V => W \in C
      PROVE V \in C
  <2>1. V \in SUBSET S /\ V \in SUBSET T
    OBVIOUS
  <2>2. /\ g[V] = IF V = {} THEN 0 ELSE f[First(V)] + g[V \ {First(V)}]
        /\ h[V] = IF V = {} THEN 0 ELSE f[First(V)] + h[V \ {First(V)}]
    BY <2>1 DEF Sums
  <2>3. V # {} => g[V \ {First(V)}] = h[V \ {First(V)}]
    <3>1. V # {} => First(V) \in V
      BY DEF First
    <3>2. V # {} => V \ {First(V)} \in SUBSET V /\ V \ {First(V)} # V
      BY <3>1
    <3> QED
      BY <1>1, <3>2
  <2> QED
    BY <2>2, <2>3
<1>2. C \in SUBSET SUBSET U
  OBVIOUS
<1> HIDE DEF C
<1>3. U \in C
  BY <1>1, <1>2, NoLeastException
<1> QED
  BY <1>3 DEF C

\* There are such sums: those over a set follow from those over its strict subsets.
LEMMA SumsExist ==
    ASSUME NEW f, NEW S, IsFiniteSet(S)
    PROVE  Sums(SumsOf(f, S), f, S)
<1> DEFINE C == {U \in SUBSET S : \E g : Sums(g, f, U)}
<1>1. ASSUME NEW U \in SUBSET S, \A V \in SUBSET U : V # U => V \in C
      PROVE U \in C
  <2> DEFINE at(s) == SumsOf(f, s)[s]
  <2> DEFINE below(s) == IF s = {} THEN 0 ELSE f[First(s)] + at(s \ {First(s)})
  <2> DEFINE g == [s \in SUBSET U |-> below(s)]
  <2>1. ASSUME NEW V \in SUBSET U, V # U PROVE Sums(SumsOf(f, V), f, V)
    <3>1. \E h : Sums(h, f, V)
      BY <1>1, <2>1
    <3> QED
      BY <3>1 DEF SumsOf
  <2>2. ASSUME NEW V \in SUBSET U, V # U PROVE at(V) = below(V)
    <3>1. Sums(SumsOf(f, V), f, V)
      BY <2>1, <2>2
    <3>2. at(V) = IF V = {} THEN 0 ELSE f[First(V)] + SumsOf(f, V)[V \ {First(V)}]
      BY <3>1 DEF Sums
    <3>3. CASE V = {}
      BY <3>2, <3>3
    <3>4. CASE V # {}
      <4> DEFINE W == V \ {First(V)}
      <4>1. First(V) \in V
        BY <3>4 DEF First
      <4>2. W \in SUBSET U /\ W \subseteq V /\ W # U
        BY <4>1
      <4>3. Sums(SumsOf(f, W), f, W)
        BY <2>1, <4>2
      <4>4. IsFiniteSet(W)
        <5>1. W \in SUBSET S
          OBVIOUS
        <5> QED
          BY <5>1, FS_Subset
      <4>5. SumsOf(f, V)[W] = SumsOf(f, W)[W]
        BY <3>1, <4>2, <4>3, <4>4, SumsAgree
      <4> QED
        BY <3>2, <3>4, <4>5
    <3> QED
      BY <3>3, <3>4
  <2>3. \A s \in SUBSET U : s # {} => First(s) \in s
    BY DEF First
  <2>4. ASSUME NEW s \in SUBSET U, s # {} PROVE g[s \ {First(s)}] = at(s \ {First(s)})
    <3>1. s \ {First(s)} \in SUBSET U /\ s \ {First(s)} # U
      BY <2>3, <2>4
    <3>2. g[s \ {First(s)}] = below(s \ {First(s)})
      BY <3>1
    <3> HIDE DEF at, below
    <3> QED
      BY <2>2, <3>1, <3>2
  <2>5. g = [s \in SUBSET U |-> IF s = {} THEN 0 ELSE f[First(s)] + g[s \ {First(s)}]]
    <3>1. \A s \in SUBSET U : below(s) = IF s = {} THEN 0 ELSE f[First(s)] + g[s \ {First(s)}]
      <4> TAKE s \in SUBSET U
      <4>1. CASE s = {}
        BY <4>1
      <4>2. CASE s # {}
        <5>1. below(s) = f[First(s)] + at(s \ {First(s)})
          BY <4>2
        <5> HIDE DEF below, at, g
        <5> QED
          BY <2>4, <4>2, <5>1
      <4> QED
        BY <4>1, <4>2
    <3> DEFINE e(s) == IF s = {} THEN 0 ELSE f[First(s)] + g[s \ {First(s)}]
    <3>2. g = [s \in SUBSET U |-> below(s)] /\ \A s \in SUBSET U : below(s) = e(s)
      BY <3>1
    <3> HIDE DEF g, below, e
    <3>3. g = [s \in SUBSET U |-> e(s)]
      BY <3>2
    <3> QED
      BY <3>3 DEF e
  <2>6. Sums(g, f, U)
    <3> HIDE DEF g
    <3> QED
      BY <2>5 DEF Sums
  <2> HIDE DEF g
  <2> QED
    BY <2>6
<1>2. C \in SUBSET SUBSET S
  OBVIOUS
<1> HIDE DEF C
<1>3. S \in C
  BY <1>1, <1>2, NoLeastException
<1>4. \E g : Sums(g, f, S)
  BY <1>3 DEF C
<1> QED
  BY <1>4 DEF SumsOf

\* Total is one of them.
LEMMA TotalIsSum ==
    ASSUME NEW f, NEW S
    PROVE  Total(f, S) = SumsOf(f, S)[S]
  BY Zenon DEF Total, SumsOf, Sums, First, FoldFunctionOnSet, MapThenFoldSet

\* A sum is that of all but the first, and the first.
LEMMA TotalOfFirst ==
    ASSUME NEW f, NEW S, IsFiniteSet(S)
    PROVE  /\ S = {} => Total(f, S) = 0
           /\ S # {} => First(S) \in S /\ Total(f, S) = f[First(S)] + Total(f, S \ {First(S)})
<1>1. Sums(SumsOf(f, S), f, S)
  BY SumsExist
<1>2. Total(f, S) = IF S = {} THEN 0 ELSE f[First(S)] + SumsOf(f, S)[S \ {First(S)}]
  BY <1>1, TotalIsSum DEF Sums
<1>3. ASSUME S # {}
      PROVE First(S) \in S /\ SumsOf(f, S)[S \ {First(S)}] = Total(f, S \ {First(S)})
  <2> DEFINE R == S \ {First(S)}
  <2>1. R \in SUBSET S
    OBVIOUS
  <2>2. IsFiniteSet(R)
    BY <2>1, FS_Subset
  <2>3. Sums(SumsOf(f, R), f, R)
    BY <2>2, SumsExist
  <2>4. SumsOf(f, S)[R] = SumsOf(f, R)[R]
    BY <1>1, <2>2, <2>3, SumsAgree
  <2>5. First(S) \in S
    BY <1>3 DEF First
  <2> HIDE DEF R
  <2>6. Total(f, R) = SumsOf(f, R)[R]
    BY TotalIsSum
  <2> QED
    BY <2>4, <2>5, <2>6 DEF R
<1> QED
  BY <1>2, <1>3

\* A sum of numbers is a number.
LEMMA TotalIsInt ==
    ASSUME NEW f, NEW S, IsFiniteSet(S), \A x \in S : f[x] \in Int
    PROVE  Total(f, S) \in Int
<1> DEFINE C == {U \in SUBSET S : Total(f, U) \in Int}
<1>1. ASSUME NEW U \in SUBSET S, \A V \in SUBSET U : V # U => V \in C
      PROVE U \in C
  <2>1. IsFiniteSet(U)
    BY FS_Subset
  <2>2. CASE U = {}
    <3>1. Total(f, U) = 0
      BY <2>1, <2>2, TotalOfFirst
    <3> QED
      BY <3>1
  <2>3. CASE U # {}
    <3>1. First(U) \in U /\ Total(f, U) = f[First(U)] + Total(f, U \ {First(U)})
      BY <2>1, <2>3, TotalOfFirst
    <3>2. U \ {First(U)} \in SUBSET U /\ U \ {First(U)} # U
      BY <3>1
    <3>3. Total(f, U \ {First(U)}) \in Int
      BY <1>1, <3>2
    <3>4. f[First(U)] \in Int
      BY <3>1
    <3> QED
      BY <3>1, <3>3, <3>4
  <2> QED
    BY <2>2, <2>3
<1>2. C \in SUBSET SUBSET S
  OBVIOUS
<1> HIDE DEF C
<1>3. S \in C
  BY <1>1, <1>2, NoLeastException
<1> QED
  BY <1>3 DEF C

\* Any member may be taken from a sum first.
LEMMA TotalOfOne ==
    ASSUME NEW f, NEW S, IsFiniteSet(S), \A x \in S : f[x] \in Int, NEW y \in S
    PROVE  Total(f, S) = f[y] + Total(f, S \ {y})
<1> DEFINE C == {U \in SUBSET S : \A x \in U : Total(f, U) = f[x] + Total(f, U \ {x})}
<1>1. ASSUME NEW U \in SUBSET S, \A V \in SUBSET U : V # U => V \in C
      PROVE U \in C
  <2>1. SUFFICES ASSUME NEW x \in U PROVE Total(f, U) = f[x] + Total(f, U \ {x})
    OBVIOUS
  <2> DEFINE p == First(U)
  <2>2. IsFiniteSet(U) /\ \A V \in SUBSET U : IsFiniteSet(V)
    BY FS_Subset
  <2>3. p \in U /\ Total(f, U) = f[p] + Total(f, U \ {p})
    BY <2>2, TotalOfFirst
  <2> HIDE DEF p
  <2>4. CASE x = p
    BY <2>3, <2>4
  <2>5. CASE x # p
    <3> DEFINE V == U \ {p}
    <3> DEFINE W == U \ {x}
    <3> DEFINE R == U \ {p, x}
    <3>1. V \in SUBSET U /\ V # U /\ W \in SUBSET U /\ W # U /\ x \in V /\ p \in W
      BY <2>3, <2>5
    <3>2. V \ {x} = R /\ W \ {p} = R /\ R \in SUBSET U
      OBVIOUS
    <3>3. Total(f, V) = f[x] + Total(f, R) /\ Total(f, W) = f[p] + Total(f, R)
      <4>1. V \in C /\ W \in C
        BY <1>1, <3>1
      <4> QED
        BY <3>1, <3>2, <4>1
    <3>4. f[x] \in Int /\ f[p] \in Int /\ Total(f, R) \in Int
      <4>1. \A z \in R : f[z] \in Int
        OBVIOUS
      <4>2. IsFiniteSet(R)
        BY <2>2, <3>2
      <4> HIDE DEF R
      <4> QED
        BY <2>3, <4>1, <4>2, TotalIsInt
    <3> QED
      BY <2>3, <3>3, <3>4
  <2> QED
    BY <2>4, <2>5
<1>2. C \in SUBSET SUBSET S
  OBVIOUS
<1> HIDE DEF C
<1>3. S \in C
  BY <1>1, <1>2, NoLeastException
<1> QED
  BY <1>3 DEF C

\* The same quantities add up to the same.
LEMMA TotalOfSame ==
    ASSUME NEW f, NEW g, NEW S, IsFiniteSet(S), \A x \in S : f[x] = g[x]
    PROVE  Total(f, S) = Total(g, S)
<1> DEFINE C == {U \in SUBSET S : Total(f, U) = Total(g, U)}
<1>1. ASSUME NEW U \in SUBSET S, \A V \in SUBSET U : V # U => V \in C
      PROVE U \in C
  <2>1. IsFiniteSet(U)
    BY FS_Subset
  <2>2. CASE U = {}
    BY <2>1, <2>2, TotalOfFirst
  <2>3. CASE U # {}
    <3>1. /\ First(U) \in U /\ Total(f, U) = f[First(U)] + Total(f, U \ {First(U)})
          /\ Total(g, U) = g[First(U)] + Total(g, U \ {First(U)})
      BY <2>1, <2>3, TotalOfFirst
    <3>2. U \ {First(U)} \in SUBSET U /\ U \ {First(U)} # U
      BY <3>1
    <3>3. Total(f, U \ {First(U)}) = Total(g, U \ {First(U)})
      BY <1>1, <3>2
    <3>4. f[First(U)] = g[First(U)]
      BY <3>1
    <3> QED
      BY <3>1, <3>3, <3>4
  <2> QED
    BY <2>2, <2>3
<1>2. C \in SUBSET SUBSET S
  OBVIOUS
<1> HIDE DEF C
<1>3. S \in C
  BY <1>1, <1>2, NoLeastException
<1> QED
  BY <1>3 DEF C

\* A sum over two parts is the sum of both.
LEMMA TotalOfParts ==
    ASSUME NEW f, NEW S, NEW T, IsFiniteSet(S), IsFiniteSet(T), S \cap T = {},
           \A x \in S \cup T : f[x] \in Int
    PROVE  Total(f, S \cup T) = Total(f, S) + Total(f, T)
<1> DEFINE C == {U \in SUBSET T : Total(f, S \cup U) = Total(f, S) + Total(f, U)}
<1>1. ASSUME NEW U \in SUBSET T, \A V \in SUBSET U : V # U => V \in C
      PROVE U \in C
  <2>1. IsFiniteSet(U) /\ IsFiniteSet(S \cup U)
    <3>1. IsFiniteSet(U)
      BY FS_Subset
    <3> QED
      BY <3>1, FS_Union
  <2>2. Total(f, S) \in Int
    BY TotalIsInt
  <2>3. CASE U = {}
    <3>1. Total(f, U) = 0 /\ S \cup U = S
      BY <2>1, <2>3, TotalOfFirst
    <3>2. Total(f, S \cup U) = Total(f, S) + Total(f, U)
      BY <2>2, <3>1
    <3> QED
      BY <3>2
  <2>4. CASE U # {}
    <3>1. PICK x \in U : TRUE
      BY <2>4
    <3> DEFINE V == U \ {x}
    <3>2. V \in SUBSET U /\ V # U
      BY <3>1
    <3>3. (S \cup U) \ {x} = S \cup V
      BY <3>1
    <3>4. \A y \in S \cup U : f[y] \in Int
      OBVIOUS
    <3>5. Total(f, S \cup U) = f[x] + Total(f, (S \cup U) \ {x})
      <4>1. x \in S \cup U
        OBVIOUS
      <4> QED
        BY <2>1, <3>4, <4>1, TotalOfOne
    <3>6. Total(f, U) = f[x] + Total(f, V)
      BY <2>1, <3>1, <3>4, TotalOfOne
    <3>7. Total(f, S \cup V) = Total(f, S) + Total(f, V)
      BY <1>1, <3>2
    <3>8. Total(f, V) \in Int
      <4>1. IsFiniteSet(V)
        BY <2>1, <3>2, FS_Subset
      <4>2. \A y \in V : f[y] \in Int
        BY <3>4
      <4> HIDE DEF V
      <4> QED
        BY <4>1, <4>2, TotalIsInt
    <3>9. f[x] \in Int
      BY <3>4
    <3> HIDE DEF V
    <3>10. Total(f, S \cup U) = f[x] + (Total(f, S) + Total(f, V))
      BY <3>3, <3>5, <3>7
    <3>11. Total(f, S \cup U) = Total(f, S) + Total(f, U)
      BY <2>2, <3>6, <3>8, <3>9, <3>10
    <3> QED
      BY <3>11
  <2> QED
    BY <2>3, <2>4
<1>2. C \in SUBSET SUBSET T
  OBVIOUS
<1> HIDE DEF C
<1>3. T \in C
  <2>1. \A U \in SUBSET T : (\A V \in SUBSET U : V # U => V \in C) => U \in C
    BY <1>1
  <2>2. \A U \in SUBSET T : U \in C
    BY <1>2, <2>1, NoLeastException
  <2> QED
    BY <2>2
<1> QED
  BY <1>3 DEF C

\* Nothing adds up to nothing.
LEMMA TotalOfZeros ==
    ASSUME NEW f, NEW S, IsFiniteSet(S), \A x \in S : f[x] = 0
    PROVE  Total(f, S) = 0
<1> DEFINE C == {U \in SUBSET S : Total(f, U) = 0}
<1>1. ASSUME NEW U \in SUBSET S, \A V \in SUBSET U : V # U => V \in C
      PROVE U \in C
  <2>1. IsFiniteSet(U)
    BY FS_Subset
  <2>2. CASE U = {}
    BY <2>1, <2>2, TotalOfFirst
  <2>3. CASE U # {}
    <3>1. First(U) \in U /\ Total(f, U) = f[First(U)] + Total(f, U \ {First(U)})
      BY <2>1, <2>3, TotalOfFirst
    <3>2. U \ {First(U)} \in SUBSET U /\ U \ {First(U)} # U
      BY <3>1
    <3>3. Total(f, U \ {First(U)}) = 0
      BY <1>1, <3>2
    <3>4. f[First(U)] = 0
      BY <3>1
    <3> QED
      BY <3>1, <3>3, <3>4
  <2> QED
    BY <2>2, <2>3
<1>2. C \in SUBSET SUBSET S
  OBVIOUS
<1> HIDE DEF C
<1>3. S \in C
  BY <1>1, <1>2, NoLeastException
<1> QED
  BY <1>3 DEF C

\* What is nothing need not be counted.
LEMMA TotalOfCounted ==
    ASSUME NEW f, NEW S, IsFiniteSet(S), NEW T \in SUBSET S,
           \A x \in S : f[x] \in Int, \A x \in S \ T : f[x] = 0
    PROVE  Total(f, S) = Total(f, T)
<1>1. IsFiniteSet(T) /\ IsFiniteSet(S \ T)
  BY FS_Subset, FS_Difference
<1>2. S = T \cup (S \ T) /\ T \cap (S \ T) = {}
  OBVIOUS
<1> DEFINE R == S \ T
<1>3. Total(f, R) = 0
  <2>1. \A x \in R : f[x] = 0
    OBVIOUS
  <2> HIDE DEF R
  <2> QED
    BY <1>1, <2>1, TotalOfZeros DEF R
<1>4. Total(f, T \cup R) = Total(f, T) + Total(f, R)
  <2>1. T \cap R = {} /\ \A x \in T \cup R : f[x] \in Int
    OBVIOUS
  <2> HIDE DEF R
  <2> QED
    BY <1>1, <2>1, TotalOfParts DEF R
<1>5. Total(f, T) \in Int
  <2>1. \A x \in T : f[x] \in Int
    OBVIOUS
  <2> QED
    BY <1>1, <2>1, TotalIsInt
<1>6. S = T \cup R
  OBVIOUS
<1> HIDE DEF R
<1> QED
  BY <1>3, <1>4, <1>5, <1>6

\* The members g puts in one group, and in some
Group(L, g, k) == {l \in L : g[l] = k}
Groups(L, g, K) == {l \in L : g[l] \in K}

\* What is summed group by group is summed once.
LEMMA TotalOfGroups ==
    ASSUME NEW q, NEW L, IsFiniteSet(L), \A l \in L : q[l] \in Int, NEW g,
           NEW K, IsFiniteSet(K), NEW h, \A k \in K : h[k] = Total(q, Group(L, g, k))
    PROVE  Total(h, K) = Total(q, Groups(L, g, K))
<1> USE DEF Group, Groups
<1> DEFINE In(U) == {l \in L : g[l] \in U}
<1> DEFINE C == {U \in SUBSET K : Total(h, U) = Total(q, In(U))}
<1>1. \A U \in SUBSET L : IsFiniteSet(U) /\ Total(q, U) \in Int
  <2> TAKE U \in SUBSET L
  <2>1. IsFiniteSet(U)
    BY FS_Subset
  <2>2. \A l \in U : q[l] \in Int
    OBVIOUS
  <2> QED
    BY <2>1, <2>2, TotalIsInt
<1>2. \A k \in K : h[k] \in Int
  BY <1>1
<1>3. ASSUME NEW U \in SUBSET K, \A V \in SUBSET U : V # U => V \in C
      PROVE U \in C
  <2>1. IsFiniteSet(U)
    BY FS_Subset
  <2>2. CASE U = {}
    <3>1. In(U) = {}
      BY <2>2
    <3>2. Total(q, {}) = 0 /\ Total(h, {}) = 0
      BY FS_EmptySet, TotalOfFirst
    <3> HIDE DEF In
    <3> QED
      BY <2>2, <3>1, <3>2
  <2>3. CASE U # {}
    <3>1. PICK k \in U : TRUE
      BY <2>3
    <3> DEFINE V == U \ {k}
    <3>2. V \in SUBSET U /\ V # U
      BY <3>1
    <3>3. Total(h, U) = h[k] + Total(h, V)
      <4>1. \A x \in U : h[x] \in Int
        BY <1>2
      <4> QED
        BY <2>1, <4>1, TotalOfOne
    <3>4. Total(h, V) = Total(q, In(V))
      BY <1>3, <3>2
    <3> DEFINE A == In(V)
    <3> DEFINE B == {l \in L : g[l] = k}
    <3>5. A \in SUBSET L /\ B \in SUBSET L /\ A \cap B = {} /\ A \cup B = In(U)
      BY <3>1
    <3>6. h[k] = Total(q, B)
      OBVIOUS
    <3>7. \A l \in A \cup B : q[l] \in Int
      OBVIOUS
    <3> HIDE DEF A, B, In
    <3>8. Total(q, A \cup B) = Total(q, A) + Total(q, B)
      BY <1>1, <3>5, <3>7, TotalOfParts
    <3>9. Total(q, A) \in Int /\ Total(q, B) \in Int
      BY <1>1, <3>5
    <3>10. Total(h, V) = Total(q, A)
      BY <3>4 DEF A
    <3> QED
      BY <3>3, <3>5, <3>6, <3>8, <3>9, <3>10
  <2> QED
    BY <2>2, <2>3
<1>4. C \in SUBSET SUBSET K
  OBVIOUS
<1>5. K \in C
  <2> HIDE DEF C
  <2>1. \A U \in SUBSET K : (\A V \in SUBSET U : V # U => V \in C) => U \in C
    BY <1>3
  <2>2. \A U \in SUBSET K : U \in C
    BY <1>4, <2>1, NoLeastException
  <2> QED
    BY <2>2
<1> QED
  BY <1>5

\* A sum of one member.
LEMMA TotalOfSingle ==
    ASSUME NEW f, NEW x, f[x] \in Int
    PROVE  Total(f, {x}) = f[x]
<1>1. IsFiniteSet({x}) /\ {x} \ {x} = {} /\ \A y \in {x} : f[y] \in Int
  BY FS_Singleton
<1>2. Total(f, {x}) = f[x] + Total(f, {x} \ {x})
  BY <1>1, TotalOfOne
<1>3. Total(f, {}) = 0
  BY FS_EmptySet, TotalOfFirst
<1> QED
  BY <1>1, <1>2, <1>3

-----------------------------------------------------------------------------
\* What a finite set is mapped to is finite.
LEMMA FiniteImage ==
    ASSUME NEW S, IsFiniteSet(S), NEW f, DOMAIN f = S
    PROVE  IsFiniteSet({f[x] : x \in S})
<1> DEFINE T == {f[x] : x \in S}
<1> DEFINE g == [x \in S |-> f[x]]
<1>1. g \in Surjection(S, T)
  BY DEF Surjection
<1> QED
  BY <1>1, FS_Surjection

\* What the closeout needs of the documents of one kind.
Listed(docs) ==
    /\ Numbered(DOMAIN docs)
    /\ \A d \in DOMAIN docs :
        /\ Numbered(DOMAIN docs[d].lines)
        /\ \A n \in DOMAIN docs[d].lines :
            docs[d].lines[n].item \in Nat /\ docs[d].lines[n].warehouse \in Nat

\* The documents of a ledger, and their lines, are finitely many and numbered.
LEMMA LedgerLists ==
    ASSUME NEW l, IsLedger(l)
    PROVE  Listed(l.mr) /\ Listed(l.po)
<1>1. ASSUME NEW T, NEW s \in Seq(T) PROVE Numbered(DOMAIN s) /\ \A n \in DOMAIN s : s[n] \in T
  <2>1. DOMAIN s = 1..Len(s) /\ Len(s) \in Nat /\ \A n \in 1..Len(s) : s[n] \in T
    BY LenProperties
  <2>2. IsFiniteSet(1..Len(s))
    BY <2>1, FS_Interval
  <2> QED
    BY <2>1, <2>2 DEF Numbered
<1>2. Listed(l.mr)
  <2> DEFINE Rows == [item: Nat, warehouse: Nat, qty: Nat, ordered: Nat]
  <2>1. Numbered(DOMAIN l.mr) /\ \A d \in DOMAIN l.mr : l.mr[d].lines \in Seq(Rows)
    BY DEF IsLedger, Demand
  <2>2. \A r \in Rows : r.item \in Nat /\ r.warehouse \in Nat
    OBVIOUS
  <2> HIDE DEF Rows
  <2> QED
    BY <1>1, <2>1, <2>2 DEF Listed
<1>3. Listed(l.po)
  <2> DEFINE Rows == [item: Nat, warehouse: Nat, qty: Nat, received: Nat, factor: Nat]
  <2>1. Numbered(DOMAIN l.po) /\ \A d \in DOMAIN l.po : l.po[d].lines \in Seq(Rows)
    BY DEF IsLedger, Supply
  <2>2. \A r \in Rows : r.item \in Nat /\ r.warehouse \in Nat
    OBVIOUS
  <2> HIDE DEF Rows
  <2> QED
    BY <1>1, <2>1, <2>2 DEF Listed
<1> QED
  BY <1>2, <1>3

\* The lines in scope of documents listed: there is an end to them, and each has a key.
LEMMA LinesAreListed ==
    ASSUME NEW docs, Listed(docs)
    PROVE  /\ IsFiniteSet(Lines(docs))
           /\ \A l \in Lines(docs) : Key(docs, l) \in Keys
<1> DEFINE Of(d) == {k \in DOMAIN docs[d].lines : InScope(docs[d].lines[k].warehouse)}
<1> DEFINE At(d) == {<<d, n>> : n \in Of(d)}
<1>1. \A d \in Open(docs) : d \in DOMAIN docs
  BY DEF Open
<1>2. ASSUME NEW d \in Open(docs) PROVE IsFiniteSet(At(d))
  <2> DEFINE f == [n \in Of(d) |-> <<d, n>>]
  <2>1. IsFiniteSet(DOMAIN docs[d].lines) /\ Of(d) \in SUBSET DOMAIN docs[d].lines
    BY <1>1 DEF Listed, Numbered
  <2>2. IsFiniteSet(Of(d))
    BY <2>1, FS_Subset
  <2>3. DOMAIN f = Of(d) /\ At(d) = {f[n] : n \in Of(d)}
    OBVIOUS
  <2> HIDE DEF f
  <2> QED
    BY <2>2, <2>3, FiniteImage
<1> DEFINE h == [d \in Open(docs) |-> At(d)]
<1>3. Open(docs) \in SUBSET DOMAIN docs /\ IsFiniteSet(DOMAIN docs)
  BY <1>1 DEF Listed, Numbered
<1>4. IsFiniteSet(Open(docs))
  BY <1>3, FS_Subset
<1>5. Lines(docs) = UNION {At(d) : d \in Open(docs)}
  BY DEF Lines
<1>6. \A l \in Lines(docs) : Key(docs, l) \in Keys
  <2> TAKE l \in Lines(docs)
  <2>1. PICK d \in Open(docs) : l \in At(d)
    BY <1>5
  <2>2. PICK n \in DOMAIN docs[d].lines : l = <<d, n>>
    BY <2>1
  <2>3. d \in Nat /\ Line(docs, l).item \in Nat /\ Line(docs, l).warehouse \in Nat
    BY <1>1, <2>2 DEF Listed, Numbered, Line
  <2>4. l[1] = d
    BY <2>2
  <2> QED
    BY <2>3, <2>4 DEF Key, Keys
<1> HIDE DEF At
<1>7. DOMAIN h = Open(docs) /\ {At(d) : d \in Open(docs)} = {h[d] : d \in Open(docs)}
  OBVIOUS
<1> HIDE DEF h
<1>8. IsFiniteSet({At(d) : d \in Open(docs)})
  BY <1>4, <1>7, FiniteImage
<1>9. IsFiniteSet(UNION {At(d) : d \in Open(docs)})
  <2>1. \A T \in {At(d) : d \in Open(docs)} : IsFiniteSet(T)
    BY <1>2
  <2> QED
    BY <1>8, <2>1, FS_UNION
<1> QED
  BY <1>5, <1>6, <1>9

\* A function on the first numbers is a sequence of what it takes.
LEMMA ListOfItsRows ==
    ASSUME NEW n \in Nat, NEW s, s = [k \in 1..n |-> s[k]]
    PROVE  s \in Seq(ToSet(s)) /\ Len(s) = n /\ DOMAIN s = 1..n
<1>1. s \in [1..n -> ToSet(s)]
  <2>1. DOMAIN s = 1..n
    BY Zenon
  <2>2. \A k \in 1..n : s[k] \in ToSet(s)
    BY <2>1 DEF ToSet
  <2> QED
    BY <2>2
<1>2. s \in Seq(ToSet(s))
  BY <1>1, SeqDef
<1>3. DOMAIN s = 1..n
  BY <1>1
<1> QED
  BY <1>2, <1>3, LenProperties

\* Every line a tool counts has its place in the list: the row of its document, item and
\* warehouse, which holds what its lines add up to; and there is no other row.
Placed(docs, qty, G, place) ==
    /\ place \in [DOMAIN qty -> DOMAIN G]
    /\ \A k \in DOMAIN G : \E l \in DOMAIN qty : place[l] = k
    /\ \A k \in DOMAIN G : G[k].qty = Total(qty, Group(DOMAIN qty, place, k))
    /\ \A l \in DOMAIN qty :
         /\ G[place[l]].item = Line(docs, l).item /\ G[place[l]].due = docs[l[1]].due
         /\ G[place[l]].warehouse = Line(docs, l).warehouse
         /\ Line(docs, l).item \in Nat /\ Line(docs, l).warehouse \in Nat
\* Every line has a place among the rows Grouped makes, where its key is.
LEMMA GroupedPlaces ==
    ASSUME NEW docs, Listed(docs), NEW qty, DOMAIN qty \subseteq Lines(docs)
    PROVE  LET G == Grouped(docs, qty) IN
           /\ G \in Seq(ToSet(G)) /\ IsFiniteSet(DOMAIN G)
           /\ \E place : Placed(docs, qty, G, place)
<1> DEFINE G == Grouped(docs, qty)
<1> DEFINE S == {Key(docs, l) : l \in DOMAIN qty}
<1> DEFINE keys == Sorted(S, Before)
<1> DEFINE n == Cardinality(S)
<1> DEFINE place == [l \in DOMAIN qty |-> CHOOSE k \in 1..n : keys[k] = Key(docs, l)]
<1>1. IsFiniteSet(DOMAIN qty)
  <2>1. DOMAIN qty \in SUBSET Lines(docs)
    OBVIOUS
  <2> QED
    BY <2>1, LinesAreListed, FS_Subset
<1>2. S \in SUBSET Keys
  BY LinesAreListed
<1>3. IsFiniteSet(S)
  <2> DEFINE f == [l \in DOMAIN qty |-> Key(docs, l)]
  <2>1. DOMAIN f = DOMAIN qty /\ S = {f[l] : l \in DOMAIN qty}
    OBVIOUS
  <2> HIDE DEF f, S
  <2> QED
    BY <1>1, <2>1, FiniteImage
<1> HIDE DEF S
<1>4. /\ n \in Nat /\ keys \in [1..n -> S]
      /\ \A x \in S : \E k \in 1..n : keys[k] = x
      /\ \A j, k \in 1..n : keys[j] = keys[k] => j = k
  <2> DEFINE R == {p \in S \X S : Before(p[1], p[2])}
  <2>1. Orders(R, S)
    BY <1>2, KeysAreOrdered
  <2>2. keys = Ranked(S, R)
    BY DEF Sorted
  <2> HIDE DEF R
  <2> QED
    BY <1>3, <2>1, <2>2, RankedLists
<1>5. /\ G = [k \in 1..n |-> G[k]]
      /\ \A k \in 1..n : /\ G[k].item = keys[k][2] /\ G[k].warehouse = keys[k][3]
                         /\ G[k].due = docs[keys[k][1]].due
                         /\ G[k].qty = Total(qty, {l \in DOMAIN qty : Key(docs, l) = keys[k]})
  <2>1. DOMAIN keys = 1..n
    BY <1>4
  <2> DEFINE row(k) == [item |-> keys[k][2], warehouse |-> keys[k][3], due |-> docs[keys[k][1]].due,
                        qty |-> Total(qty, {l \in DOMAIN qty : Key(docs, l) = keys[k]})]
  <2>2. G = [k \in DOMAIN keys |-> row(k)]
    BY Zenon DEF Grouped, S
  <2>3. \A k : /\ row(k).item = keys[k][2] /\ row(k).warehouse = keys[k][3]
               /\ row(k).due = docs[keys[k][1]].due
               /\ row(k).qty = Total(qty, {l \in DOMAIN qty : Key(docs, l) = keys[k]})
    BY Zenon
  <2> HIDE DEF row, keys, G
  <2> QED
    BY <2>1, <2>2, <2>3
<1> HIDE DEF keys, n, G
<1>6. G \in Seq(ToSet(G)) /\ DOMAIN G = 1..n
  BY <1>4, <1>5, ListOfItsRows
<1>7. IsFiniteSet(DOMAIN G)
  BY <1>4, <1>6, FS_Interval
<1>8. ASSUME NEW l \in DOMAIN qty
      PROVE /\ Key(docs, l) \in S /\ Key(docs, l)[1] = l[1] /\ Key(docs, l)[2] = Line(docs, l).item
            /\ Key(docs, l)[3] = Line(docs, l).warehouse
            /\ Line(docs, l).item \in Nat /\ Line(docs, l).warehouse \in Nat
  <2>1. Key(docs, l) \in S /\ Key(docs, l) \in Keys
    BY <1>2 DEF S
  <2> QED
    BY <2>1 DEF Key, Keys
<1>9. ASSUME NEW l \in DOMAIN qty
      PROVE place[l] \in 1..n /\ keys[place[l]] = Key(docs, l)
  BY <1>4, <1>8
<1>10. place \in [DOMAIN qty -> DOMAIN G]
  BY <1>6, <1>9
<1> HIDE DEF place
<1>11. ASSUME NEW k \in DOMAIN G
       PROVE /\ \E l \in DOMAIN qty : place[l] = k
             /\ G[k].qty = Total(qty, {l \in DOMAIN qty : place[l] = k})
  <2>1. \A l \in DOMAIN qty : Key(docs, l) = keys[k] <=> place[l] = k
    BY <1>4, <1>6, <1>9
  <2>2. \E l \in DOMAIN qty : Key(docs, l) = keys[k]
    <3>1. keys[k] \in S
      BY <1>4, <1>6
    <3> QED
      BY <3>1 DEF S
  <2>3. {l \in DOMAIN qty : Key(docs, l) = keys[k]} = {l \in DOMAIN qty : place[l] = k}
    BY <2>1
  <2>4. G[k].qty = Total(qty, {l \in DOMAIN qty : Key(docs, l) = keys[k]})
    BY <1>5, <1>6
  <2> QED
    BY <2>1, <2>2, <2>3, <2>4
<1>12. ASSUME NEW l \in DOMAIN qty
       PROVE /\ G[place[l]].item = Line(docs, l).item /\ G[place[l]].due = docs[l[1]].due
             /\ G[place[l]].warehouse = Line(docs, l).warehouse
             /\ Line(docs, l).item \in Nat /\ Line(docs, l).warehouse \in Nat
  <2>1. /\ G[place[l]].item = keys[place[l]][2] /\ G[place[l]].warehouse = keys[place[l]][3]
        /\ G[place[l]].due = docs[keys[place[l]][1]].due
    BY <1>5, <1>9
  <2>2. keys[place[l]] = Key(docs, l)
    BY <1>9
  <2>3. G[place[l]].due = docs[Key(docs, l)[1]].due
    BY <2>1, <2>2
  <2> QED
    BY <1>8, <2>1, <2>2, <2>3
<1>13. \A k \in DOMAIN G : G[k].qty = Total(qty, Group(DOMAIN qty, place, k))
  BY <1>11 DEF Group
<1>14. Placed(docs, qty, G, place)
  BY <1>10, <1>11, <1>12, <1>13 DEF Placed
<1> QED
  BY <1>6, <1>7, <1>14 DEF G

\* A tool lists, in rows, the item and the date of every line it counts, and of no other.
LEMMA GroupedRows ==
    ASSUME NEW docs, Listed(docs), NEW qty, DOMAIN qty \subseteq Lines(docs)
    PROVE  /\ Grouped(docs, qty) \in Seq(ToSet(Grouped(docs, qty)))
           /\ \A r \in ToSet(Grouped(docs, qty)) : r.item \in Nat /\
                \E l \in DOMAIN qty : r.item = Line(docs, l).item /\ r.due = docs[l[1]].due
           /\ \A l \in DOMAIN qty : \E r \in ToSet(Grouped(docs, qty)) :
                r.item = Line(docs, l).item /\ r.due = docs[l[1]].due
<1> DEFINE G == Grouped(docs, qty)
<1>1. PICK place : Placed(docs, qty, G, place)
  BY GroupedPlaces
<1>2. G \in Seq(ToSet(G))
  BY GroupedPlaces
<1> HIDE DEF G
<1>3. /\ place \in [DOMAIN qty -> DOMAIN G]
      /\ \A k \in DOMAIN G : \E l \in DOMAIN qty : place[l] = k
      /\ \A l \in DOMAIN qty :
           /\ G[place[l]].item = Line(docs, l).item /\ G[place[l]].due = docs[l[1]].due
           /\ Line(docs, l).item \in Nat
  BY <1>1 DEF Placed
<1>4. ASSUME NEW r \in ToSet(G)
      PROVE r.item \in Nat /\ \E l \in DOMAIN qty : r.item = Line(docs, l).item /\ r.due = docs[l[1]].due
  <2>1. PICK k \in DOMAIN G : r = G[k]
    BY DEF ToSet
  <2>2. PICK l \in DOMAIN qty : place[l] = k
    BY <1>3
  <2> QED
    BY <1>3, <2>1, <2>2
<1>5. ASSUME NEW l \in DOMAIN qty
      PROVE \E r \in ToSet(G) : r.item = Line(docs, l).item /\ r.due = docs[l[1]].due
  <2>1. G[place[l]] \in ToSet(G)
    BY <1>3 DEF ToSet
  <2> QED
    BY <1>3, <2>1
<1> QED
  BY <1>2, <1>4, <1>5 DEF G

\* What the rows at some places add up to is what the lines placed there add up to.
LEMMA GroupedSums ==
    ASSUME NEW docs, Listed(docs), NEW qty, DOMAIN qty \subseteq Lines(docs),
           \A l \in DOMAIN qty : qty[l] \in Int, NEW G, G = Grouped(docs, qty)
    PROVE  \E place : /\ Placed(docs, qty, G, place)
                      /\ \A K \in SUBSET DOMAIN G : Quantity(G, K) = Total(qty, Groups(DOMAIN qty, place, K))
<1>1. PICK place : Placed(docs, qty, G, place)
  BY GroupedPlaces
<1>2. IsFiniteSet(DOMAIN G)
  BY GroupedPlaces
<1>3. IsFiniteSet(DOMAIN qty)
  <2>1. DOMAIN qty \in SUBSET Lines(docs)
    OBVIOUS
  <2> QED
    BY <2>1, LinesAreListed, FS_Subset
<1>4. ASSUME NEW K \in SUBSET DOMAIN G
      PROVE Quantity(G, K) = Total(qty, Groups(DOMAIN qty, place, K))
  <2> DEFINE h == [k \in DOMAIN G |-> G[k].qty]
  <2>1. IsFiniteSet(K)
    BY <1>2, FS_Subset
  <2>2. \A k \in K : h[k] = Total(qty, Group(DOMAIN qty, place, k))
    BY <1>1 DEF Placed
  <2> DEFINE L == DOMAIN qty
  <2>3. IsFiniteSet(L) /\ (\A l \in L : qty[l] \in Int) /\ \A k \in K : h[k] = Total(qty, Group(L, place, k))
    BY <1>3, <2>2
  <2> HIDE DEF h, L
  <2>4. Total(h, K) = Total(qty, Groups(L, place, K))
    BY <2>1, <2>3, TotalOfGroups
  <2> QED
    BY <2>4 DEF Quantity, h, L
<1> QED
  BY <1>1, <1>4

-----------------------------------------------------------------------------
(***************************************************************************)
(* The inductive invariant: what is collected is the start of what the     *)
(* tools list of the snapshot, and the rows are those of the items done.   *)
(***************************************************************************)
\* The ERP, and what the closeout sees of it, are ledgers.
LedgersHold == IsLedger(erp) /\ IsLedger(snap) /\ scope.warehouse \in Nat

\* Where a closeout reads pages, and where it has its rows
Paging == {"mr", "po", "stock"}
Concluded == {"proposed", "planned"}
\* The fields of a closeout
JobShape ==
    /\ DOMAIN job = {"at", "offset", "mr", "po", "stock", "todo"}
    /\ job.at \in {"idle", "failed"} \cup Paging \cup Concluded
    /\ job.offset \in Nat

\* What is collected so far is the start of what the tool lists, and what was collected is the
\* whole of it, at the moment of the snapshot.
PagesAreWhole ==
    /\ job.at \in Paging =>
        job.offset \in 0..Len(Source) /\ job[job.at] = SubSeq(Source, 1, job.offset)
    /\ job.at \in {"po", "stock"} \cup Concluded => job.mr = OpenMaterialRequests
    /\ job.at \in {"stock"} \cup Concluded => job.po = OpenPurchaseOrders
    /\ job.at = "mr" => job.po = <<>>

\* The row of an item, from everything the tools list
Concluding(item) == AnalyzeItem(item, ProjectedStock(item), OpenMaterialRequests, OpenPurchaseOrders)

\* The items still to analyse, each once, and the rows of the others
ItemsLeft ==
    /\ job.at \notin {"stock"} \cup Concluded => results = {}
    /\ job.at = "stock" => job.todo \in Seq(Nat) /\ job.todo # <<>>
    /\ job.at \in Concluded => job.todo = <<>>
    /\ job.at \in {"stock"} \cup Concluded =>
        /\ \A j, k \in DOMAIN job.todo : job.todo[j] = job.todo[k] => j = k
        /\ ToSet(job.todo) \subseteq Asked
        /\ results = {Concluding(i) : i \in Asked \ ToSet(job.todo)}

-----------------------------------------------------------------------------
\* A line of a document that is changed is still a line.
LEMMA LineChanges ==
    ASSUME NEW l, IsLedger(l)
    PROVE  /\ \A d \in DOMAIN l.mr : \A n \in DOMAIN l.mr[d].lines :
                IsLedger([l EXCEPT !.mr[d].lines[n].ordered = @ + 1])
           /\ \A d \in DOMAIN l.mr : IsLedger([l EXCEPT !.mr[d].open = FALSE])
<1> DEFINE Rows == [item: Nat, warehouse: Nat, qty: Nat, ordered: Nat]
<1> DEFINE new(m) == [l EXCEPT !.mr = m]
<1>1. ASSUME NEW d \in DOMAIN l.mr, NEW x \in Demand
      PROVE IsLedger(new([l.mr EXCEPT ![d] = x]))
  <2> DEFINE m == [l.mr EXCEPT ![d] = x]
  <2>1. DOMAIN m = DOMAIN l.mr /\ m \in [DOMAIN m -> Demand]
    BY <1>1 DEF IsLedger
  <2>2. /\ DOMAIN new(m) = DOMAIN l /\ new(m).mr = m
        /\ new(m).po = l.po /\ new(m).bins = l.bins /\ new(m).items = l.items
        /\ new(m).suppliers = l.suppliers /\ new(m).warehouses = l.warehouses
    BY DEF IsLedger
  <2> HIDE DEF m, new
  <2>3. IsLedger(new(m))
    BY <2>1, <2>2 DEF IsLedger
  <2> QED
    BY <2>3 DEF m
<1>2. ASSUME NEW d \in DOMAIN l.mr, NEW n \in DOMAIN l.mr[d].lines
      PROVE IsLedger([l EXCEPT !.mr[d].lines[n].ordered = @ + 1])
  <2> DEFINE doc == l.mr[d]
  <2> DEFINE row == [doc.lines[n] EXCEPT !.ordered = @ + 1]
  <2> DEFINE rows == [doc.lines EXCEPT ![n] = row]
  <2> DEFINE x == [doc EXCEPT !.lines = rows]
  <2>1. doc \in Demand /\ doc.lines \in Seq(Rows) /\ n \in 1..Len(doc.lines)
    BY DEF IsLedger, Demand
  <2>2. doc.lines[n] \in Rows
    BY <2>1, ElementOfSeq
  <2>3. row \in Rows
    BY <2>2
  <2> HIDE DEF row
  <2>4. rows \in Seq(Rows)
    BY <2>1, <2>3, ExceptSeq
  <2> HIDE DEF rows
  <2>5. x \in Demand
    BY <2>1, <2>4 DEF Demand
  <2>6. IsLedger(new([l.mr EXCEPT ![d] = x]))
    BY <1>1, <2>5
  <2> QED
    BY <2>6 DEF row, rows
<1>3. ASSUME NEW d \in DOMAIN l.mr
      PROVE IsLedger([l EXCEPT !.mr[d].open = FALSE])
  <2> DEFINE x == [l.mr[d] EXCEPT !.open = FALSE]
  <2>1. x \in Demand
    BY DEF IsLedger, Demand
  <2>2. IsLedger(new([l.mr EXCEPT ![d] = x]))
    BY <1>1, <2>1
  <2> QED
    BY <2>2
<1> QED
  BY <1>2, <1>3

\* A receipt leaves a ledger a ledger.
LEMMA GoodsReceived ==
    ASSUME NEW l, IsLedger(l), NEW d \in DOMAIN l.po, NEW n \in DOMAIN l.po[d].lines, NEW bins,
           DOMAIN bins = DOMAIN l.bins \cup {<<l.po[d].lines[n].item, l.po[d].lines[n].warehouse>>},
           bins \in [DOMAIN bins -> Int]
    PROVE  IsLedger([l EXCEPT !.po[d].lines[n].received = @ + 1, !.bins = bins])
<1> DEFINE Rows == [item: Nat, warehouse: Nat, qty: Nat, received: Nat, factor: Nat]
<1> DEFINE doc == l.po[d]
<1> DEFINE row == [doc.lines[n] EXCEPT !.received = @ + 1]
<1> DEFINE rows == [doc.lines EXCEPT ![n] = row]
<1> DEFINE x == [doc EXCEPT !.lines = rows]
<1> DEFINE p == [l.po EXCEPT ![d] = x]
<1> DEFINE new == [l EXCEPT !.po = p, !.bins = bins]
<1>1. doc \in Supply /\ doc.lines \in Seq(Rows) /\ n \in 1..Len(doc.lines)
  BY DEF IsLedger, Supply
<1>2. doc.lines[n] \in Rows
  BY <1>1, ElementOfSeq
<1>3. row \in Rows
  BY <1>2
<1>4. DOMAIN bins \subseteq Nat \X Nat
  BY <1>2 DEF IsLedger
<1>5. new = [l EXCEPT !.po[d].lines[n].received = @ + 1, !.bins = bins]
  OBVIOUS
<1> HIDE DEF row
<1>6. rows \in Seq(Rows)
  BY <1>1, <1>3, ExceptSeq
<1> HIDE DEF rows
<1>7. x \in Supply
  BY <1>1, <1>6 DEF Supply
<1> HIDE DEF x
<1>8. DOMAIN p = DOMAIN l.po /\ p \in [DOMAIN p -> Supply]
  BY <1>7 DEF IsLedger
<1> HIDE DEF p
<1>9. /\ DOMAIN new = DOMAIN l /\ new.po = p /\ new.bins = bins
      /\ new.mr = l.mr /\ new.items = l.items
      /\ new.suppliers = l.suppliers /\ new.warehouses = l.warehouses
  BY DEF IsLedger
<1> HIDE DEF new
<1>10. IsLedger(new)
  BY <1>8, <1>9, <1>4 DEF IsLedger
<1> QED
  BY <1>5, <1>10

\* So does everything people and the closeout do.
LEMMA LedgersAreKept ==
    ASSUME LedgersHold, CloseoutNext
    PROVE  LedgersHold'
<1> USE DEF LedgersHold
<1>1. CASE Begin \/ FetchPage \/ LastPage \/ LastStockPage \/ ToolFails \/ BuildPlan
  BY <1>1 DEF Begin, FetchPage, LastPage, LastStockPage, ToolFails, BuildPlan
<1> SUFFICES ASSUME NEW new, IsLedger(new), Changed(new) PROVE LedgersHold'
  <2>1. CASE Order
    BY <2>1, LineChanges DEF Order, Open
  <2>2. CASE Stop
    BY <2>2, LineChanges DEF Stop, Open
  <2>3. CASE ReceiveGoods
    <3>1. PICK d \in Open(erp.po) : \E n \in DOMAIN erp.po[d].lines :
            LET line == erp.po[d].lines[n]
                bin == <<line.item, line.warehouse>>
                held(b) == IF b \in DOMAIN erp.bins THEN erp.bins[b] ELSE 0
            IN Changed([erp EXCEPT !.po[d].lines[n].received = @ + 1,
                         !.bins = [b \in DOMAIN @ \cup {bin} |-> held(b) + IF b = bin THEN line.factor ELSE 0]])
      BY <2>3 DEF ReceiveGoods
    <3>2. PICK n \in DOMAIN erp.po[d].lines :
            LET line == erp.po[d].lines[n]
                bin == <<line.item, line.warehouse>>
                held(b) == IF b \in DOMAIN erp.bins THEN erp.bins[b] ELSE 0
            IN Changed([erp EXCEPT !.po[d].lines[n].received = @ + 1,
                         !.bins = [b \in DOMAIN @ \cup {bin} |-> held(b) + IF b = bin THEN line.factor ELSE 0]])
      BY <3>1
    <3> DEFINE line == erp.po[d].lines[n]
    <3> DEFINE bin == <<line.item, line.warehouse>>
    <3> DEFINE held(b) == IF b \in DOMAIN erp.bins THEN erp.bins[b] ELSE 0
    <3> DEFINE bins == [b \in DOMAIN erp.bins \cup {bin} |-> held(b) + IF b = bin THEN line.factor ELSE 0]
    <3>3. d \in DOMAIN erp.po
      BY DEF Open
    <3>4. line.factor \in Int
      <4>1. erp.po[d].lines \in Seq([item: Nat, warehouse: Nat, qty: Nat, received: Nat, factor: Nat])
        BY <3>3 DEF IsLedger, Supply
      <4>2. n \in 1..Len(erp.po[d].lines)
        BY <4>1, LenProperties
      <4>3. line \in [item: Nat, warehouse: Nat, qty: Nat, received: Nat, factor: Nat]
        BY <4>1, <4>2, ElementOfSeq
      <4> QED
        BY <4>3
    <3>5. \A b : held(b) \in Int
      BY DEF IsLedger
    <3>6. DOMAIN bins = DOMAIN erp.bins \cup {bin} /\ bins \in [DOMAIN bins -> Int]
      <4> HIDE DEF held, bin, line
      <4> QED
        BY <3>4, <3>5
    <3>7. Changed([erp EXCEPT !.po[d].lines[n].received = @ + 1, !.bins = bins])
      <4>1. [erp EXCEPT !.po[d].lines[n].received = @ + 1,
                        !.bins = [b \in DOMAIN @ \cup {bin} |-> held(b) + IF b = bin THEN line.factor ELSE 0]]
              = [erp EXCEPT !.po[d].lines[n].received = @ + 1, !.bins = bins]
        OBVIOUS
      <4> QED
        BY <3>2, <4>1, Zenon
    <3> HIDE DEF bins
    <3> QED
      BY <3>3, <3>6, <3>7, GoodsReceived DEF line, bin
  <2>4. CASE IssueStock
    <3>1. PICK b \in DOMAIN erp.bins : Changed([erp EXCEPT !.bins[b] = @ - 1])
      BY <2>4 DEF IssueStock
    <3>2. IsLedger([erp EXCEPT !.bins[b] = @ - 1])
      BY DEF IsLedger
    <3> QED
      BY <3>1, <3>2
  <2>5. CASE Disable
    <3>1. ASSUME NEW i PROVE IsLedger([erp EXCEPT !.items = @ \ {i}]) /\ IsLedger([erp EXCEPT !.suppliers = @ \ {i}])
      BY DEF IsLedger
    <3> QED
      BY <2>5, <3>1 DEF Disable
  <2> QED
    BY <1>1, <2>1, <2>2, <2>3, <2>4, <2>5 DEF CloseoutNext
<1> QED
  BY DEF Changed

-----------------------------------------------------------------------------
\* Each tool lists finitely many rows.
LEMMA StockIsListed ==
    ASSUME LedgersHold, NEW item
    PROVE  ProjectedStock(item) \in Seq(ToSet(ProjectedStock(item)))
<1> DEFINE S == {w \in Warehouses : <<item, w>> \in DOMAIN snap.bins}
<1> DEFINE R == {p \in S \X S : Smaller(p[1], p[2])}
<1> DEFINE bins == Sorted(S, Smaller)
<1>1. Warehouses \in SUBSET Nat /\ IsFiniteSet(Warehouses)
  BY FS_Singleton DEF LedgersHold, IsLedger, Numbered, Warehouses
<1>2. S \in SUBSET Warehouses
  OBVIOUS
<1>3. S \in SUBSET Nat /\ IsFiniteSet(S)
  BY <1>1, <1>2, FS_Subset
<1>4. Orders(R, S)
  BY <1>3, NumbersAreOrdered
<1>5. bins = Ranked(S, R)
  BY DEF Sorted
<1>6. ProjectedStock(item) = [k \in DOMAIN bins |-> [qty |-> snap.bins[<<item, bins[k]>>]]]
  BY DEF ProjectedStock
<1> HIDE DEF S, R
<1>7. Cardinality(S) \in Nat /\ DOMAIN bins = 1..Cardinality(S)
  BY <1>3, <1>4, <1>5, RankedLists
<1> HIDE DEF bins
<1>8. ProjectedStock(item) = [k \in 1..Cardinality(S) |-> ProjectedStock(item)[k]]
  BY <1>6, <1>7
<1> QED
  BY <1>7, <1>8, ListOfItsRows

\* The rows of open_material_requests, and the items they name.
LEMMA DemandIsListed ==
    ASSUME LedgersHold
    PROVE  /\ OpenMaterialRequests \in Seq(ToSet(OpenMaterialRequests))
           /\ \A r \in ToSet(OpenMaterialRequests) : r.item \in Nat
           /\ {r.item : r \in ToSet(OpenMaterialRequests)} = Asked
           /\ \A i : (\E r \in ToSet(OpenMaterialRequests) : r.item = i /\ r.due = "none")
                        <=> \E l \in DemandLines : Line(snap.mr, l).item = i /\ snap.mr[l[1]].due = "none"
<1> DEFINE qty == Demanded
<1>1. Listed(snap.mr)
  BY LedgerLists DEF LedgersHold
<1>2. DOMAIN qty = DemandLines /\ DemandLines \subseteq Lines(snap.mr)
  BY DEF DemandLines, Demanded
<1>3. OpenMaterialRequests = Grouped(snap.mr, qty)
  BY DEF OpenMaterialRequests
<1> HIDE DEF qty
<1> DEFINE Rows == ToSet(Grouped(snap.mr, qty))
<1>4. /\ Grouped(snap.mr, qty) \in Seq(Rows)
      /\ \A r \in Rows : r.item \in Nat /\
           \E l \in DOMAIN qty : r.item = Line(snap.mr, l).item /\ r.due = snap.mr[l[1]].due
      /\ \A l \in DOMAIN qty : \E r \in Rows :
           r.item = Line(snap.mr, l).item /\ r.due = snap.mr[l[1]].due
  <2>1. DOMAIN qty \subseteq Lines(snap.mr)
    BY <1>2
  <2> QED
    BY <1>1, <2>1, GroupedRows
<1>5. Rows = ToSet(OpenMaterialRequests)
  BY <1>3
<1> HIDE DEF Rows
<1>6. /\ OpenMaterialRequests \in Seq(ToSet(OpenMaterialRequests))
      /\ \A r \in ToSet(OpenMaterialRequests) : r.item \in Nat /\
           \E l \in DemandLines : r.item = Line(snap.mr, l).item /\ r.due = snap.mr[l[1]].due
      /\ \A l \in DemandLines : \E r \in ToSet(OpenMaterialRequests) :
           r.item = Line(snap.mr, l).item /\ r.due = snap.mr[l[1]].due
  BY <1>2, <1>3, <1>4, <1>5
<1>7. ASSUME NEW i, NEW r \in ToSet(OpenMaterialRequests), r.item = i, r.due = "none"
      PROVE \E l \in DemandLines : Line(snap.mr, l).item = i /\ snap.mr[l[1]].due = "none"
  <2>1. PICK l \in DemandLines : r.item = Line(snap.mr, l).item /\ r.due = snap.mr[l[1]].due
    BY <1>6
  <2> QED
    BY <1>7, <2>1
<1>8. ASSUME NEW i, NEW l \in DemandLines, Line(snap.mr, l).item = i, snap.mr[l[1]].due = "none"
      PROVE \E r \in ToSet(OpenMaterialRequests) : r.item = i /\ r.due = "none"
  <2>1. PICK r \in ToSet(OpenMaterialRequests) : r.item = Line(snap.mr, l).item /\ r.due = snap.mr[l[1]].due
    BY <1>6
  <2> QED
    BY <1>8, <2>1
<1>9. {r.item : r \in ToSet(OpenMaterialRequests)} = Asked
  <2>1. ASSUME NEW i PROVE i \in {r.item : r \in ToSet(OpenMaterialRequests)} <=> i \in Asked
    BY <1>6 DEF Asked
  <2> QED
    BY <2>1
<1>10. \A i : (\E r \in ToSet(OpenMaterialRequests) : r.item = i /\ r.due = "none")
                <=> \E l \in DemandLines : Line(snap.mr, l).item = i /\ snap.mr[l[1]].due = "none"
  BY <1>7, <1>8, Zenon
<1> QED
  BY <1>6, <1>9, <1>10, Zenon

\* The rows of open_purchase_orders.
LEMMA SupplyIsListed ==
    ASSUME LedgersHold
    PROVE  /\ OpenPurchaseOrders \in Seq(ToSet(OpenPurchaseOrders))
           /\ \A i : (\E r \in ToSet(OpenPurchaseOrders) : r.item = i /\ r.due = "none")
                        <=> \E l \in SupplyLines : Line(snap.po, l).item = i /\ snap.po[l[1]].due = "none"
<1> DEFINE qty == Awaited
<1>1. Listed(snap.po)
  BY LedgerLists DEF LedgersHold
<1>2. DOMAIN qty = SupplyLines /\ SupplyLines \subseteq Lines(snap.po)
  BY DEF SupplyLines, Awaited
<1>3. OpenPurchaseOrders = Grouped(snap.po, qty)
  BY DEF OpenPurchaseOrders
<1> HIDE DEF qty
<1> DEFINE Rows == ToSet(Grouped(snap.po, qty))
<1>4. /\ Grouped(snap.po, qty) \in Seq(Rows)
      /\ \A r \in Rows : r.item \in Nat /\
           \E l \in DOMAIN qty : r.item = Line(snap.po, l).item /\ r.due = snap.po[l[1]].due
      /\ \A l \in DOMAIN qty : \E r \in Rows :
           r.item = Line(snap.po, l).item /\ r.due = snap.po[l[1]].due
  <2>1. DOMAIN qty \subseteq Lines(snap.po)
    BY <1>2
  <2> QED
    BY <1>1, <2>1, GroupedRows
<1>5. Rows = ToSet(OpenPurchaseOrders)
  BY <1>3
<1> HIDE DEF Rows
<1>6. /\ OpenPurchaseOrders \in Seq(ToSet(OpenPurchaseOrders))
      /\ \A r \in ToSet(OpenPurchaseOrders) :
           \E l \in SupplyLines : r.item = Line(snap.po, l).item /\ r.due = snap.po[l[1]].due
      /\ \A l \in SupplyLines : \E r \in ToSet(OpenPurchaseOrders) :
           r.item = Line(snap.po, l).item /\ r.due = snap.po[l[1]].due
  BY <1>2, <1>3, <1>4, <1>5
<1>7. ASSUME NEW i, NEW r \in ToSet(OpenPurchaseOrders), r.item = i, r.due = "none"
      PROVE \E l \in SupplyLines : Line(snap.po, l).item = i /\ snap.po[l[1]].due = "none"
  <2>1. PICK l \in SupplyLines : r.item = Line(snap.po, l).item /\ r.due = snap.po[l[1]].due
    BY <1>6
  <2> QED
    BY <1>7, <2>1
<1>8. ASSUME NEW i, NEW l \in SupplyLines, Line(snap.po, l).item = i, snap.po[l[1]].due = "none"
      PROVE \E r \in ToSet(OpenPurchaseOrders) : r.item = i /\ r.due = "none"
  <2>1. PICK r \in ToSet(OpenPurchaseOrders) : r.item = Line(snap.po, l).item /\ r.due = snap.po[l[1]].due
    BY <1>6
  <2> QED
    BY <1>8, <2>1
<1>9. \A i : (\E r \in ToSet(OpenPurchaseOrders) : r.item = i /\ r.due = "none")
                <=> \E l \in SupplyLines : Line(snap.po, l).item = i /\ snap.po[l[1]].due = "none"
  BY <1>7, <1>8, Zenon
<1> QED
  BY <1>6, <1>9, Zenon

\* What a tool lists is a sequence.
LEMMA SourceIsListed ==
    ASSUME LedgersHold, job.at \in Paging
    PROVE  Source \in Seq(ToSet(Source))
<1>1. \/ Source = OpenMaterialRequests
      \/ Source = OpenPurchaseOrders
      \/ Source = ProjectedStock(Head(job.todo))
  BY DEF Source, Paging
<1> QED
  BY <1>1, StockIsListed, DemandIsListed, SupplyIsListed

\* A page carries on where the last one ended, and the last one ends where the list does.
LEMMA PageCarriesOn ==
    ASSUME LedgersHold, job.at \in Paging, job.offset \in 0..Len(Source)
    PROVE  /\ HasMore => /\ SubSeq(Source, 1, job.offset) \o Page = SubSeq(Source, 1, NextOffset)
                         /\ NextOffset \in 0..Len(Source)
           /\ ~HasMore => SubSeq(Source, 1, job.offset) \o Page = Source
<1> DEFINE s == Source
<1> DEFINE o == job.offset
<1>1. s \in Seq(ToSet(s)) /\ Len(s) \in Nat
  BY SourceIsListed, LenProperties
<1>2. PageSize \in Nat \ {0}
  BY ScopeAssumption
<1>3. /\ HasMore <=> Len(s) > o + PageSize
      /\ Page = SubSeq(s, o + 1, IF HasMore THEN o + PageSize ELSE Len(s))
      /\ NextOffset = o + PageSize
  BY DEF HasMore, Page, NextOffset
<1>4. o \in 0..Len(s)
  OBVIOUS
<1> HIDE DEF s, o
<1>5. ASSUME NEW n \in o..Len(s) PROVE SubSeq(s, 1, o) \o SubSeq(s, o + 1, n) = SubSeq(s, 1, n)
  <2>1. 1 \in 1..Len(s) + 1 /\ o \in (1 - 1)..Len(s)
    BY <1>1, <1>4
  <2> QED
    BY <1>1, <2>1, ConcatAdjacentSubSeq
<1>6. SubSeq(s, 1, Len(s)) = s
  BY <1>1, SubSeqFull
<1>7. ASSUME HasMore PROVE o + PageSize \in o..Len(s) /\ o + PageSize \in 0..Len(s)
  BY <1>1, <1>2, <1>3, <1>4, <1>7
<1>8. Len(s) \in o..Len(s)
  BY <1>1, <1>4
<1>9. HasMore => SubSeq(s, 1, o) \o Page = SubSeq(s, 1, NextOffset) /\ NextOffset \in 0..Len(s)
  BY <1>3, <1>5, <1>7
<1>10. ~HasMore => SubSeq(s, 1, o) \o Page = s
  BY <1>3, <1>5, <1>6, <1>8
<1> QED
  BY <1>9, <1>10 DEF s, o

-----------------------------------------------------------------------------
\* What is computed from the snapshot changes only with it.
LEMMA SnapshotIsRead ==
    ASSUME UNCHANGED <<snap, scope>>
    PROVE  /\ OpenMaterialRequests' = OpenMaterialRequests /\ OpenPurchaseOrders' = OpenPurchaseOrders
           /\ Asked' = Asked /\ \A i : Undated(i)' <=> Undated(i)
           /\ \A i : ProjectedStock(i)' = ProjectedStock(i)
           /\ \A i : Concluding(i)' = Concluding(i)
<1>1. Lines(snap.mr)' = Lines(snap.mr) /\ Lines(snap.po)' = Lines(snap.po)
  BY DEF Lines, Open, InScope
<1>2. DemandLines' = DemandLines /\ SupplyLines' = SupplyLines
  BY <1>1 DEF DemandLines, SupplyLines, Enabled
<1>3. OpenMaterialRequests' = OpenMaterialRequests /\ OpenPurchaseOrders' = OpenPurchaseOrders
  BY <1>2 DEF OpenMaterialRequests, OpenPurchaseOrders, Demanded, Awaited
<1>4. Asked' = Asked /\ \A i : Undated(i)' <=> Undated(i)
  BY <1>2 DEF Asked, Undated
<1>5. Warehouses' = Warehouses
  BY DEF Warehouses
<1>6. ASSUME NEW i PROVE ProjectedStock(i)' = ProjectedStock(i)
  BY <1>5 DEF ProjectedStock
<1>7. ASSUME NEW i PROVE Concluding(i)' = Concluding(i)
  BY <1>3, <1>6 DEF Concluding
<1> QED
  BY <1>3, <1>4, <1>6, <1>7

\* It lists the same as long as the snapshot, the scope and the call are the same.
LEMMA SourceIsRead ==
    ASSUME UNCHANGED <<snap, scope>>, job'.at = job.at, job'.todo = job.todo
    PROVE  Source' = Source
  BY SnapshotIsRead DEF Source

\* What people do changes nothing a closeout reads.
LEMMA PagesOfPeople ==
    ASSUME JobShape, PagesAreWhole, ItemsLeft, PlanLeadsWithShortages,
           UNCHANGED <<snap, scope, job, results, findings>>
    PROVE  JobShape' /\ PagesAreWhole' /\ ItemsLeft' /\ PlanLeadsWithShortages'
<1>1. JobShape'
  BY DEF JobShape
<1>2. PagesAreWhole'
  BY SnapshotIsRead, SourceIsRead DEF PagesAreWhole
<1>3. ItemsLeft'
  BY SnapshotIsRead DEF ItemsLeft
<1>4. PlanLeadsWithShortages'
  BY DEF PlanLeadsWithShortages
<1> QED
  BY <1>1, <1>2, <1>3, <1>4

\* One more page of a list (_collect_rows).
LEMMA PagesFetched ==
    ASSUME LedgersHold, JobShape, PagesAreWhole, ItemsLeft, FetchPage
    PROVE  JobShape' /\ PagesAreWhole' /\ ItemsLeft' /\ PlanLeadsWithShortages'
<1>1. job.at \in Paging /\ HasMore /\ UNCHANGED <<snap, scope, results, findings>>
  BY DEF FetchPage, Paging
<1>2. /\ DOMAIN job' = DOMAIN job /\ job'.at = job.at /\ job'.todo = job.todo
      /\ job'.offset = NextOffset /\ job'[job.at] = job[job.at] \o Page
      /\ \A x \in Paging : x # job.at => job'[x] = job[x]
  BY <1>1 DEF FetchPage, JobShape, Paging
<1>3. job.offset \in 0..Len(Source) /\ job[job.at] = SubSeq(Source, 1, job.offset)
  BY <1>1 DEF PagesAreWhole
<1>4. job'[job.at] = SubSeq(Source, 1, NextOffset) /\ NextOffset \in 0..Len(Source)
  BY <1>1, <1>2, <1>3, PageCarriesOn
<1>5. Len(Source) \in Nat
  BY <1>1, SourceIsListed, LenProperties
<1>6. NextOffset \in Nat
  BY <1>4, <1>5
<1>7. JobShape'
  BY <1>2, <1>6 DEF JobShape
<1>8. Source' = Source
  BY <1>1, <1>2, SourceIsRead
<1>9. PagesAreWhole'
  <2>1. job'.at \in Paging => job'.offset \in 0..Len(Source)' /\ job'[job'.at] = SubSeq(Source, 1, job.offset)'
    BY <1>2, <1>4, <1>8
  <2>2. job'.at \in {"po", "stock"} \cup Concluded => job'.mr = OpenMaterialRequests'
    BY <1>1, <1>2, SnapshotIsRead DEF PagesAreWhole, Paging, Concluded
  <2>3. job'.at \in {"stock"} \cup Concluded => job'.po = OpenPurchaseOrders'
    BY <1>1, <1>2, SnapshotIsRead DEF PagesAreWhole, Paging, Concluded
  <2>4. job'.at = "mr" => job'.po = <<>>
    BY <1>2 DEF PagesAreWhole, Paging
  <2> QED
    BY <2>1, <2>2, <2>3, <2>4 DEF PagesAreWhole
<1>10. ItemsLeft'
  BY <1>1, <1>2, SnapshotIsRead DEF ItemsLeft
<1>11. PlanLeadsWithShortages'
  BY <1>1, <1>2 DEF PlanLeadsWithShortages, Paging
<1> QED
  BY <1>7, <1>9, <1>10, <1>11

\* A list has an end.
LEMMA SourceEnds == LedgersHold /\ job.at \in Paging => Len(Source) \in Nat
  BY SourceIsListed, LenProperties

\* A new closeout has collected nothing (analyze_run).
LEMMA PagesBegun ==
    ASSUME LedgersHold, ItemsLeft, Begin
    PROVE  JobShape' /\ PagesAreWhole' /\ ItemsLeft' /\ PlanLeadsWithShortages'
<1>1. /\ DOMAIN job' = {"at", "offset", "mr", "po", "stock", "todo"}
      /\ job'.at = "mr" /\ job'.offset = 0 /\ job'.mr = <<>> /\ job'.po = <<>> /\ job.at \in {"idle", "failed"}
      /\ UNCHANGED <<scope, results>> /\ snap' = erp
  BY DEF Begin, NoJob
<1>2. LedgersHold'
  BY LedgersAreKept DEF CloseoutNext
<1>3. Len(Source)' \in Nat
  <2>1. (LedgersHold /\ job.at \in Paging => Len(Source) \in Nat)'
    BY SourceEnds, PTL
  <2> QED
    BY <1>1, <1>2, <2>1 DEF Paging
<1>4. SubSeq(Source, 1, 0)' = <<>>
  BY SubSeqEmpty
<1>5. JobShape'
  BY <1>1 DEF JobShape, Paging
<1>6. PagesAreWhole'
  <2>1. job'[job'.at] = <<>> /\ SubSeq(Source, 1, job.offset)' = <<>>
    BY <1>1, <1>4
  <2>2. job'.offset \in 0..Len(Source)'
    BY <1>1, <1>3
  <2>3. job'.at = "mr" /\ job'.po = <<>> /\ job'.at \notin {"po", "stock"} \cup Concluded
    BY <1>1 DEF Concluded
  <2> QED
    BY <2>1, <2>2, <2>3 DEF PagesAreWhole
<1>7. ItemsLeft'
  BY <1>1 DEF ItemsLeft, Concluded
<1>8. PlanLeadsWithShortages'
  BY <1>1 DEF PlanLeadsWithShortages
<1> QED
  BY <1>5, <1>6, <1>7, <1>8

\* One that fails has no rows.
LEMMA PagesGivenUp ==
    ASSUME ToolFails \/ (job.at = "po" /\ Failed)
    PROVE  JobShape' /\ PagesAreWhole' /\ ItemsLeft' /\ PlanLeadsWithShortages'
<1>1. /\ DOMAIN job' = {"at", "offset", "mr", "po", "stock", "todo"}
      /\ job'.at = "failed" /\ job'.offset = 0 /\ results' = {}
  BY DEF ToolFails, Failed, NoJob
<1> QED
  BY <1>1 DEF JobShape, PagesAreWhole, ItemsLeft, PlanLeadsWithShortages, Paging, Concluded

-----------------------------------------------------------------------------
\* The items with open demand are finitely many.
LEMMA AskedIsFinite ==
    ASSUME LedgersHold
    PROVE  Asked \in SUBSET Nat /\ IsFiniteSet(Asked)
<1>1. Asked \in SUBSET Nat
  BY DemandIsListed
<1>2. Listed(snap.mr)
  BY LedgerLists DEF LedgersHold
<1>3. DemandLines \in SUBSET Lines(snap.mr)
  BY DEF DemandLines
<1>4. IsFiniteSet(DemandLines)
  BY <1>2, <1>3, LinesAreListed, FS_Subset
<1> DEFINE f == [l \in DemandLines |-> Line(snap.mr, l).item]
<1>5. DOMAIN f = DemandLines /\ Asked = {f[l] : l \in DemandLines}
  BY DEF Asked
<1> HIDE DEF f
<1> QED
  BY <1>1, <1>4, <1>5, FiniteImage

\* Sorted numbers are listed once each.
LEMMA SortedNumbers ==
    ASSUME NEW S \in SUBSET Nat, IsFiniteSet(S)
    PROVE  /\ Sorted(S, Smaller) \in Seq(Nat)
           /\ ToSet(Sorted(S, Smaller)) = S
           /\ \A j, k \in DOMAIN Sorted(S, Smaller) :
                Sorted(S, Smaller)[j] = Sorted(S, Smaller)[k] => j = k
<1> DEFINE R == {p \in S \X S : Smaller(p[1], p[2])}
<1> DEFINE s == Sorted(S, Smaller)
<1> DEFINE n == Cardinality(S)
<1>1. Orders(R, S)
  BY NumbersAreOrdered
<1>2. s = Ranked(S, R)
  BY DEF Sorted
<1>3. \A p \in R : p[1] < p[2]
  BY DEF Smaller
<1> HIDE DEF R
<1>4. /\ n \in Nat /\ s \in [1..n -> S]
      /\ \A x \in S : \E k \in 1..n : s[k] = x
      /\ \A j, k \in 1..n : j < k => <<s[j], s[k]>> \in R
  BY <1>1, <1>2, RankedLists
<1> HIDE DEF s, n
<1>5. s \in Seq(Nat)
  <2>1. s \in [1..n -> Nat]
    BY <1>4
  <2> QED
    BY <1>4, <2>1, SeqDef
<1>6. ToSet(s) = S
  BY <1>4 DEF ToSet
<1>7. ASSUME NEW j \in DOMAIN s, NEW k \in DOMAIN s, s[j] = s[k] PROVE j = k
  <2>1. j \in 1..n /\ k \in 1..n /\ s[j] \in Nat /\ s[k] \in Nat
    BY <1>4
  <2>2. \A a, b \in 1..n : a < b => s[a] < s[b]
    <3> TAKE a, b \in 1..n
    <3> HAVE a < b
    <3>1. <<s[a], s[b]>> \in R
      BY <1>4
    <3> QED
      BY <1>3, <3>1
  <2> QED
    BY <1>4, <1>7, <2>1, <2>2
<1> QED
  BY <1>5, <1>6, <1>7 DEF s

\* The items left and the rows of the others, whatever comes next.
LEMMA NextItemStarts ==
    ASSUME LedgersHold', UNCHANGED <<snap, scope>>,
           NEW next, DOMAIN next = {"at", "offset", "mr", "po", "stock", "todo"}, next.offset = 0,
           next.mr = OpenMaterialRequests, next.po = OpenPurchaseOrders, job' = NextItem(next)
    PROVE  /\ JobShape' /\ PagesAreWhole' /\ PlanLeadsWithShortages' /\ job'.todo = next.todo
           /\ job'.at = IF next.todo = <<>> THEN "proposed" ELSE "stock"
<1>1. /\ DOMAIN job' = DOMAIN next /\ job'.offset = 0 /\ job'.mr = OpenMaterialRequests
      /\ job'.po = OpenPurchaseOrders /\ job'.stock = <<>> /\ job'.todo = next.todo
      /\ job'.at = IF next.todo = <<>> THEN "proposed" ELSE "stock"
  BY DEF NextItem
<1>2. JobShape'
  BY <1>1 DEF JobShape, Concluded, Paging
<1>3. Len(Source)' \in Nat \/ job'.at = "proposed"
  <2>1. (LedgersHold /\ job.at \in Paging => Len(Source) \in Nat)'
    BY SourceEnds, PTL
  <2> QED
    BY <1>1, <2>1 DEF Paging
<1>4. SubSeq(Source, 1, 0)' = <<>>
  BY SubSeqEmpty
<1>5. job'.at = "stock" => job'[job'.at] = <<>> /\ SubSeq(Source, 1, job.offset)' = <<>>
  BY <1>1, <1>4
<1>6. job'.at = "stock" => job'.offset \in 0..Len(Source)'
  BY <1>1, <1>3
<1>7. job'.at \in {"stock", "proposed"} /\ (job'.at \in Paging => job'.at = "stock")
  BY <1>1 DEF Paging
<1>8. PagesAreWhole'
  BY <1>1, <1>5, <1>6, <1>7, SnapshotIsRead DEF PagesAreWhole
<1>9. PlanLeadsWithShortages'
  BY <1>7 DEF PlanLeadsWithShortages
<1> QED
  BY <1>1, <1>2, <1>8, <1>9

\* The last page of the requests or of the orders: a list is collected whole.
LEMMA ListsEnd ==
    ASSUME LedgersHold, JobShape, PagesAreWhole, ItemsLeft, LastPage
    PROVE  JobShape' /\ PagesAreWhole' /\ ItemsLeft' /\ PlanLeadsWithShortages'
<1> DEFINE got == [job EXCEPT ![job.at] = @ \o Page, !.offset = 0]
<1> DEFINE items == {r.item : r \in ToSet(got.mr)}
<1>1. /\ job.at \in {"mr", "po"} /\ ~HasMore /\ UNCHANGED <<snap, scope, findings>> /\ results = {}
      /\ DOMAIN job = {"at", "offset", "mr", "po", "stock", "todo"}
  BY DEF LastPage, ItemsLeft, JobShape, Concluded
<1>2. job.at \in Paging /\ job[job.at] \o Page = Source
  BY <1>1, PageCarriesOn DEF PagesAreWhole, Paging
<1>3. CASE job.at = "mr"
  <2>1. job' = [got EXCEPT !.at = "po"] /\ results' = results
    BY <1>3 DEF LastPage
  <2>2. /\ DOMAIN job' = DOMAIN job /\ job'.at = "po" /\ job'.offset = 0
        /\ job'.mr = OpenMaterialRequests /\ job'.po = <<>>
    BY <1>1, <1>2, <1>3, <2>1 DEF Source, PagesAreWhole
  <2>3. Len(Source)' \in Nat
    <3>1. (LedgersHold /\ job.at \in Paging => Len(Source) \in Nat)'
      BY SourceEnds, PTL
    <3>2. LedgersHold'
      BY LedgersAreKept DEF CloseoutNext
    <3> QED
      BY <2>2, <3>1, <3>2 DEF Paging
  <2>4. SubSeq(Source, 1, 0)' = <<>>
    BY SubSeqEmpty
  <2>5. PagesAreWhole'
    <3>1. job'[job'.at] = <<>> /\ SubSeq(Source, 1, job.offset)' = <<>>
      BY <2>2, <2>4
    <3>2. job'.offset \in 0..Len(Source)'
      BY <2>2, <2>3
    <3>3. job'.at = "po" /\ job'.at \notin {"stock"} \cup Concluded /\ OpenMaterialRequests' = OpenMaterialRequests
      BY <1>1, <2>2, SnapshotIsRead DEF Concluded
    <3> QED
      BY <2>2, <3>1, <3>2, <3>3 DEF PagesAreWhole
  <2> QED
    BY <1>1, <2>1, <2>2, <2>5 DEF JobShape, ItemsLeft, PlanLeadsWithShortages, Concluded, Paging
<1>4. CASE job.at = "po" /\ Cardinality(items) > MaxItems
  <2>1. Failed
    BY <1>4 DEF LastPage
  <2> QED
    BY <1>4, <2>1, PagesGivenUp
<1>5. CASE job.at = "po" /\ ~(Cardinality(items) > MaxItems)
  <2>1. job' = NextItem([got EXCEPT !.todo = Sorted(items, Smaller)]) /\ results' = results
    BY <1>5 DEF LastPage
  <2>2. got.mr = OpenMaterialRequests /\ got.po = OpenPurchaseOrders
    BY <1>1, <1>2, <1>5 DEF Source, PagesAreWhole
  <2>3. items = Asked
    BY <2>2, DemandIsListed
  <2> DEFINE todo == Sorted(Asked, Smaller)
  <2>4. /\ todo \in Seq(Nat) /\ ToSet(todo) = Asked
        /\ \A j, k \in DOMAIN todo : todo[j] = todo[k] => j = k
    BY AskedIsFinite, SortedNumbers
  <2>5. job' = NextItem([got EXCEPT !.todo = todo])
    BY <2>1, <2>3
  <2>6. DOMAIN got = DOMAIN job /\ got.offset = 0
    BY <1>1, <1>5
  <2> HIDE DEF got, items, todo
  <2> DEFINE next == [got EXCEPT !.todo = todo]
  <2>7. /\ DOMAIN next = DOMAIN job /\ next.offset = 0 /\ next.todo = todo
         /\ next.mr = OpenMaterialRequests /\ next.po = OpenPurchaseOrders
    BY <1>1, <2>2, <2>6
  <2>8. job' = NextItem(next)
    BY <2>5
  <2> HIDE DEF next
  <2>9. LedgersHold'
    BY LedgersAreKept DEF CloseoutNext
  <2>10. /\ JobShape' /\ PagesAreWhole' /\ PlanLeadsWithShortages' /\ job'.todo = todo
        /\ job'.at = IF todo = <<>> THEN "proposed" ELSE "stock"
    BY <1>1, <2>7, <2>8, <2>9, NextItemStarts
  <2>11. ItemsLeft'
    <3>1. Asked' = Asked /\ ToSet(job'.todo) = Asked' /\ results' = {}
      BY <1>1, <2>1, <2>4, <2>10, SnapshotIsRead
    <3>2. results' = {Concluding(i)' : i \in Asked' \ ToSet(job'.todo)}
      BY <3>1
    <3>3. job'.at \in {"stock", "proposed"} /\ (job'.at = "stock" <=> job'.todo # <<>>)
      BY <2>10
    <3> QED
      BY <2>4, <2>10, <3>1, <3>2, <3>3 DEF ItemsLeft, Concluded
  <2> QED
    BY <2>10, <2>11
<1> QED
  BY <1>1, <1>3, <1>4, <1>5


\* The first of a list of different members is not among the rest.
LEMMA FirstAndRest ==
    ASSUME NEW s \in Seq(Nat), s # <<>>, \A j, k \in DOMAIN s : s[j] = s[k] => j = k
    PROVE  /\ Tail(s) \in Seq(Nat) /\ \A j, k \in DOMAIN Tail(s) : Tail(s)[j] = Tail(s)[k] => j = k
           /\ Head(s) \in ToSet(s) /\ ToSet(Tail(s)) = ToSet(s) \ {Head(s)}
<1>1. /\ Len(s) \in Nat /\ DOMAIN s = 1..Len(s) /\ Len(s) # 0
      /\ Tail(s) \in Seq(Nat) /\ Len(Tail(s)) = Len(s) - 1
      /\ \A i \in 1..Len(Tail(s)) : Tail(s)[i] = s[i + 1]
  BY LenProperties, HeadTailProperties, EmptySeq
<1>2. Head(s) = s[1]
  OBVIOUS
<1>3. DOMAIN Tail(s) = 1..(Len(s) - 1)
  BY <1>1, LenProperties
<1>4. \A j, k \in DOMAIN Tail(s) : Tail(s)[j] = Tail(s)[k] => j = k
  <2> TAKE j, k \in DOMAIN Tail(s)
  <2>1. j + 1 \in DOMAIN s /\ k + 1 \in DOMAIN s /\ Tail(s)[j] = s[j + 1] /\ Tail(s)[k] = s[k + 1]
    BY <1>1, <1>3
  <2>2. j \in Nat /\ k \in Nat
    BY <1>3
  <2>3. s[j + 1] = s[k + 1] => j + 1 = k + 1
    BY <2>1
  <2> QED
    BY <2>1, <2>2, <2>3
<1>5. Head(s) \in ToSet(s)
  BY <1>1, <1>2 DEF ToSet
<1>6. ASSUME NEW x PROVE x \in ToSet(Tail(s)) <=> x \in ToSet(s) /\ x # Head(s)
  <2>1. ASSUME x \in ToSet(Tail(s)) PROVE x \in ToSet(s) /\ x # Head(s)
    <3>1. PICK i \in DOMAIN Tail(s) : x = Tail(s)[i]
      BY <2>1 DEF ToSet
    <3>2. i + 1 \in DOMAIN s /\ x = s[i + 1] /\ i + 1 # 1 /\ 1 \in DOMAIN s
      BY <1>1, <1>3, <3>1
    <3> QED
      BY <1>2, <3>2 DEF ToSet
  <2>2. ASSUME x \in ToSet(s), x # Head(s) PROVE x \in ToSet(Tail(s))
    <3>1. PICK i \in DOMAIN s : x = s[i]
      BY <2>2 DEF ToSet
    <3>2. i - 1 \in DOMAIN Tail(s)
      BY <1>1, <1>2, <1>3, <2>2, <3>1
    <3>3. Tail(s)[i - 1] = s[i]
      BY <1>1, <1>3, <3>2
    <3> QED
      BY <3>1, <3>2, <3>3 DEF ToSet
  <2> QED
    BY <2>1, <2>2
<1>7. ToSet(Tail(s)) = ToSet(s) \ {Head(s)}
  BY <1>6
<1> QED
  BY <1>1, <1>4, <1>5, <1>7

\* The last page of the stock of an item: it is analysed and its row inserted.
LEMMA StockEnds ==
    ASSUME LedgersHold, JobShape, PagesAreWhole, ItemsLeft, LastStockPage
    PROVE  JobShape' /\ PagesAreWhole' /\ ItemsLeft' /\ PlanLeadsWithShortages'
<1> DEFINE item == Head(job.todo)
<1> DEFINE next == [job EXCEPT !.offset = 0, !.todo = Tail(@)]
<1>1. /\ job.at = "stock" /\ ~HasMore /\ UNCHANGED <<snap, scope>> /\ job' = NextItem(next)
      /\ results' = results \cup {AnalyzeItem(item, job.stock \o Page, job.mr, job.po)}
  BY DEF LastStockPage
<1>2. /\ job.todo \in Seq(Nat) /\ job.todo # <<>>
      /\ \A j, k \in DOMAIN job.todo : job.todo[j] = job.todo[k] => j = k
      /\ ToSet(job.todo) \subseteq Asked
      /\ results = {Concluding(i) : i \in Asked \ ToSet(job.todo)}
  BY <1>1 DEF ItemsLeft
<1>3. job.mr = OpenMaterialRequests /\ job.po = OpenPurchaseOrders
  BY <1>1 DEF PagesAreWhole
<1>4. job.stock \o Page = ProjectedStock(item)
  <2>1. job.at \in Paging
    BY <1>1 DEF Paging
  <2>2. job[job.at] = job.stock
    BY <1>1
  <2>3. Source = ProjectedStock(item)
    BY <1>1 DEF Source
  <2> QED
    BY <1>1, <2>1, <2>2, <2>3, PageCarriesOn DEF PagesAreWhole
<1>5. results' = results \cup {Concluding(item)}
  BY <1>1, <1>3, <1>4 DEF Concluding
<1>6. LedgersHold'
  BY LedgersAreKept DEF CloseoutNext
<1>7. /\ DOMAIN next = {"at", "offset", "mr", "po", "stock", "todo"} /\ next.offset = 0
      /\ next.todo = Tail(job.todo) /\ next.mr = OpenMaterialRequests /\ next.po = OpenPurchaseOrders
  BY <1>3 DEF JobShape
<1> HIDE DEF next, item
<1>8. /\ JobShape' /\ PagesAreWhole' /\ PlanLeadsWithShortages' /\ job'.todo = Tail(job.todo)
      /\ job'.at = IF Tail(job.todo) = <<>> THEN "proposed" ELSE "stock"
  BY <1>1, <1>6, <1>7, NextItemStarts
<1>9. /\ job'.todo \in Seq(Nat) /\ \A j, k \in DOMAIN job'.todo : job'.todo[j] = job'.todo[k] => j = k
      /\ item \in ToSet(job.todo) /\ ToSet(job'.todo) = ToSet(job.todo) \ {item}
  BY <1>2, <1>8, FirstAndRest DEF item
<1>10. results' = {Concluding(i)' : i \in Asked' \ ToSet(job'.todo)}
  <2>1. Asked' = Asked /\ \A i : Concluding(i)' = Concluding(i)
    BY <1>1, SnapshotIsRead
  <2>2. Asked \ ToSet(job'.todo) = (Asked \ ToSet(job.todo)) \cup {item}
    BY <1>2, <1>9
  <2>3. results' = {Concluding(i) : i \in Asked \ ToSet(job'.todo)}
    BY <1>2, <1>5, <2>2
  <2> QED
    BY <2>1, <2>3
<1>11. ToSet(job'.todo) \subseteq Asked'
  BY <1>1, <1>2, <1>9, SnapshotIsRead
<1>12. job'.at \in {"stock", "proposed"} /\ (job'.at = "stock" <=> job'.todo # <<>>)
  BY <1>8
<1>13. ItemsLeft'
  BY <1>9, <1>10, <1>11, <1>12 DEF ItemsLeft, Concluded
<1> QED
  BY <1>8, <1>13


-----------------------------------------------------------------------------
\* The row of an item names it, and asks for input exactly when a document has no date.
LEMMA RowJudged ==
    ASSUME NEW item, NEW actual, NEW demand, NEW incoming, NEW requested
    PROVE  LET r == Judged(item, actual, demand, incoming, requested) IN
           /\ DOMAIN r = {"item", "risk", "shortage"} /\ r.item = item /\ r.risk # "NEEDS_INPUT"
<1> DEFINE net == actual + incoming - demand
<1> DEFINE risk == IF actual < 0 THEN "UNKNOWN"
              ELSE IF demand = 0 /\ incoming = 0 THEN "NO_DEMAND"
              ELSE IF net < 0 THEN "SHORTAGE"
              ELSE IF requested > 0 \/ incoming > 0 THEN "DUPLICATE_RISK"
              ELSE "ADEQUATE"
<1>1. Judged(item, actual, demand, incoming, requested)
        = [item |-> item, risk |-> risk, shortage |-> IF risk = "SHORTAGE" THEN -net ELSE 0]
  BY DEF Judged
<1>2. risk \in {"UNKNOWN", "NO_DEMAND", "SHORTAGE", "DUPLICATE_RISK", "ADEQUATE"}
  OBVIOUS
<1> DEFINE short == IF risk = "SHORTAGE" THEN -net ELSE 0
<1>3. Judged(item, actual, demand, incoming, requested) = [item |-> item, risk |-> risk, shortage |-> short]
  BY <1>1
<1> HIDE DEF risk, short
<1> QED
  BY <1>2, <1>3

\* The row of an item of the snapshot asks for input exactly when a line counted has no date.
LEMMA RowOfItem ==
    ASSUME LedgersHold, NEW i
    PROVE  Concluding(i).item = i /\ (Concluding(i).risk = "NEEDS_INPUT" <=> Undated(i))
<1> DEFINE undated == \E r \in ToSet(OpenMaterialRequests) \cup ToSet(OpenPurchaseOrders) : r.item = i /\ r.due = "none"
<1>1. \E a, d, n, q : Concluding(i) = IF undated THEN [Judged(i, a, d, n, q) EXCEPT !.risk = "NEEDS_INPUT"]
                                                 ELSE Judged(i, a, d, n, q)
  BY Zenon DEF Concluding, AnalyzeItem
<1>2. PICK a, d, n, q : Concluding(i) = IF undated THEN [Judged(i, a, d, n, q) EXCEPT !.risk = "NEEDS_INPUT"]
                                                   ELSE Judged(i, a, d, n, q)
  BY <1>1
<1> DEFINE row == Judged(i, a, d, n, q)
<1>3. DOMAIN row = {"item", "risk", "shortage"} /\ row.item = i /\ row.risk # "NEEDS_INPUT"
  BY RowJudged
<1>4. undated <=> Undated(i)
  <2>1. undated <=> \/ \E r \in ToSet(OpenMaterialRequests) : r.item = i /\ r.due = "none"
                    \/ \E r \in ToSet(OpenPurchaseOrders) : r.item = i /\ r.due = "none"
    BY Zenon
  <2>2. (\E r \in ToSet(OpenMaterialRequests) : r.item = i /\ r.due = "none")
          <=> \E l \in DemandLines : Line(snap.mr, l).item = i /\ snap.mr[l[1]].due = "none"
    BY DemandIsListed
  <2>3. (\E r \in ToSet(OpenPurchaseOrders) : r.item = i /\ r.due = "none")
          <=> \E l \in SupplyLines : Line(snap.po, l).item = i /\ snap.po[l[1]].due = "none"
    BY SupplyIsListed
  <2> QED
    BY <2>1, <2>2, <2>3, Zenon DEF Undated
<1> HIDE DEF undated
<1>5. Concluding(i) = IF undated THEN [row EXCEPT !.risk = "NEEDS_INPUT"] ELSE row
  BY <1>2
<1> HIDE DEF row
<1> QED
  BY <1>3, <1>4, <1>5

\* The rows of an analysis that has concluded are as many as the items asked for.
LEMMA RowsOfAnalysis ==
    ASSUME LedgersHold, ItemsLeft, job.at \in Concluded
    PROVE  /\ results = {Concluding(i) : i \in Asked} /\ IsFiniteSet(results)
           /\ Cardinality(results) = Cardinality(Asked)
<1> DEFINE f == [i \in Asked |-> Concluding(i)]
<1>1. results = {Concluding(i) : i \in Asked}
  <2>1. results = {Concluding(i) : i \in Asked \ ToSet(job.todo)} /\ job.todo = <<>>
    BY DEF ItemsLeft
  <2>2. ToSet(job.todo) = {}
    BY <2>1 DEF ToSet
  <2> QED
    BY <2>1, <2>2
<1>2. \A i \in Asked : f[i] = Concluding(i) /\ Concluding(i).item = i
  BY RowOfItem
<1>3. f \in [Asked -> results] /\ \A r \in results : \E i \in Asked : f[i] = r
  BY <1>1
<1> HIDE DEF f
<1>4. \A i, j \in Asked : f[i] = f[j] => i = j
  BY <1>2
<1>5. f \in Surjection(Asked, results)
  BY <1>3 DEF Surjection
<1>6. f \in Injection(Asked, results)
  BY <1>3, <1>4 DEF Injection, IsInjective
<1> QED
  BY <1>1, <1>5, <1>6, AskedIsFinite, FS_Surjection

\* Shortages first, then by item, is a total order of the rows.
LEMMA PlanIsOrdered ==
    ASSUME NEW S, \A r \in S : r.item \in Nat, \A r, s \in S : r.item = s.item => r = s
    PROVE  Orders({p \in S \X S : PlanFirst(p[1], p[2])}, S)
<1> DEFINE R == {p \in S \X S : PlanFirst(p[1], p[2])}
<1> DEFINE short(r) == r.risk = "SHORTAGE"
<1>1. \A x, y \in S : <<x, y>> \in R <=> IF short(x) <=> short(y) THEN x.item < y.item ELSE short(x)
  <2> TAKE x, y \in S
  <2>1. <<x, y>> \in R <=> PlanFirst(x, y)
    OBVIOUS
  <2>2. PlanFirst(x, y) <=> IF short(x) <=> short(y) THEN x.item < y.item ELSE short(x)
    BY DEF PlanFirst
  <2> QED
    BY <2>1, <2>2, Zenon
<1>2. R \subseteq S \X S
  OBVIOUS
<1> HIDE DEF R, short
<1>3. \A x \in S : <<x, x>> \notin R
  BY <1>1
<1>4. \A x, y, z \in S : <<x, y>> \in R /\ <<y, z>> \in R => <<x, z>> \in R
  BY <1>1
<1>5. \A x, y \in S : x = y \/ <<x, y>> \in R \/ <<y, x>> \in R
  <2> SUFFICES ASSUME NEW x \in S, NEW y \in S, x # y PROVE <<x, y>> \in R \/ <<y, x>> \in R
    OBVIOUS
  <2>1. x.item \in Nat /\ y.item \in Nat /\ x.item # y.item
    BY Zenon
  <2>2. x.item < y.item \/ y.item < x.item
    BY <2>1
  <2> QED
    BY <1>1, <2>2, Zenon
<1>6. Orders(R, S)
  BY <1>2, <1>3, <1>4, <1>5 DEF Orders
<1> QED
  BY <1>6 DEF R

\* The plan names each row once, the short ones first (build_plan).
LEMMA PlanIsBuilt ==
    ASSUME LedgersHold, JobShape, PagesAreWhole, ItemsLeft, BuildPlan
    PROVE  JobShape' /\ PagesAreWhole' /\ ItemsLeft' /\ PlanLeadsWithShortages'
<1> DEFINE R == {p \in results \X results : PlanFirst(p[1], p[2])}
<1> DEFINE rows == Sorted(results, PlanFirst)
<1> DEFINE n == Cardinality(results)
<1>1. /\ job.at = "proposed" /\ UNCHANGED <<snap, scope, results>> /\ job' = [job EXCEPT !.at = "planned"]
      /\ findings' = [k \in DOMAIN rows |-> Finding(rows[k])]
  BY DEF BuildPlan
<1>2. job.at \in Concluded
  BY <1>1 DEF Concluded
<1>3. \A r \in results : \E i \in Asked : r = Concluding(i) /\ r.item = i /\ i \in Nat
  BY <1>2, RowsOfAnalysis, RowOfItem, AskedIsFinite
<1>4. IsFiniteSet(results) /\ Orders(R, results)
  <2>1. \A r, s \in results : r.item = s.item => r = s
    BY <1>3
  <2> QED
    BY <1>2, <1>3, <2>1, RowsOfAnalysis, PlanIsOrdered
<1>5. rows = Ranked(results, R)
  BY DEF Sorted
<1>6. \A a, b : <<a, b>> \in R => (b.risk = "SHORTAGE" => a.risk = "SHORTAGE")
  BY DEF PlanFirst
<1> HIDE DEF R
<1>7. /\ n \in Nat /\ rows \in [1..n -> results]
      /\ \A x \in results : \E k \in 1..n : rows[k] = x
      /\ \A j, k \in 1..n : j < k => <<rows[j], rows[k]>> \in R
  BY <1>4, <1>5, RankedLists
<1> HIDE DEF rows, n
<1>8. DOMAIN findings' = 1..n /\ \A k \in 1..n : findings'[k].item = rows[k].item /\ findings'[k].risk = rows[k].risk
  BY <1>1, <1>7 DEF Finding
<1>9. Len(findings') = n
  <2>1. findings' \in Seq(ToSet(findings')) /\ Len(findings') = n
    <3>1. findings' = [k \in 1..n |-> findings'[k]]
      BY <1>1, <1>7
    <3> QED
      BY <1>7, <3>1, ListOfItsRows
  <2> QED
    BY <2>1
<1>10. \A r \in results : \E k \in DOMAIN findings' : findings'[k].item = r.item /\ findings'[k].risk = r.risk
  BY <1>7, <1>8
<1>11. \A j, k \in DOMAIN findings' : j < k /\ findings'[k].risk = "SHORTAGE" => findings'[j].risk = "SHORTAGE"
  <2> TAKE j, k \in DOMAIN findings'
  <2> HAVE j < k /\ findings'[k].risk = "SHORTAGE"
  <2>1. j \in 1..n /\ k \in 1..n /\ findings'[j].risk = rows[j].risk /\ findings'[k].risk = rows[k].risk
    BY <1>8
  <2>2. <<rows[j], rows[k]>> \in R
    BY <1>7, <2>1
  <2>3. rows[k].risk = "SHORTAGE" => rows[j].risk = "SHORTAGE"
    BY <1>6, <2>2, Zenon
  <2> QED
    BY <2>1, <2>3
<1>12. PlanLeadsWithShortages'
  BY <1>1, <1>9, <1>10, <1>11 DEF PlanLeadsWithShortages, n
<1>13. /\ DOMAIN job' = DOMAIN job /\ job'.at = "planned" /\ job'.offset = job.offset
       /\ job'.mr = job.mr /\ job'.po = job.po /\ job'.todo = job.todo
  BY <1>1 DEF JobShape
<1>14. JobShape'
  BY <1>13 DEF JobShape, Concluded
<1>15. PagesAreWhole'
  BY <1>1, <1>13, SnapshotIsRead DEF PagesAreWhole, Concluded, Paging
<1>16. ItemsLeft'
  <2>1. job'.at \in Concluded /\ job'.at # "stock"
    BY <1>13 DEF Concluded
  <2> QED
    BY <1>1, <1>2, <1>13, <2>1, SnapshotIsRead DEF ItemsLeft
<1> QED
  BY <1>12, <1>14, <1>15, <1>16

\* What holds of an analysis at every step
AnalysisInductive == LedgersHold /\ JobShape /\ PagesAreWhole /\ ItemsLeft /\ PlanLeadsWithShortages

\* It holds at the start,
LEMMA AnalysisStarts == CloseoutInit => AnalysisInductive
<1> SUFFICES ASSUME CloseoutInit PROVE AnalysisInductive
  OBVIOUS
<1>1. LedgersHold
  BY ScopeAssumption DEF CloseoutInit, LedgersHold
<1>2. /\ DOMAIN job = {"at", "offset", "mr", "po", "stock", "todo"}
      /\ job.at = "idle" /\ job.offset = 0 /\ results = {}
  BY DEF CloseoutInit, NoJob
<1> QED
  BY <1>1, <1>2 DEF AnalysisInductive, JobShape, PagesAreWhole, ItemsLeft, PlanLeadsWithShortages, Paging, Concluded

\* and after every step, of the closeout or of people.
LEMMA AnalysisSteps == AnalysisInductive /\ [CloseoutNext]_numbers => AnalysisInductive'
<1> SUFFICES ASSUME AnalysisInductive, [CloseoutNext]_numbers PROVE AnalysisInductive'
  OBVIOUS
<1> USE DEF AnalysisInductive
<1>1. CASE UNCHANGED numbers
  <2>1. UNCHANGED <<erp, snap, scope, job, results, findings>>
    BY <1>1 DEF numbers
  <2>2. LedgersHold'
    BY <2>1 DEF LedgersHold
  <2> QED
    BY <2>1, <2>2, PagesOfPeople
<1>2. CASE CloseoutNext
  <2>1. LedgersHold'
    BY <1>2, LedgersAreKept
  <2>2. CASE Begin
    BY <2>1, <2>2, PagesBegun
  <2>3. CASE FetchPage
    BY <2>1, <2>3, PagesFetched
  <2>4. CASE LastPage
    BY <2>1, <2>4, ListsEnd
  <2>5. CASE LastStockPage
    BY <2>1, <2>5, StockEnds
  <2>6. CASE ToolFails
    <3>1. ToolFails \/ (job.at = "po" /\ Failed)
      BY <2>6
    <3>2. JobShape' /\ PagesAreWhole' /\ ItemsLeft' /\ PlanLeadsWithShortages'
      BY <3>1, PagesGivenUp
    <3> QED
      BY <2>1, <3>2
  <2>7. CASE BuildPlan
    BY <2>1, <2>7, PlanIsBuilt
  <2>8. CASE Order \/ Stop \/ ReceiveGoods \/ IssueStock \/ Disable
    <3>1. UNCHANGED <<snap, scope, job, results, findings>>
      BY <2>8, Zenon DEF Order, Stop, ReceiveGoods, IssueStock, Disable, Changed
    <3> QED
      BY <2>1, <3>1, PagesOfPeople
  <2> QED
    BY <1>2, <2>2, <2>3, <2>4, <2>5, <2>6, <2>7, <2>8 DEF CloseoutNext
<1> QED
  BY <1>1, <1>2

\* So it always holds.
LEMMA AnalysisInvariance == CloseoutSpec => []AnalysisInductive
  BY AnalysisStarts, AnalysisSteps, PTL DEF CloseoutSpec

-----------------------------------------------------------------------------
\* What is summed under other names is the same sum.
LEMMA TotalOfImage ==
    ASSUME NEW q, NEW L, IsFiniteSet(L), \A l \in L : q[l] \in Int,
           NEW g, \A j, l \in L : g[j] = g[l] => j = l,
           NEW K, \A l \in L : g[l] \in K, \A k \in K : \E l \in L : g[l] = k,
           NEW h, \A l \in L : h[g[l]] = q[l]
    PROVE  Total(h, K) = Total(q, L)
<1>1. IsFiniteSet(K)
  <2> DEFINE f == [l \in L |-> g[l]]
  <2>1. f \in Surjection(L, K)
    BY DEF Surjection
  <2> QED
    BY <2>1, FS_Surjection
<1>2. \A k \in K : h[k] = Total(q, Group(L, g, k))
  <2> TAKE k \in K
  <2>1. PICK l \in L : g[l] = k
    OBVIOUS
  <2>2. Group(L, g, k) = {l}
    BY <2>1 DEF Group
  <2>3. Total(q, {l}) = q[l]
    BY TotalOfSingle
  <2> QED
    BY <2>1, <2>2, <2>3
<1>3. Total(h, K) = Total(q, Groups(L, g, K))
  BY <1>1, <1>2, TotalOfGroups
<1>4. Groups(L, g, K) = L
  BY DEF Groups
<1> QED
  BY <1>3, <1>4

\* The fields of the lines of open documents
LEMMA LinesAreTyped ==
    ASSUME LedgersHold
    PROVE  /\ \A l \in Lines(snap.mr) :
                Line(snap.mr, l) \in [item: Nat, warehouse: Nat, qty: Nat, ordered: Nat]
           /\ \A l \in Lines(snap.po) :
                Line(snap.po, l) \in [item: Nat, warehouse: Nat, qty: Nat, received: Nat, factor: Nat]
<1>1. ASSUME NEW docs, NEW T, \A d \in DOMAIN docs : docs[d].lines \in Seq(T), NEW l \in Lines(docs)
      PROVE Line(docs, l) \in T
  <2>1. PICK d \in Open(docs) : l \in {<<d, n>> : n \in {k \in DOMAIN docs[d].lines : InScope(docs[d].lines[k].warehouse)}}
    BY DEF Lines
  <2>2. PICK n \in DOMAIN docs[d].lines : l = <<d, n>>
    BY <2>1
  <2>3. docs[d].lines \in Seq(T)
    BY <1>1 DEF Open
  <2>4. docs[d].lines[n] \in T
    BY <2>3, ElementOfSeq, LenProperties
  <2> QED
    BY <2>2, <2>4 DEF Line
<1> DEFINE M == [item: Nat, warehouse: Nat, qty: Nat, ordered: Nat]
<1> DEFINE P == [item: Nat, warehouse: Nat, qty: Nat, received: Nat, factor: Nat]
<1>2. (\A d \in DOMAIN snap.mr : snap.mr[d].lines \in Seq(M)) /\ \A d \in DOMAIN snap.po : snap.po[d].lines \in Seq(P)
  BY DEF LedgersHold, IsLedger, Demand, Supply
<1> HIDE DEF M, P
<1>3. (\A l \in Lines(snap.mr) : Line(snap.mr, l) \in M) /\ \A l \in Lines(snap.po) : Line(snap.po, l) \in P
  BY <1>1, <1>2
<1> QED
  BY <1>3 DEF M, P

\* What lines ask for and await are numbers, of finitely many lines.
LEMMA QuantitiesAreNumbers ==
    ASSUME LedgersHold
    PROVE  /\ DOMAIN Demanded = DemandLines /\ DemandLines \in SUBSET Lines(snap.mr)
           /\ IsFiniteSet(DemandLines) /\ \A l \in DemandLines : Demanded[l] \in Int
           /\ DOMAIN Awaited = SupplyLines /\ SupplyLines \in SUBSET Lines(snap.po)
           /\ IsFiniteSet(SupplyLines) /\ \A l \in SupplyLines : Awaited[l] \in Int
<1>1. DemandLines \in SUBSET Lines(snap.mr) /\ SupplyLines \in SUBSET Lines(snap.po)
  BY DEF DemandLines, SupplyLines
<1>2. Listed(snap.mr) /\ Listed(snap.po)
  BY LedgerLists DEF LedgersHold
<1>3. IsFiniteSet(Lines(snap.mr)) /\ IsFiniteSet(Lines(snap.po))
  BY <1>2, LinesAreListed
<1>4. IsFiniteSet(DemandLines) /\ IsFiniteSet(SupplyLines)
  BY <1>1, <1>3, FS_Subset
<1>5. \A l \in DemandLines : Wanted(Line(snap.mr, l)) \in Int
  BY <1>1, LinesAreTyped DEF Wanted
<1>6. \A l \in SupplyLines : Outstanding(Line(snap.po, l)) \in Int
  <2>1. \A l \in SupplyLines : Line(snap.po, l).qty \in Nat /\ Line(snap.po, l).received \in Nat /\ Line(snap.po, l).factor \in Nat
    BY <1>1, LinesAreTyped
  <2> QED
    BY <2>1 DEF Outstanding
<1> QED
  BY <1>1, <1>4, <1>5, <1>6 DEF Demanded, Awaited

\* The rows with some property add up to the lines with it.
LEMMA DemandAddsUp ==
    ASSUME LedgersHold, NEW K \in SUBSET DOMAIN OpenMaterialRequests, NEW L \in SUBSET DemandLines,
           \A l \in DemandLines, k \in DOMAIN OpenMaterialRequests :
             LET r == OpenMaterialRequests[k] IN
             (/\ r.item = Line(snap.mr, l).item /\ r.warehouse = Line(snap.mr, l).warehouse
              /\ r.due = snap.mr[l[1]].due) => (k \in K <=> l \in L)
    PROVE  Quantity(OpenMaterialRequests, K) = Total(Demanded, L)
<1> DEFINE G == OpenMaterialRequests
<1>1. Listed(snap.mr)
  BY LedgerLists DEF LedgersHold
<1>2. G = Grouped(snap.mr, Demanded)
  BY DEF OpenMaterialRequests
<1>3. DOMAIN Demanded \subseteq Lines(snap.mr) /\ \A l \in DOMAIN Demanded : Demanded[l] \in Int
  BY QuantitiesAreNumbers
<1>4. DOMAIN Demanded = DemandLines
  BY QuantitiesAreNumbers
<1> HIDE DEF G
<1>5. PICK place : /\ Placed(snap.mr, Demanded, G, place)
                   /\ \A J \in SUBSET DOMAIN G : Quantity(G, J) = Total(Demanded, Groups(DOMAIN Demanded, place, J))
  BY <1>1, <1>2, <1>3, GroupedSums
<1>6. \A l \in DemandLines :
        /\ place[l] \in DOMAIN G
        /\ G[place[l]].item = Line(snap.mr, l).item /\ G[place[l]].due = snap.mr[l[1]].due
        /\ G[place[l]].warehouse = Line(snap.mr, l).warehouse
  BY <1>4, <1>5 DEF Placed
<1>7. \A l \in DemandLines : place[l] \in K <=> l \in L
  BY <1>6 DEF G
<1>8. Groups(DOMAIN Demanded, place, K) = L
  BY <1>4, <1>7 DEF Groups
<1>9. K \in SUBSET DOMAIN G
  BY DEF G
<1> QED
  BY <1>5, <1>8, <1>9 DEF G

\* So it is for the rows of Purchase Orders.
LEMMA SupplyAddsUp ==
    ASSUME LedgersHold, NEW K \in SUBSET DOMAIN OpenPurchaseOrders, NEW L \in SUBSET SupplyLines,
           \A l \in SupplyLines, k \in DOMAIN OpenPurchaseOrders :
             LET r == OpenPurchaseOrders[k] IN
             (/\ r.item = Line(snap.po, l).item /\ r.warehouse = Line(snap.po, l).warehouse
              /\ r.due = snap.po[l[1]].due) => (k \in K <=> l \in L)
    PROVE  Quantity(OpenPurchaseOrders, K) = Total(Awaited, L)
<1> DEFINE G == OpenPurchaseOrders
<1>1. Listed(snap.po)
  BY LedgerLists DEF LedgersHold
<1>2. G = Grouped(snap.po, Awaited)
  BY DEF OpenPurchaseOrders
<1>3. DOMAIN Awaited \subseteq Lines(snap.po) /\ \A l \in DOMAIN Awaited : Awaited[l] \in Int
  BY QuantitiesAreNumbers
<1>4. DOMAIN Awaited = SupplyLines
  BY QuantitiesAreNumbers
<1> HIDE DEF G
<1>5. PICK place : /\ Placed(snap.po, Awaited, G, place)
                   /\ \A J \in SUBSET DOMAIN G : Quantity(G, J) = Total(Awaited, Groups(DOMAIN Awaited, place, J))
  BY <1>1, <1>2, <1>3, GroupedSums
<1>6. \A l \in SupplyLines :
        /\ place[l] \in DOMAIN G
        /\ G[place[l]].item = Line(snap.po, l).item /\ G[place[l]].due = snap.po[l[1]].due
        /\ G[place[l]].warehouse = Line(snap.po, l).warehouse
  BY <1>4, <1>5 DEF Placed
<1>7. \A l \in SupplyLines : place[l] \in K <=> l \in L
  BY <1>6 DEF G
<1>8. Groups(DOMAIN Awaited, place, K) = L
  BY <1>4, <1>7 DEF Groups
<1>9. K \in SUBSET DOMAIN G
  BY DEF G
<1> QED
  BY <1>5, <1>8, <1>9 DEF G

\* The stock listed for an item is its stock.
LEMMA StockAddsUp ==
    ASSUME LedgersHold, NEW item
    PROVE  /\ Quantity(ProjectedStock(item), DOMAIN ProjectedStock(item)) = InStock(item)
           /\ InStock(item) \in Int
<1> DEFINE S == {w \in Warehouses : <<item, w>> \in DOMAIN snap.bins}
<1> DEFINE R == {p \in S \X S : Smaller(p[1], p[2])}
<1> DEFINE bins == Sorted(S, Smaller)
<1> DEFINE B == {b \in DOMAIN snap.bins : b[1] = item /\ b[2] \in Warehouses}
<1> DEFINE stock == ProjectedStock(item)
<1> DEFINE n == Cardinality(S)
<1>1. Warehouses \in SUBSET Nat /\ IsFiniteSet(Warehouses)
  BY FS_Singleton DEF LedgersHold, IsLedger, Numbered, Warehouses
<1>2. S \in SUBSET Warehouses
  OBVIOUS
<1>3. S \in SUBSET Nat /\ IsFiniteSet(S)
  BY <1>1, <1>2, FS_Subset
<1>4. Orders(R, S)
  BY <1>3, NumbersAreOrdered
<1>5. bins = Ranked(S, R)
  BY DEF Sorted
<1>6. stock = [k \in DOMAIN bins |-> [qty |-> snap.bins[<<item, bins[k]>>]]]
  BY DEF ProjectedStock
<1>7. \A b \in B : b = <<item, b[2]>> /\ b[2] \in S /\ snap.bins[b] \in Int
  BY DEF LedgersHold, IsLedger
<1>8. \A w \in S : <<item, w>> \in B /\ snap.bins[<<item, w>>] \in Int
  BY DEF LedgersHold, IsLedger
<1> HIDE DEF S, R, B
<1>9. /\ n \in Nat /\ bins \in [1..n -> S] /\ \A x \in S : \E k \in 1..n : bins[k] = x
      /\ \A j, k \in 1..n : bins[j] = bins[k] => j = k
  BY <1>3, <1>4, <1>5, RankedLists
<1> HIDE DEF bins, n, stock
<1> DEFINE L == 1..n
<1> DEFINE q == [k \in DOMAIN stock |-> stock[k].qty]
<1> DEFINE g == [k \in L |-> <<item, bins[k]>>]
<1>10. IsFiniteSet(L)
  BY <1>9, FS_Interval
<1>11. DOMAIN stock = L /\ \A k \in L : q[k] = snap.bins[<<item, bins[k]>>]
  BY <1>6, <1>9
<1>12. \A k \in L : g[k] = <<item, bins[k]>> /\ g[k] \in B /\ q[k] \in Int /\ snap.bins[g[k]] = q[k]
  BY <1>8, <1>9, <1>11
<1>13. \A j, k \in L : g[j] = g[k] => j = k
  BY <1>9
<1>14. \A b \in B : \E k \in L : g[k] = b
  BY <1>7, <1>9
<1> HIDE DEF L, q, g
<1>15. Total(snap.bins, B) = Total(q, L)
  BY <1>10, <1>12, <1>13, <1>14, TotalOfImage
<1>16. Total(q, L) \in Int
  BY <1>10, <1>12, TotalIsInt
<1>17. InStock(item) = Total(snap.bins, B)
  BY DEF InStock, B
<1>18. Quantity(stock, DOMAIN stock) = Total(q, L)
  BY <1>11 DEF Quantity, q
<1> QED
  BY <1>15, <1>16, <1>17, <1>18 DEF stock

-----------------------------------------------------------------------------
\* The verdict on an item, from the quantities.
LEMMA JudgedExactly ==
    ASSUME NEW item, NEW actual \in Int, NEW demand \in Int, NEW incoming \in Int, NEW requested
    PROVE  LET r == Judged(item, actual, demand, incoming, requested)
               missing == demand - incoming - actual
           IN /\ r.risk = "UNKNOWN" <=> actual < 0
              /\ r.risk = "SHORTAGE" <=> actual >= 0 /\ missing > 0
              /\ r.risk = "SHORTAGE" => r.shortage = missing
<1> DEFINE net == actual + incoming - demand
<1> DEFINE rest == IF requested > 0 \/ incoming > 0 THEN "DUPLICATE_RISK" ELSE "ADEQUATE"
<1> DEFINE risk == IF actual < 0 THEN "UNKNOWN"
              ELSE IF demand = 0 /\ incoming = 0 THEN "NO_DEMAND"
              ELSE IF net < 0 THEN "SHORTAGE" ELSE rest
<1> DEFINE short == IF risk = "SHORTAGE" THEN -net ELSE 0
<1>1. Judged(item, actual, demand, incoming, requested) = [item |-> item, risk |-> risk, shortage |-> short]
  BY DEF Judged
<1>2. rest \in {"DUPLICATE_RISK", "ADEQUATE"}
  OBVIOUS
<1> HIDE DEF rest
<1>3. risk = "UNKNOWN" <=> actual < 0
  BY <1>2
<1>4. risk = "SHORTAGE" <=> actual >= 0 /\ demand - incoming - actual > 0
  BY <1>2
<1>5. -net = demand - incoming - actual
  OBVIOUS
<1> HIDE DEF risk
<1>6. risk = "SHORTAGE" => short = demand - incoming - actual
  BY <1>5
<1> HIDE DEF short
<1> QED
  BY <1>1, <1>3, <1>4, <1>6

\* The row of an item says what is missing of it.
LEMMA RowIsExact ==
    ASSUME LedgersHold, NEW i
    PROVE  /\ Concluding(i).risk = "UNKNOWN" <=> ~Undated(i) /\ InStock(i) < 0
           /\ Concluding(i).risk = "SHORTAGE" <=> ~Undated(i) /\ InStock(i) >= 0 /\ Missing(i) > 0
           /\ Concluding(i).risk = "SHORTAGE" => Concluding(i).shortage = Missing(i)
<1> DEFINE M == OpenMaterialRequests
<1> DEFINE P == OpenPurchaseOrders
<1> DEFINE stock == ProjectedStock(i)
<1> DEFINE OfM == {k \in DOMAIN M : M[k].item = i}
<1> DEFINE OfP == {k \in DOMAIN P : P[k].item = i}
<1> DEFINE DueM == {k \in OfM : M[k].due = "due"}
<1> DEFINE DueP == {k \in OfP : P[k].due = "due"}
<1> DEFINE row == Judged(i, Quantity(stock, DOMAIN stock), Quantity(M, DueM), Quantity(P, DueP), Quantity(M, OfM))
<1> DEFINE undated == \E r \in ToSet(M) \cup ToSet(P) : r.item = i /\ r.due = "none"
<1>1. Concluding(i) = IF undated THEN [row EXCEPT !.risk = "NEEDS_INPUT"] ELSE row
  BY Zenon DEF Concluding, AnalyzeItem
<1>2. Quantity(stock, DOMAIN stock) = InStock(i) /\ InStock(i) \in Int
  BY StockAddsUp
<1> DEFINE D == DueOf(snap.mr, DemandLines, i)
<1> DEFINE E == DueOf(snap.po, SupplyLines, i)
<1>3. Quantity(M, DueM) = Total(Demanded, D)
  <2>1. DueM \in SUBSET DOMAIN M /\ D \in SUBSET DemandLines
    BY DEF DueOf
  <2>2. \A l \in DemandLines, k \in DOMAIN M :
          (/\ M[k].item = Line(snap.mr, l).item /\ M[k].warehouse = Line(snap.mr, l).warehouse
           /\ M[k].due = snap.mr[l[1]].due) => (k \in DueM <=> l \in D)
    BY DEF DueOf
  <2> HIDE DEF DueM, D
  <2> QED
    BY <2>1, <2>2, DemandAddsUp
<1>4. Quantity(P, DueP) = Total(Awaited, E)
  <2>1. DueP \in SUBSET DOMAIN P /\ E \in SUBSET SupplyLines
    BY DEF DueOf
  <2>2. \A l \in SupplyLines, k \in DOMAIN P :
          (/\ P[k].item = Line(snap.po, l).item /\ P[k].warehouse = Line(snap.po, l).warehouse
           /\ P[k].due = snap.po[l[1]].due) => (k \in DueP <=> l \in E)
    BY DEF DueOf
  <2> HIDE DEF DueP, E
  <2> QED
    BY <2>1, <2>2, SupplyAddsUp
<1>5. Total(Demanded, D) \in Int /\ Total(Awaited, E) \in Int
  <2>1. D \in SUBSET DemandLines /\ E \in SUBSET SupplyLines
    BY DEF DueOf
  <2>2. IsFiniteSet(D) /\ IsFiniteSet(E)
    BY <2>1, QuantitiesAreNumbers, FS_Subset
  <2>3. (\A l \in D : Demanded[l] \in Int) /\ \A l \in E : Awaited[l] \in Int
    BY <2>1, QuantitiesAreNumbers
  <2> HIDE DEF D, E
  <2> QED
    BY <2>2, <2>3, TotalIsInt
<1>6. Missing(i) = Total(Demanded, D) - Total(Awaited, E) - InStock(i)
  BY DEF Missing
<1>7. /\ row.risk = "UNKNOWN" <=> InStock(i) < 0
      /\ row.risk = "SHORTAGE" <=> InStock(i) >= 0 /\ Missing(i) > 0
      /\ row.risk = "SHORTAGE" => row.shortage = Missing(i)
  <2> DEFINE a == Quantity(stock, DOMAIN stock)
  <2> DEFINE d == Quantity(M, DueM)
  <2> DEFINE n == Quantity(P, DueP)
  <2> DEFINE q == Quantity(M, OfM)
  <2>1. a = InStock(i) /\ Missing(i) = d - n - a /\ a \in Int /\ d \in Int /\ n \in Int
    BY <1>2, <1>3, <1>4, <1>5, <1>6
  <2>2. row = Judged(i, a, d, n, q)
    OBVIOUS
  <2> HIDE DEF a, d, n, q, row
  <2> QED
    BY <2>1, <2>2, JudgedExactly
<1>8. undated <=> Undated(i)
  <2>1. Concluding(i).risk = "NEEDS_INPUT" <=> Undated(i)
    BY RowOfItem
  <2>2. DOMAIN row = {"item", "risk", "shortage"} /\ row.risk # "NEEDS_INPUT"
    BY RowJudged
  <2> HIDE DEF row, undated
  <2> QED
    BY <1>1, <2>1, <2>2
<1>9. DOMAIN row = {"item", "risk", "shortage"}
  BY RowJudged
<1> HIDE DEF row, undated
<1> QED
  BY <1>1, <1>7, <1>8, <1>9

\* Rows made of everything the tools list say what is true of the snapshot.
LEMMA ExactRows == AnalysisInductive => AnalysisIsExact
<1> SUFFICES ASSUME AnalysisInductive, job.at \in Concluded
             PROVE  /\ {r.item : r \in results} = Asked /\ Cardinality(results) = Cardinality(Asked)
                    /\ \A r \in results :
                         /\ r.risk = "NEEDS_INPUT" <=> Undated(r.item)
                         /\ r.risk = "UNKNOWN" <=> ~Undated(r.item) /\ InStock(r.item) < 0
                         /\ r.risk = "SHORTAGE" <=> ~Undated(r.item) /\ InStock(r.item) >= 0 /\ Missing(r.item) > 0
                         /\ r.risk = "SHORTAGE" => r.shortage = Missing(r.item)
  BY DEF AnalysisIsExact, Concluded
<1>1. LedgersHold /\ ItemsLeft
  BY DEF AnalysisInductive
<1>2. results = {Concluding(i) : i \in Asked} /\ Cardinality(results) = Cardinality(Asked)
  BY <1>1, RowsOfAnalysis
<1>3. \A i : Concluding(i).item = i /\ (Concluding(i).risk = "NEEDS_INPUT" <=> Undated(i))
  BY <1>1, RowOfItem
<1>4. {r.item : r \in results} = Asked
  BY <1>2, <1>3
<1>5. ASSUME NEW r \in results
      PROVE /\ r.risk = "NEEDS_INPUT" <=> Undated(r.item)
            /\ r.risk = "UNKNOWN" <=> ~Undated(r.item) /\ InStock(r.item) < 0
            /\ r.risk = "SHORTAGE" <=> ~Undated(r.item) /\ InStock(r.item) >= 0 /\ Missing(r.item) > 0
            /\ r.risk = "SHORTAGE" => r.shortage = Missing(r.item)
  <2>1. PICK i \in Asked : r = Concluding(i)
    BY <1>2
  <2>2. r.item = i
    BY <1>3, <2>1
  <2> QED
    BY <1>1, <1>3, <2>1, <2>2, RowIsExact
<1> QED
  BY <1>2, <1>4, <1>5

-----------------------------------------------------------------------------
\* open_demand counts the lines open_material_requests lists.
LEMMA SameDemand == AnalysisInductive => DemandToolsAgree
<1> SUFFICES ASSUME AnalysisInductive, job.at = "po", NEW i \in Asked, NEW w \in Warehouses
             PROVE  OpenDemand(i, w) =
                      Quantity(job.mr, {k \in DOMAIN job.mr : job.mr[k].item = i /\ job.mr[k].warehouse = w})
  BY DEF DemandToolsAgree
<1> DEFINE M == OpenMaterialRequests
<1> DEFINE K == {k \in DOMAIN M : M[k].item = i /\ M[k].warehouse = w}
<1> DEFINE L == {l \in DemandLines : Line(snap.mr, l).item = i /\ Line(snap.mr, l).warehouse = w}
<1> DEFINE told == [l \in DemandLines |-> IF Line(snap.mr, l).warehouse \in Warehouses THEN Demanded[l] ELSE 0]
<1>1. LedgersHold /\ job.mr = M
  BY DEF AnalysisInductive, PagesAreWhole
<1>2. OpenDemand(i, w) = Total(told, L)
  BY DEF OpenDemand
<1>3. Total(told, L) = Total(Demanded, L)
  <2>1. L \in SUBSET DemandLines
    OBVIOUS
  <2>2. IsFiniteSet(L)
    BY <1>1, <2>1, QuantitiesAreNumbers, FS_Subset
  <2>3. \A l \in L : told[l] = Demanded[l]
    OBVIOUS
  <2> HIDE DEF L, told
  <2> QED
    BY <2>2, <2>3, TotalOfSame
<1>4. Quantity(M, K) = Total(Demanded, L)
  <2>1. K \in SUBSET DOMAIN M /\ L \in SUBSET DemandLines
    OBVIOUS
  <2>2. \A l \in DemandLines, k \in DOMAIN M :
          (/\ M[k].item = Line(snap.mr, l).item /\ M[k].warehouse = Line(snap.mr, l).warehouse
           /\ M[k].due = snap.mr[l[1]].due) => (k \in K <=> l \in L)
    OBVIOUS
  <2> HIDE DEF K, L
  <2> QED
    BY <1>1, <2>1, <2>2, DemandAddsUp
<1> QED
  BY <1>1, <1>2, <1>3, <1>4

\* h is what is read for an item, document by document of D, whose lines are those in L.
ReadOneByOne(docs, i, D, L, q, current, h) ==
    /\ D \in SUBSET Open(docs) /\ L \in SUBSET Lines(docs)
    /\ \A l \in Lines(docs) : l \in L <=> l[1] \in D /\ Line(docs, l).item = i
    /\ \A l \in L : q[l] \in Int
    /\ \A d \in D : DOMAIN current[d] = Shown(docs, d)
    /\ \A d \in D : \A n \in Shown(docs, d) :
        /\ current[d][n].item = docs[d].lines[n].item
        /\ docs[d].lines[n].item = i => current[d][n].open = q[<<d, n>>]
    /\ \A d \in D : h[d] = OpenOf(current[d], i)

\* What is read of open documents one by one adds up to their lines.
LEMMA DocumentsAddUp ==
    ASSUME NEW docs, Listed(docs), NEW i, NEW D, NEW L, NEW q, NEW current, NEW h,
           ReadOneByOne(docs, i, D, L, q, current, h)
    PROVE  Total(h, D) = Total(q, L)
<1> USE DEF ReadOneByOne
<1>1. IsFiniteSet(L)
  BY LinesAreListed, FS_Subset
<1>2. IsFiniteSet(D)
  <2>1. D \in SUBSET DOMAIN docs
    BY DEF Open
  <2> QED
    BY <2>1, FS_Subset DEF Listed, Numbered
<1>3. \A l \in Lines(docs) : \E d \in Open(docs) : \E n \in Shown(docs, d) : l = <<d, n>>
  BY DEF Lines, Shown
<1>4. \A d \in Open(docs) : \A n \in Shown(docs, d) : <<d, n>> \in Lines(docs)
  BY DEF Lines, Shown
<1> DEFINE first == [l \in L |-> l[1]]
<1>5. ASSUME NEW d \in D PROVE h[d] = Total(q, Group(L, first, d))
  <2> DEFINE f == [n \in DOMAIN current[d] |-> current[d][n].open]
  <2> DEFINE N == {n \in DOMAIN current[d] : current[d][n].item = i}
  <2> DEFINE g == [n \in N |-> <<d, n>>]
  <2> DEFINE K == Group(L, first, d)
  <2>1. h[d] = Total(f, N)
    BY DEF OpenOf
  <2>2. \A n \in N : n \in Shown(docs, d) /\ docs[d].lines[n].item = i /\ f[n] = q[<<d, n>>] /\ <<d, n>> \in Lines(docs)
    BY <1>4
  <2>3. \A n \in N : <<d, n>> \in L
    BY <2>2 DEF Line
  <2>4. \A n \in N : g[n] = <<d, n>> /\ g[n] \in K /\ q[g[n]] = f[n] /\ f[n] \in Int
    BY <2>2, <2>3 DEF Group
  <2>5. \A k \in K : \E n \in N : g[n] = k
    <3> TAKE k \in K
    <3>1. k \in L /\ k[1] = d /\ k \in Lines(docs)
      BY DEF Group
    <3>2. PICK e \in Open(docs) : \E n \in Shown(docs, e) : k = <<e, n>>
      BY <1>3, <3>1
    <3>3. PICK n \in Shown(docs, e) : k = <<e, n>>
      BY <3>2
    <3>4. e = d
      BY <3>1, <3>3
    <3>5. n \in DOMAIN current[d] /\ current[d][n].item = docs[d].lines[n].item
      BY <3>3, <3>4
    <3>6. Line(docs, k) = docs[d].lines[n]
      BY <3>3, <3>4 DEF Line
    <3>7. n \in N
      BY <3>1, <3>5, <3>6
    <3> QED
      BY <3>3, <3>4, <3>7
  <2>6. \A j, n \in N : g[j] = g[n] => j = n
    OBVIOUS
  <2>7. IsFiniteSet(N)
    <3>1. N \in SUBSET DOMAIN docs[d].lines
      BY <2>2 DEF Shown
    <3>2. IsFiniteSet(DOMAIN docs[d].lines)
      BY DEF Listed, Numbered, Open
    <3> QED
      BY <3>1, <3>2, FS_Subset
  <2> HIDE DEF f, N, g, K
  <2>8. Total(q, K) = Total(f, N)
    BY <2>4, <2>5, <2>6, <2>7, TotalOfImage
  <2> QED
    BY <2>1, <2>8 DEF K
<1>6. Groups(L, first, D) = L
  BY DEF Groups
<1> HIDE DEF first
<1>7. Total(h, D) = Total(q, Groups(L, first, D))
  BY <1>1, <1>2, <1>5, TotalOfGroups
<1> QED
  BY <1>6, <1>7

\* What is open of a line is the same whether the difference or its parts are multiplied.
LEMMA OpenOfLine ==
    ASSUME NEW qty \in Nat, NEW received \in Nat, NEW factor \in Nat
    PROVE  qty * factor - received * factor = (qty - received) * factor
  OBVIOUS

\* The requests read one by one ask for what the closeout collected.
LEMMA SameRequests ==
    ASSUME LedgersHold, NEW i \in snap.items
    PROVE  Total([d \in Open(snap.mr) |-> OpenOf(CurrentMaterialRequest(d), i)], Open(snap.mr))
             = RowsOf(OpenMaterialRequests, i)
<1> DEFINE D == Open(snap.mr)
<1> DEFINE M == OpenMaterialRequests
<1> DEFINE L == {l \in Lines(snap.mr) : Line(snap.mr, l).item = i}
<1> DEFINE T == {l \in DemandLines : Line(snap.mr, l).item = i}
<1> DEFINE K == {k \in DOMAIN M : M[k].item = i}
<1> DEFINE q == [l \in Lines(snap.mr) |-> IF Wanted(Line(snap.mr, l)) < 0 THEN 0 ELSE Wanted(Line(snap.mr, l))]
<1> DEFINE current == [d \in D |-> CurrentMaterialRequest(d)]
<1> DEFINE h == [d \in D |-> OpenOf(CurrentMaterialRequest(d), i)]
<1>1. Listed(snap.mr)
  BY LedgerLists DEF LedgersHold
<1>2. IsFiniteSet(L) /\ L \in SUBSET Lines(snap.mr)
  BY <1>1, LinesAreListed, FS_Subset
<1>3. \A l \in Lines(snap.mr) : Wanted(Line(snap.mr, l)) \in Int
  BY LinesAreTyped DEF Wanted
<1>4. \A l \in L : q[l] \in Int
  BY <1>2, <1>3
<1>5. Total(h, D) = Total(q, L)
  <2>1. D \in SUBSET Open(snap.mr)
    OBVIOUS
  <2>2. \A l \in Lines(snap.mr) : l \in L <=> l[1] \in D /\ Line(snap.mr, l).item = i
    BY DEF Lines
  <2>3. \A d \in D : DOMAIN current[d] = Shown(snap.mr, d)
    BY DEF CurrentMaterialRequest
  <2>4. \A d \in D : \A n \in Shown(snap.mr, d) : <<d, n>> \in Lines(snap.mr) /\ Line(snap.mr, <<d, n>>) = snap.mr[d].lines[n]
    BY DEF Lines, Shown, Line
  <2>5. \A d \in D : \A n \in Shown(snap.mr, d) :
          /\ current[d][n].item = snap.mr[d].lines[n].item
          /\ snap.mr[d].lines[n].item = i => current[d][n].open = q[<<d, n>>]
    BY <2>4 DEF CurrentMaterialRequest
  <2>6. \A d \in D : h[d] = OpenOf(current[d], i)
    OBVIOUS
  <2> HIDE DEF D, L, q, current, h
  <2>7. ReadOneByOne(snap.mr, i, D, L, q, current, h)
    BY <1>2, <1>4, <2>1, <2>2, <2>3, <2>5, <2>6 DEF ReadOneByOne
  <2> QED
    BY <1>1, <2>7, DocumentsAddUp
<1>6. Total(q, L) = Total(q, T)
  <2>1. T \in SUBSET L
    BY DEF DemandLines
  <2>2. \A l \in L \ T : q[l] = 0
    <3>1. \A l \in L \ T : ~(Wanted(Line(snap.mr, l)) > 0)
      BY DEF DemandLines, Enabled
    <3> QED
      BY <1>3, <3>1
  <2> HIDE DEF L, T, q
  <2> QED
    BY <1>2, <1>4, <2>1, <2>2, TotalOfCounted
<1>7. Total(q, T) = Total(Demanded, T)
  <2>1. T \in SUBSET DemandLines
    OBVIOUS
  <2>2. IsFiniteSet(T)
    BY <2>1, QuantitiesAreNumbers, FS_Subset
  <2>3. \A l \in DemandLines : l \in Lines(snap.mr) /\ Wanted(Line(snap.mr, l)) > 0
    BY DEF DemandLines
  <2>4. \A l \in T : q[l] = Demanded[l]
    BY <1>3, <2>3 DEF Demanded
  <2> HIDE DEF T, q
  <2> QED
    BY <2>2, <2>4, TotalOfSame
<1>8. Quantity(M, K) = Total(Demanded, T)
  <2>1. K \in SUBSET DOMAIN M /\ T \in SUBSET DemandLines
    OBVIOUS
  <2>2. \A l \in DemandLines, k \in DOMAIN M :
          (/\ M[k].item = Line(snap.mr, l).item /\ M[k].warehouse = Line(snap.mr, l).warehouse
           /\ M[k].due = snap.mr[l[1]].due) => (k \in K <=> l \in T)
    OBVIOUS
  <2> HIDE DEF K, T
  <2> QED
    BY <2>1, <2>2, DemandAddsUp
<1>9. RowsOf(M, i) = Quantity(M, K)
  BY DEF RowsOf
<1> QED
  BY <1>5, <1>6, <1>7, <1>8, <1>9

\* The orders read one by one, those of enabled suppliers, await what the closeout collected.
LEMMA SameOrders ==
    ASSUME LedgersHold, NEW i \in snap.items
    PROVE  Total([d \in Open(snap.po) |-> OpenOf(CurrentPurchaseOrder(d), i)],
                 {d \in Open(snap.po) : snap.po[d].supplier \in snap.suppliers})
             = RowsOf(OpenPurchaseOrders, i)
<1> DEFINE D == {d \in Open(snap.po) : snap.po[d].supplier \in snap.suppliers}
<1> DEFINE P == OpenPurchaseOrders
<1> DEFINE L == {l \in SupplyLines : Line(snap.po, l).item = i}
<1> DEFINE K == {k \in DOMAIN P : P[k].item = i}
<1> DEFINE current == [d \in D |-> CurrentPurchaseOrder(d)]
<1> DEFINE h == [d \in Open(snap.po) |-> OpenOf(CurrentPurchaseOrder(d), i)]
<1>1. Listed(snap.po)
  BY LedgerLists DEF LedgersHold
<1>2. L \in SUBSET SupplyLines /\ L \in SUBSET Lines(snap.po)
  BY DEF SupplyLines
<1>3. \A l \in L : Awaited[l] \in Int
  BY <1>2, QuantitiesAreNumbers
<1>4. \A l \in SupplyLines :
        LET line == Line(snap.po, l)
            rest == line.qty * line.factor - line.received * line.factor
        IN Awaited[l] = IF rest < 0 THEN 0 ELSE rest
  <2> TAKE l \in SupplyLines
  <2> DEFINE line == Line(snap.po, l)
  <2>1. line.qty \in Nat /\ line.received \in Nat /\ line.factor \in Nat
    BY LinesAreTyped DEF SupplyLines
  <2>2. Awaited[l] = Outstanding(line)
    BY DEF Awaited
  <2> HIDE DEF line
  <2>3. Awaited[l] = LET rest == (line.qty - line.received) * line.factor IN IF rest < 0 THEN 0 ELSE rest
    BY <2>2 DEF Outstanding
  <2>4. Awaited[l] = LET rest == line.qty * line.factor - line.received * line.factor
                     IN IF rest < 0 THEN 0 ELSE rest
    BY <2>1, <2>3, OpenOfLine
  <2> QED
    BY <2>4 DEF line
<1>5. Total(h, D) = Total(Awaited, L)
  <2>1. D \in SUBSET Open(snap.po)
    OBVIOUS
  <2>2. \A l \in Lines(snap.po) : l \in L <=> l[1] \in D /\ Line(snap.po, l).item = i
    <3>1. \A l \in Lines(snap.po) : l[1] \in Open(snap.po)
      BY DEF Lines
    <3> QED
      BY <3>1 DEF SupplyLines, Enabled
  <2>3. \A d \in D : DOMAIN current[d] = Shown(snap.po, d)
    BY DEF CurrentPurchaseOrder
  <2>4. \A d \in D : \A n \in Shown(snap.po, d) : <<d, n>> \in Lines(snap.po) /\ Line(snap.po, <<d, n>>) = snap.po[d].lines[n]
    BY DEF Lines, Shown, Line
  <2>5. \A d \in D : \A n \in Shown(snap.po, d) :
          LET line == snap.po[d].lines[n]
              rest == line.qty * line.factor - line.received * line.factor
          IN current[d][n].item = line.item /\ current[d][n].open = IF rest < 0 THEN 0 ELSE rest
    BY DEF CurrentPurchaseOrder
  <2>6. \A d \in D : \A n \in Shown(snap.po, d) : snap.po[d].lines[n].item = i => <<d, n>> \in L
    BY <2>2, <2>4
  <2>7. \A d \in D : \A n \in Shown(snap.po, d) :
          /\ current[d][n].item = snap.po[d].lines[n].item
          /\ snap.po[d].lines[n].item = i => current[d][n].open = Awaited[<<d, n>>]
    <3> HIDE DEF D, L, current
    <3> QED
      BY <1>2, <1>4, <2>4, <2>5, <2>6, Zenon
  <2>8. \A d \in D : h[d] = OpenOf(current[d], i)
    OBVIOUS
  <2> HIDE DEF D, L, current, h
  <2>9. ReadOneByOne(snap.po, i, D, L, Awaited, current, h)
    BY <1>2, <1>3, <2>1, <2>2, <2>3, <2>7, <2>8 DEF ReadOneByOne
  <2> QED
    BY <1>1, <2>9, DocumentsAddUp
<1>6. Quantity(P, K) = Total(Awaited, L)
  <2>1. K \in SUBSET DOMAIN P /\ L \in SUBSET SupplyLines
    OBVIOUS
  <2>2. \A l \in SupplyLines, k \in DOMAIN P :
          (/\ P[k].item = Line(snap.po, l).item /\ P[k].warehouse = Line(snap.po, l).warehouse
           /\ P[k].due = snap.po[l[1]].due) => (k \in K <=> l \in L)
    OBVIOUS
  <2> HIDE DEF K, L
  <2> QED
    BY <2>1, <2>2, SupplyAddsUp
<1>7. RowsOf(P, i) = Quantity(P, K)
  BY DEF RowsOf
<1> QED
  BY <1>5, <1>6, <1>7

\* Documents read one by one give the totals collected in pages.
LEMMA SameDocuments == AnalysisInductive => DocumentToolsAgree
<1> SUFFICES ASSUME AnalysisInductive, job.at = "proposed", NEW i \in snap.items
             PROVE  /\ Total([d \in Open(snap.mr) |-> OpenOf(CurrentMaterialRequest(d), i)], Open(snap.mr))
                          = RowsOf(job.mr, i)
                    /\ Total([d \in Open(snap.po) |-> OpenOf(CurrentPurchaseOrder(d), i)],
                             {d \in Open(snap.po) : snap.po[d].supplier \in snap.suppliers})
                          = RowsOf(job.po, i)
  BY DEF DocumentToolsAgree
<1>1. LedgersHold /\ job.mr = OpenMaterialRequests /\ job.po = OpenPurchaseOrders
  BY DEF AnalysisInductive, PagesAreWhole, Concluded
<1> QED
  BY <1>1, SameRequests, SameOrders

\* What an analysis concludes and what an agent reads say the same of the ERP at one moment:
\* whatever the ERP holds, whatever people change while the closeout reads, and wherever a page
\* ends, there is one row for each item with open demand; it is a SHORTAGE, by that much, exactly
\* when the demand within the window exceeds stock and expected receipts, and concludes nothing
\* from a negative stock or a document without a date; the plan names every shortage first; and
\* open_demand, current_material_request and current_purchase_order, when they refuse no document,
\* give the totals collected in pages.  (_collect_rows, analyze_item, build_plan, the handlers of the ERP tools)
THEOREM RowsAreAlwaysTrue == CloseoutSpec => []RowsAreTrue
<1>1. AnalysisInductive => RowsAreTrue
  BY ExactRows, SameDemand, SameDocuments DEF RowsAreTrue, AnalysisInductive
<1> QED
  BY <1>1, AnalysisInvariance, PTL

=============================================================================
