--------------------------- MODULE ServiceProofs ----------------------------
(***************************************************************************)
(* Proofs about what works in the background: the orchestrator of          *)
(* workflows and the persistence of an assessment's state.                 *)
(*                                                                         *)
(* InMemoryOrchestrator: for any number of executions, activities and      *)
(* attempts.  NoneLeftBehind is strengthened by how the parts of a record  *)
(* go together (a body that runs has no result yet unless it has timed     *)
(* out, and without a result it is running unless it was cancelled), and   *)
(* by where a known execution is found: in the table until the shutdown    *)
(* begins, among those awaited until it ends.                              *)
(*                                                                         *)
(* StatePersistence: for any number of updates.  NothingForgotten is       *)
(* inductive as it stands; ClearedStays needs the type invariant, by which *)
(* an update is newer than all that were cleared.                          *)
(***************************************************************************)
EXTENDS InMemoryOrchestrator, StatePersistence, TLAPS

-----------------------------------------------------------------------------
(* InMemoryOrchestrator                                                    *)

\* How the parts of a record go together.
Consistent(x) ==
    /\ x \in Record
    /\ x.status = "running" => x.result = "pending"
    /\ x.result = "pending" /\ ~x.cancelRequested => x.status = "running"
    /\ x.stage # "idle" /\ ~x.timedOut => x.result = "pending"
    /\ x.status = "none" => x.result = "none"

\* What may become of a record by itself, by its timeout or by a cancel.
Advances(x, y) ==
    /\ Consistent(y)
    /\ y.known = x.known
    /\ x.cancelRequested => y.cancelRequested
    /\ x.timedOut => y.timedOut
    /\ y.stage # "idle" => x.stage # "idle"
    /\ x.result \in {"fulfilled", "rejected"}
           => y.result = x.result /\ y.status \in {x.status, "cancelled"}

\* An execution that is known is one the shutdown will find: in the table until
\* it begins, then among those awaited unless it was cancelled or has timed out.
KnownAwaited ==
    \A e \in Runs : runs[e].known =>
        /\ shutdown = "no" => \E id \in Ids : table[id] = e
        /\ shutdown = "waiting" /\ Active(e)
               => e \in awaited \/ runs[e].cancelRequested \/ runs[e].timedOut

OrcInv ==
    /\ OrcTypeOK
    /\ \A e \in Runs : Consistent(runs[e])
    /\ KnownAwaited
    /\ NoneLeftBehind

LEMMA SettledAdvances ==
    ASSUME NEW x, NEW y, Consistent(x), Consistent(y), y.stage = "idle",
           y \in {x, [x EXCEPT !.stage = "idle"]},
           NEW result \in {"fulfilled", "rejected"}
    PROVE  Advances(x, Settled(y, result))
<1>1. x \in Record /\ y \in Record
  BY DEF Consistent
<1>2. CASE y.result # "pending"
  BY <1>1, <1>2 DEF Advances, Settled, Consistent, Record
<1>3. CASE y.result = "pending"
  BY <1>1, <1>3 DEF Advances, Settled, Consistent, Record
<1>4. QED
  BY <1>2, <1>3

LEMMA ContinuedAdvances ==
    ASSUME NEW x, Consistent(x), x.stage = "attempt", OrchestratorAssumption
    PROVE  Advances(x, Continued(x))
<1>1. x \in Record /\ Length \in Nat /\ MaxAttempts \in Nat \ {0}
  BY DEF Consistent, OrchestratorAssumption
<1>2. CASE x.step < Length
  <2>1. Continued(x) = [x EXCEPT !.step = @ + 1, !.attempt = 1, !.stage = "attempt"]
    BY <1>2 DEF Continued
  <2>2. x.step + 1 \in 1 .. Length /\ 1 \in 1 .. MaxAttempts
    BY <1>1, <1>2 DEF Record
  <2>3. Continued(x) \in Record
    BY <1>1, <2>1, <2>2 DEF Record
  <2>4. /\ Continued(x).status = x.status /\ Continued(x).result = x.result
        /\ Continued(x).known = x.known /\ Continued(x).timedOut = x.timedOut
        /\ Continued(x).cancelRequested = x.cancelRequested
        /\ Continued(x).stage = "attempt"
    BY <1>1, <2>1 DEF Record
  <2>5. QED
    BY <2>3, <2>4 DEF Advances, Consistent
<1>3. CASE ~(x.step < Length)
  <2> DEFINE y == [x EXCEPT !.stage = "idle"]
  <2>1. Consistent(y) /\ y.stage = "idle"
    BY <1>1 DEF Consistent, Record
  <2>2. Continued(x) = Settled(y, "fulfilled")
    BY <1>3 DEF Continued
  <2>3. QED
    BY <2>1, <2>2, SettledAdvances
<1>4. QED
  BY <1>2, <1>3

\* A step of an execution by itself.
LEMMA ProceedsAdvances ==
    ASSUME OrcInv, OrchestratorAssumption, NEW e \in Runs, Proceeds(e)
    PROVE  /\ \E y : runs' = [runs EXCEPT ![e] = y] /\ Advances(runs[e], y)
           /\ UNCHANGED <<table, shutdown, awaited>>
<1> DEFINE x == runs[e]
<1>1. Consistent(x) /\ x \in Record
  BY DEF OrcInv, Consistent
<1>2. CASE ActivitySucceeds(e)
  BY <1>1, <1>2, ContinuedAdvances DEF ActivitySucceeds, Become
<1>3. ASSUME NEW retry \in BOOLEAN, NEW caught \in BOOLEAN, AttemptFails(e, retry, caught)
      PROVE  /\ \E y : runs' = [runs EXCEPT ![e] = y] /\ Advances(x, y)
             /\ UNCHANGED <<table, shutdown, awaited>>
  <2> DEFINE b == [x EXCEPT !.stage = "backoff"]
             i == [x EXCEPT !.stage = "idle"]
  <2>1. x.stage = "attempt" /\ UNCHANGED <<table, shutdown, awaited>>
    BY <1>3 DEF AttemptFails
  <2>2. Advances(x, b)
    BY <1>1, <2>1 DEF Advances, Consistent, Record
  <2>3. Advances(x, Continued(x))
    BY <1>1, <2>1, ContinuedAdvances
  <2>4. Consistent(i) /\ i.stage = "idle"
    BY <1>1 DEF Consistent, Record
  <2>5. Advances(x, Settled(i, "rejected"))
    BY <1>1, <2>4, SettledAdvances
  <2>6. \/ runs' = [runs EXCEPT ![e] = b]
        \/ runs' = [runs EXCEPT ![e] = Continued(x)]
        \/ runs' = [runs EXCEPT ![e] = Settled(i, "rejected")]
    BY <1>3 DEF AttemptFails, Become
  <2>7. QED
    BY <2>1, <2>2, <2>3, <2>5, <2>6
<1>4. CASE BackoffEnds(e)
  <2> DEFINE y == [x EXCEPT !.stage = "attempt",
                            !.attempt = IF @ < MaxAttempts THEN @ + 1 ELSE @]
  <2>1. x.stage = "backoff" /\ runs' = [runs EXCEPT ![e] = y]
        /\ UNCHANGED <<table, shutdown, awaited>>
    BY <1>4 DEF BackoffEnds, Become
  <2>2. y \in Record
    <3>1. (IF x.attempt < MaxAttempts THEN x.attempt + 1 ELSE x.attempt) \in 1 .. MaxAttempts
      BY <1>1 DEF Record, OrchestratorAssumption
    <3>2. QED
      BY <1>1, <3>1 DEF Record
  <2>3. /\ y.status = x.status /\ y.result = x.result /\ y.known = x.known
        /\ y.timedOut = x.timedOut /\ y.cancelRequested = x.cancelRequested
        /\ y.stage = "attempt"
    BY <1>1 DEF Record
  <2> HIDE DEF y
  <2>4. Advances(x, y)
    BY <1>1, <2>1, <2>2, <2>3 DEF Advances, Consistent
  <2>5. QED
    BY <2>1, <2>4
<1>5. QED
  BY <1>2, <1>3, <1>4 DEF Proceeds

LEMMA TimesOutAdvances ==
    ASSUME OrcInv, NEW e \in Runs, WorkflowTimesOut(e)
    PROVE  /\ \E y : runs' = [runs EXCEPT ![e] = y] /\ Advances(runs[e], y)
           /\ UNCHANGED <<table, shutdown, awaited>>
<1> DEFINE x == runs[e]
           y == [x EXCEPT !.result = "rejected", !.status = "failed", !.timedOut = TRUE]
<1>1. Consistent(x) /\ x \in Record /\ x.result = "pending"
  BY DEF OrcInv, Consistent, WorkflowTimesOut
<1>2. runs' = [runs EXCEPT ![e] = y] /\ UNCHANGED <<table, shutdown, awaited>>
  BY <1>1 DEF WorkflowTimesOut, Become, Settled, Record
<1>3. Advances(x, y)
  BY <1>1 DEF Advances, Consistent, Record
<1>4. QED
  BY <1>2, <1>3

LEMMA CancelAdvances ==
    ASSUME OrcInv, NEW id \in Ids, Cancel(id)
    PROVE  /\ table[id] \in Runs
           /\ \E y : runs' = [runs EXCEPT ![table[id]] = y] /\ Advances(runs[table[id]], y)
           /\ UNCHANGED <<table, shutdown, awaited>>
<1> DEFINE e == table[id]
           x == runs[e]
           y == [x EXCEPT !.cancelRequested = TRUE, !.status = "cancelled"]
<1>1. e \in 0 .. MaxRuns /\ e # 0
  BY DEF OrcInv, OrcTypeOK, Cancel
<1>2. e \in Runs
  BY <1>1 DEF Runs
<1>3. Consistent(x) /\ x \in Record
  BY <1>2 DEF OrcInv, Consistent
<1>4. runs \in [Runs -> Record]
  BY DEF OrcInv, OrcTypeOK
<1>5. runs' = [runs EXCEPT ![e] = y] /\ UNCHANGED <<table, shutdown, awaited>>
  BY <1>2, <1>3, <1>4 DEF Cancel, Record
<1>6. Advances(x, y)
  BY <1>3 DEF Advances, Consistent, Record
<1>7. QED
  BY <1>2, <1>5, <1>6

\* A record that advances leaves the invariant as it is, and its result stands.
LEMMA AdvancesKeeps ==
    ASSUME OrcInv, NEW e \in Runs, NEW y, Advances(runs[e], y),
           runs' = [runs EXCEPT ![e] = y],
           UNCHANGED <<table, shutdown, awaited>>
    PROVE  /\ OrcInv'
           /\ \A f \in Runs : runs[f].result \in {"fulfilled", "rejected"}
                 => /\ runs'[f].result = runs[f].result
                    /\ runs'[f].status \in {runs[f].status, "cancelled"}
<1>1. runs \in [Runs -> Record]
  BY DEF OrcInv, OrcTypeOK
<1>2. y \in Record
  BY DEF Advances, Consistent
<1>3. /\ runs' \in [Runs -> Record]
      /\ runs'[e] = y
      /\ \A f \in Runs \ {e} : runs'[f] = runs[f]
  BY <1>1, <1>2
<1>4. \A f \in Runs : Consistent(runs'[f])
  BY <1>3 DEF Advances, OrcInv
<1>5. OrcTypeOK'
  BY <1>3, <1>4 DEF OrcInv, OrcTypeOK, Consistent
<1>6. \A f \in Runs :
          /\ runs'[f].known = runs[f].known
          /\ runs[f].cancelRequested => runs'[f].cancelRequested
          /\ runs[f].timedOut => runs'[f].timedOut
          /\ runs'[f].stage # "idle" => runs[f].stage # "idle"
  BY <1>3 DEF Advances
<1>7. KnownAwaited' /\ NoneLeftBehind'
  BY <1>6 DEF OrcInv, KnownAwaited, NoneLeftBehind, Active
<1>8. OrcInv'
  BY <1>4, <1>5, <1>7 DEF OrcInv
<1>9. QED
  BY <1>3, <1>8 DEF Advances

\* A start takes the place of the execution with the same id, which nobody
\* finds any more; the new one is found if it comes before the shutdown.
LEMMA StartWorkflowKeeps ==
    ASSUME OrcInv, OrchestratorAssumption, NEW id \in Ids, NEW e \in Runs, StartWorkflow(id, e)
    PROVE  /\ OrcInv'
           /\ \A f \in Runs : runs[f].result \in {"fulfilled", "rejected"}
                 => /\ runs'[f].result = runs[f].result
                    /\ runs'[f].status \in {runs[f].status, "cancelled"}
<1> DEFINE new == [NotStarted EXCEPT !.status = "running", !.result = "pending",
                                     !.stage = "attempt", !.known = (shutdown = "no")]
<1>1. /\ runs \in [Runs -> Record] /\ table \in [Ids -> 0 .. MaxRuns]
      /\ runs[e].status = "none" /\ runs[e].result = "none"
  <2>1. e \in Nat /\ ~(e < e)
    BY DEF Runs, OrchestratorAssumption
  <2>2. runs[e].status = "none"
    BY <2>1 DEF StartWorkflow, Started
  <2>3. QED
    BY <2>2 DEF OrcInv, OrcTypeOK, Consistent
<1>2. /\ Consistent(new) /\ (new.known <=> shutdown = "no")
      /\ ~new.cancelRequested /\ ~new.timedOut /\ new.stage = "attempt"
  <2>1. 1 \in 1 .. Length /\ 1 \in 1 .. MaxAttempts
    BY DEF OrchestratorAssumption
  <2>2. CASE shutdown = "no"
    <3>1. (shutdown = "no") = TRUE
      BY <2>2
    <3> DEFINE y == [NotStarted EXCEPT !.status = "running", !.result = "pending",
                                       !.stage = "attempt", !.known = TRUE]
    <3>2. Consistent(y) /\ y.known /\ ~y.cancelRequested /\ ~y.timedOut /\ y.stage = "attempt"
      BY <2>1 DEF NotStarted, Consistent, Record
    <3>3. new = y
      BY <3>1, Zenon
    <3>4. QED
      BY <2>2, <3>2, <3>3
  <2>3. CASE shutdown # "no"
    <3>1. (shutdown = "no") = FALSE
      BY <2>3
    <3> DEFINE y == [NotStarted EXCEPT !.status = "running", !.result = "pending",
                                       !.stage = "attempt", !.known = FALSE]
    <3>2. Consistent(y) /\ ~y.known /\ ~y.cancelRequested /\ ~y.timedOut /\ y.stage = "attempt"
      BY <2>1 DEF NotStarted, Consistent, Record
    <3>3. new = y
      BY <3>1, Zenon
    <3>4. QED
      BY <2>3, <3>2, <3>3
  <2>4. QED
    BY <2>2, <2>3
<1>3. /\ runs'[e] = new
      /\ \A f \in Runs \ {e} : runs'[f] \in {runs[f], [runs[f] EXCEPT !.known = FALSE]}
      /\ \A f \in Runs \ {e} : f = table[id] => runs'[f] = [runs[f] EXCEPT !.known = FALSE]
      /\ DOMAIN runs' = Runs
      /\ runs' = [f \in Runs |-> runs'[f]]
      /\ table' = [table EXCEPT ![id] = e]
      /\ UNCHANGED <<shutdown, awaited>>
  BY DEF StartWorkflow
<1> HIDE DEF new
<1>4. \A f \in Runs \ {e} :
          /\ Consistent(runs'[f])
          /\ runs'[f].known => runs[f].known /\ f # table[id]
          /\ runs'[f].cancelRequested = runs[f].cancelRequested
          /\ runs'[f].timedOut = runs[f].timedOut
          /\ runs'[f].stage = runs[f].stage
          /\ runs'[f].result = runs[f].result
          /\ runs'[f].status = runs[f].status
  <2> SUFFICES ASSUME NEW f \in Runs \ {e}
               PROVE  /\ Consistent(runs'[f])
                      /\ runs'[f].known => runs[f].known /\ f # table[id]
                      /\ runs'[f].cancelRequested = runs[f].cancelRequested
                      /\ runs'[f].timedOut = runs[f].timedOut
                      /\ runs'[f].stage = runs[f].stage
                      /\ runs'[f].result = runs[f].result
                      /\ runs'[f].status = runs[f].status
    OBVIOUS
  <2>1. Consistent(runs[f]) /\ runs[f] \in Record
    BY DEF OrcInv, Consistent
  <2>2. CASE runs'[f] = [runs[f] EXCEPT !.known = FALSE]
    BY <2>1, <2>2 DEF Consistent, Record
  <2>3. CASE runs'[f] = runs[f] /\ f # table[id]
    BY <2>1, <2>3
  <2>4. QED
    BY <1>3, <2>2, <2>3
<1>5. \A f \in Runs : Consistent(runs'[f])
  BY <1>2, <1>3, <1>4
<1>6. runs' \in [Runs -> Record]
  BY <1>3, <1>5 DEF Consistent
<1>7. OrcTypeOK'
  <2>1. table' \in [Ids -> 0 .. MaxRuns]
    BY <1>1, <1>3 DEF Runs, OrchestratorAssumption
  <2>2. QED
    BY <1>3, <1>5, <1>6, <2>1 DEF OrcInv, OrcTypeOK, Consistent
<1>8. KnownAwaited'
  <2> SUFFICES ASSUME NEW f \in Runs, runs'[f].known
               PROVE  /\ shutdown = "no" => \E i \in Ids : table'[i] = f
                      /\ shutdown = "waiting" /\ runs'[f].stage # "idle"
                             => f \in awaited \/ runs'[f].cancelRequested \/ runs'[f].timedOut
    BY <1>3 DEF KnownAwaited, Active
  <2>1. CASE f = e
    BY <1>1, <1>2, <1>3, <2>1
  <2>2. CASE f # e
    <3>1. runs[f].known /\ f # table[id]
      BY <1>4, <2>2
    <3>2. ASSUME NEW i \in Ids, table[i] = f PROVE table'[i] = f
      BY <1>1, <1>3, <3>1, <3>2
    <3>3. QED
      BY <1>4, <2>2, <3>1, <3>2 DEF OrcInv, KnownAwaited, Active
  <2>3. QED
    BY <2>1, <2>2
<1>9. NoneLeftBehind'
  BY <1>2, <1>3, <1>4 DEF OrcInv, NoneLeftBehind, Active
<1>10. QED
  BY <1>1, <1>3, <1>4, <1>5, <1>7, <1>8, <1>9 DEF OrcInv

\* The shutdown waits for whatever is known and still runs.
LEMMA ShutdownKeeps ==
    ASSUME OrcInv, Shutdown
    PROVE  OrcInv'
<1>1. /\ shutdown = "no" /\ shutdown' = "waiting"
      /\ awaited' = {e \in {table[id] : id \in Ids} \ {0} : runs[e].status = "running"}
      /\ UNCHANGED <<runs, table>>
  BY DEF Shutdown
<1>2. awaited' \subseteq Runs
  BY <1>1 DEF OrcInv, OrcTypeOK, Runs
<1>3. OrcTypeOK'
  BY <1>1, <1>2 DEF OrcInv, OrcTypeOK
<1>4. KnownAwaited'
  <2> SUFFICES ASSUME NEW e \in Runs, runs[e].known, runs[e].stage # "idle",
                      ~runs[e].cancelRequested, ~runs[e].timedOut
               PROVE  e \in awaited'
    BY <1>1 DEF KnownAwaited, Active
  <2>1. runs[e].status = "running"
    BY DEF OrcInv, Consistent
  <2>2. e \in {table[id] : id \in Ids}
    BY <1>1 DEF OrcInv, KnownAwaited
  <2>3. e # 0
    BY DEF Runs
  <2>4. QED
    BY <1>1, <2>1, <2>2, <2>3
<1>5. QED
  BY <1>1, <1>3, <1>4 DEF OrcInv, NoneLeftBehind, Active

LEMMA ShutdownEndsKeeps ==
    ASSUME OrcInv, OrchestratorAssumption, ShutdownEnds
    PROVE  OrcInv'
<1>1. /\ shutdown = "waiting" /\ shutdown' = "done"
      /\ \A e \in awaited : runs[e].result # "pending"
      /\ table' = [id \in Ids |-> 0]
      /\ UNCHANGED <<runs, awaited>>
  BY DEF ShutdownEnds
<1>2. table' \in [Ids -> 0 .. MaxRuns]
  BY <1>1 DEF OrchestratorAssumption
<1>3. NoneLeftBehind'
  <2> SUFFICES ASSUME NEW e \in Runs, runs[e].stage # "idle", runs[e].known,
                      ~runs[e].timedOut
               PROVE  runs[e].cancelRequested
    BY <1>1 DEF NoneLeftBehind, Active
  <2>1. runs[e].result = "pending"
    BY DEF OrcInv, Consistent
  <2>2. QED
    BY <1>1, <2>1 DEF OrcInv, KnownAwaited, Active
<1>4. QED
  BY <1>1, <1>2, <1>3 DEF OrcInv, OrcTypeOK, KnownAwaited

\* What the steps of the orchestrator keep, and that results stand in each.
LEMMA OrcStep ==
    ASSUME OrcInv, OrchestratorAssumption, [OrcNext]_orcVars
    PROVE  /\ OrcInv'
           /\ \A e \in Runs : runs[e].result \in {"fulfilled", "rejected"}
                 => /\ runs'[e].result = runs[e].result
                    /\ runs'[e].status \in {runs[e].status, "cancelled"}
<1> DEFINE Stand == \A e \in Runs : runs[e].result \in {"fulfilled", "rejected"}
                       => /\ runs'[e].result = runs[e].result
                          /\ runs'[e].status \in {runs[e].status, "cancelled"}
<1>1. ASSUME NEW id \in Ids, NEW e \in Runs, StartWorkflow(id, e) PROVE OrcInv' /\ Stand
  BY <1>1, StartWorkflowKeeps
<1>2. ASSUME NEW e \in Runs, Proceeds(e) PROVE OrcInv' /\ Stand
  BY <1>2, ProceedsAdvances, AdvancesKeeps
<1>3. ASSUME NEW e \in Runs, WorkflowTimesOut(e) PROVE OrcInv' /\ Stand
  BY <1>3, TimesOutAdvances, AdvancesKeeps
<1>4. ASSUME NEW id \in Ids, Cancel(id) PROVE OrcInv' /\ Stand
  BY <1>4, CancelAdvances, AdvancesKeeps
<1>5. CASE Shutdown
  BY <1>5, ShutdownKeeps DEF Shutdown
<1>6. CASE ShutdownEnds
  BY <1>6, ShutdownEndsKeeps DEF ShutdownEnds
<1>7. CASE UNCHANGED orcVars
  BY <1>7 DEF orcVars, OrcInv, OrcTypeOK, Consistent, KnownAwaited, NoneLeftBehind, Active
<1>8. QED
  BY <1>1, <1>2, <1>3, <1>4, <1>5, <1>6, <1>7 DEF OrcNext

\* The executions, the table and the shutdown go together.
THEOREM OrcInvariant == OrcSpec => []OrcInv
<1>1. OrcInit => OrcInv
  <2> SUFFICES ASSUME OrcInit PROVE OrcInv
    OBVIOUS
  <2>1. MaxRuns \in Nat /\ MaxAttempts \in Nat \ {0} /\ Length \in Nat \ {0}
    BY OrchestratorAssumption DEF OrchestratorAssumption
  <2>2. Consistent(NotStarted) /\ NotStarted \in Record /\ ~NotStarted.known
    BY <2>1 DEF Consistent, NotStarted, Record
  <2>3. QED
    BY <2>1, <2>2 DEF OrcInit, OrcInv, OrcTypeOK, KnownAwaited, NoneLeftBehind, Consistent
<1>2. OrcInv /\ [OrcNext]_orcVars => OrcInv'
  BY OrchestratorAssumption, OrcStep
<1>3. QED
  BY <1>1, <1>2, PTL DEF OrcSpec

\* Type correctness of the workflows.
THEOREM OrcTypeCorrect == OrcSpec => []OrcTypeOK
<1>1. OrcInv => OrcTypeOK
  BY DEF OrcInv
<1>2. QED
  BY <1>1, OrcInvariant, PTL

\* For any number of workflows, attempts and ids: a shutdown that has ended has
\* left no execution behind that it knew of and that was neither cancelled nor
\* has timed out.
THEOREM NoneLeftBehindCorrect == OrcSpec => []NoneLeftBehind
<1>1. OrcInv => NoneLeftBehind
  BY DEF OrcInv
<1>2. QED
  BY <1>1, OrcInvariant, PTL

\* A result and the status that came with it stand, whatever the body of the
\* workflow does after a timeout, and whoever starts, cancels or shuts down.
THEOREM ResultStandsCorrect == OrcSpec => ResultStands
<1>1. OrcInv /\ [OrcNext]_orcVars =>
          [\A e \in Runs :
              runs[e].result \in {"fulfilled", "rejected"}
                  => /\ runs'[e].result = runs[e].result
                     /\ runs'[e].status \in {runs[e].status, "cancelled"}]_orcVars
  BY OrchestratorAssumption, OrcStep
<1>2. QED
  BY <1>1, OrcInvariant, PTL DEF OrcSpec, ResultStands

-----------------------------------------------------------------------------
(* StatePersistence                                                        *)

USE PersistenceAssumption DEF PersistenceAssumption

\* What save() starts changes at most the save in flight and the two entries,
\* and an entry it changes is the current state.
LEMMA StartsEffect ==
    ASSUME SaveTypeOK, Starts
    PROVE  /\ stored' \in {stored, current}
           /\ memory' \in {memory, current}
           /\ saving' \in BOOLEAN
           /\ sent' \in 0 .. MaxUpdates
           /\ sent' # NoState <=> saving'
  BY DEF SaveTypeOK, Starts, Stores, NoState

\* A state for which save() is called is in flight or stored afterwards.
LEMMA StartsSaves ==
    ASSUME Starts, current # NoState
    PROVE  saving' \/ current \in {stored', memory'}
  BY DEF Starts, Stores, NoState

LEMMA StoresSaves ==
    ASSUME Stores
    PROVE  /\ stored' \in {stored, current}
           /\ memory' \in {memory, current}
           /\ current \in {stored', memory'}
  BY DEF Stores

\* Type correctness of the persistence of an assessment state.
THEOREM PersistenceTypeCorrect == SaveSpec => []SaveTypeOK
<1>1. SaveInit => SaveTypeOK
  <2> SUFFICES ASSUME SaveInit PROVE SaveTypeOK
    OBVIOUS
  <2>1. sent # NoState <=> saving
    BY DEF SaveInit
  <2>2. current = 0 /\ sent = 0 /\ updates = 0 /\ cleared = 0 /\ stored = -1 /\ memory = -1
    BY DEF SaveInit, NoState, Absent
  <2>3. backed \in BOOLEAN /\ timer = "none" /\ saving \in BOOLEAN /\ held \in BOOLEAN
    BY DEF SaveInit
  <2>4. QED
    BY <2>1, <2>2, <2>3 DEF SaveTypeOK, Entries, Absent
<1>2. SaveTypeOK /\ [SaveNext]_saveVars => SaveTypeOK'
  <2> SUFFICES ASSUME SaveTypeOK, [SaveNext]_saveVars
               PROVE  SaveTypeOK'
    OBVIOUS
  <2>1. CASE UpdateState
    <3>1. sent' # NoState <=> saving'
      BY <2>1 DEF UpdateState, SaveTypeOK
    <3>2. updates' \in 0 .. MaxUpdates /\ current' \in 0 .. MaxUpdates /\ cleared' \in 0 .. updates'
      BY <2>1 DEF UpdateState, SaveTypeOK
    <3>3. QED
      BY <2>1, <3>1, <3>2 DEF UpdateState, SaveTypeOK, Entries
  <2>2. CASE TimerFires
    BY <2>2, StartsEffect DEF TimerFires, SaveTypeOK, Entries, Absent
  <2>3. CASE Save
    BY <2>3, StartsEffect DEF Save, SaveTypeOK, Entries, Absent
  <2>4. CASE ForceSave
    BY <2>4, StartsEffect DEF ForceSave, SaveTypeOK, Entries, Absent
  <2>5. CASE SaveResumes
    <3>1. sent' # NoState <=> saving'
      BY <2>5 DEF SaveResumes
    <3>2. stored' \in Entries /\ memory' \in Entries
      BY <2>5, StoresSaves DEF SaveResumes, SaveTypeOK, Entries, Absent
    <3>3. sent' \in 0 .. MaxUpdates
      BY <2>5 DEF SaveResumes, NoState
    <3>4. saving' \in BOOLEAN
      BY <2>5 DEF SaveResumes
    <3>5. QED
      BY <2>5, <3>1, <3>2, <3>3, <3>4 DEF SaveResumes, SaveTypeOK, Entries
  <2>6. CASE LoadState
    BY <2>6 DEF LoadState, SaveTypeOK, Entries, NoState, Absent
  <2>7. CASE Clear
    BY <2>7 DEF Clear, SaveTypeOK, Entries, NoState, Absent
  <2>8. CASE PauseAutoSave
    BY <2>8 DEF PauseAutoSave, SaveTypeOK, Entries
  <2>9. CASE ResumeAutoSave
    BY <2>9 DEF ResumeAutoSave, SaveTypeOK, Entries
  <2>10. CASE DestroyManager
    BY <2>10 DEF DestroyManager, SaveTypeOK, Entries, NoState
  <2>11. CASE Restart
    <3>1. sent' # NoState <=> saving'
      BY <2>11 DEF Restart
    <3>2. /\ current' \in 0 .. MaxUpdates /\ sent' \in 0 .. MaxUpdates
          /\ memory' \in Entries
      BY <2>11 DEF Restart, Entries, NoState, Absent
    <3>3. saving' \in BOOLEAN /\ held' \in BOOLEAN
      BY <2>11 DEF Restart
    <3>4. QED
      BY <2>11, <3>1, <3>2, <3>3 DEF Restart, SaveTypeOK, Entries
  <2>12. CASE UNCHANGED saveVars
    BY <2>12 DEF saveVars, SaveTypeOK, Entries
  <2>13. QED
    BY <2>1, <2>2, <2>3, <2>4, <2>5, <2>6, <2>7, <2>8, <2>9, <2>10, <2>11, <2>12 DEF SaveNext
<1>3. QED
  BY <1>1, <1>2, PTL DEF SaveSpec

\* A state that is not saved is about to be saved, unless auto-save is paused:
\* whatever saves are dropped because another one waits for the backend, the
\* one that waits takes the current state along when it resumes.
THEOREM NothingForgottenCorrect == SaveSpec => []NothingForgotten
<1>1. SaveInit => NothingForgotten
  BY DEF SaveInit, NothingForgotten, Unsaved
<1>2. NothingForgotten /\ [SaveNext]_saveVars => NothingForgotten'
  <2> SUFFICES ASSUME NothingForgotten, [SaveNext]_saveVars, Unsaved'
               PROVE  timer' = "set" \/ saving' \/ held'
    BY DEF NothingForgotten
  <2>1. CASE UpdateState
    BY <2>1 DEF UpdateState
  <2>2. CASE TimerFires \/ Save \/ ForceSave
    <3>1. Starts /\ current' = current
      BY <2>2 DEF TimerFires, Save, ForceSave
    <3>2. current # NoState /\ current \notin {stored', memory'}
      BY <3>1 DEF Unsaved
    <3>3. QED
      BY <3>1, <3>2, StartsSaves
  <2>3. CASE SaveResumes
    BY <2>3, StoresSaves DEF SaveResumes, Unsaved
  <2>4. CASE LoadState
    BY <2>4 DEF LoadState, NothingForgotten, Unsaved
  <2>5. CASE Clear \/ DestroyManager \/ Restart
    BY <2>5 DEF Clear, DestroyManager, Restart, Unsaved
  <2>6. CASE PauseAutoSave \/ ResumeAutoSave
    BY <2>6 DEF PauseAutoSave, ResumeAutoSave
  <2>7. CASE UNCHANGED saveVars
    BY <2>7 DEF saveVars, NothingForgotten, Unsaved
  <2>8. QED
    BY <2>1, <2>2, <2>3, <2>4, <2>5, <2>6, <2>7 DEF SaveNext
<1>3. QED
  BY <1>1, <1>2, PTL DEF SaveSpec

\* Nothing that was cleared comes back: neither a save in flight nor a timer
\* that still fires nor a later load holds a state from before the clear, since
\* each of them goes by what is current when it runs.
THEOREM ClearedStaysCorrect == SaveSpec => []ClearedStays
<1>1. SaveInit => ClearedStays
  BY DEF SaveInit, ClearedStays, NoState, Absent
<1>2. SaveTypeOK /\ ClearedStays /\ [SaveNext]_saveVars => ClearedStays'
  <2> SUFFICES ASSUME SaveTypeOK, ClearedStays, [SaveNext]_saveVars
               PROVE  ClearedStays'
    OBVIOUS
  <2>1. CASE UpdateState
    BY <2>1 DEF UpdateState, SaveTypeOK, ClearedStays
  <2>2. CASE TimerFires \/ Save \/ ForceSave
    <3>1. Starts /\ UNCHANGED <<current, cleared>>
      BY <2>2 DEF TimerFires, Save, ForceSave
    <3>2. stored' \in {stored, current} /\ memory' \in {memory, current}
      BY <3>1, StartsEffect
    <3>3. QED
      BY <3>1, <3>2 DEF ClearedStays
  <2>3. CASE SaveResumes
    BY <2>3, StoresSaves DEF SaveResumes, ClearedStays
  <2>4. CASE LoadState
    BY <2>4 DEF LoadState, ClearedStays
  <2>5. CASE Clear \/ DestroyManager \/ Restart
    BY <2>5 DEF Clear, DestroyManager, Restart, SaveTypeOK, ClearedStays, NoState, Absent
  <2>6. CASE PauseAutoSave \/ ResumeAutoSave
    BY <2>6 DEF PauseAutoSave, ResumeAutoSave, ClearedStays
  <2>7. CASE UNCHANGED saveVars
    BY <2>7 DEF saveVars, ClearedStays
  <2>8. QED
    BY <2>1, <2>2, <2>3, <2>4, <2>5, <2>6, <2>7 DEF SaveNext
<1>3. QED
  BY <1>1, <1>2, PersistenceTypeCorrect, PTL DEF SaveSpec
=============================================================================
