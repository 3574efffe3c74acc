------------------------ MODULE InMemoryOrchestrator ------------------------
(***************************************************************************)
(* Workflows of the transform engine, run in one process: executions with  *)
(* their records, activities with retries, timeouts, cancellation and      *)
(* shutdown.  What a workflow does is code of its own: here a sequence of  *)
(* activities that ends, or catches the error of one and goes on.          *)
(*                                                                         *)
(* An attempt that times out counts as failed; that it goes on unseen is   *)
(* not followed.  The handlers of a settled promise run with it.           *)
(***************************************************************************)
EXTENDS Naturals

CONSTANTS
    Ids,          \* workflow ids
    Length,       \* activities of a workflow
    MaxAttempts,  \* retryPolicy.maxAttempts
    MaxRuns       \* bound: executions started

ASSUME OrchestratorAssumption ==
    /\ Length \in Nat \ {0} /\ MaxAttempts \in Nat \ {0} /\ MaxRuns \in Nat

VARIABLES
    runs,      \* executions, by number; a record outlives its place in the table
    table,     \* executions: the number of the last one with each id, or 0
    shutdown,  \* "no", "waiting", or "done"
    awaited    \* the executions that shutdown waits for

orcVars == <<runs, table, shutdown, awaited>>

Runs == 1 .. MaxRuns

\* No execution yet.  known: begun before shutdown(), and its id not taken over.
NotStarted ==
    [status |-> "none", cancelRequested |-> FALSE, result |-> "none", timedOut |-> FALSE,
     known |-> FALSE, step |-> 1, attempt |-> 1, stage |-> "idle"]

Started(e) == runs[e].status # "none"

\* The body of the workflow is not at its end.
Active(e) == runs[e].stage # "idle"

\* Variant: a result that comes after the timeout replaces the error.
SettledAgain(x, result) ==
    [x EXCEPT !.result = result, !.status = IF result = "fulfilled" THEN "completed" ELSE "failed"]

\* The promise of the result is settled once; its handlers set the status,
\* whatever it is by now.
Settled(x, result) ==
    IF x.result # "pending" THEN x
    ELSE [x EXCEPT !.result = result,
                   !.status = IF result = "fulfilled" THEN "completed" ELSE "failed"]

\* The body goes on after an activity.
Continued(x) ==
    IF x.step < Length
    THEN [x EXCEPT !.step = @ + 1, !.attempt = 1, !.stage = "attempt"]
    ELSE Settled([x EXCEPT !.stage = "idle"], "fulfilled")

Become(e, x) == runs' = [runs EXCEPT ![e] = x]

OrcInit ==
    /\ runs = [e \in Runs |-> NotStarted]
    /\ table = [id \in Ids |-> 0]
    /\ shutdown = "no"
    /\ awaited = {}

\* startWorkflow(); an id in use is taken over, and no state refuses a start.
StartWorkflow(id, e) ==
    /\ \A f \in Runs : Started(f) <=> f < e
    /\ runs' = [f \in Runs |->
         IF f = e THEN [NotStarted EXCEPT !.status = "running", !.result = "pending",
                                          !.stage = "attempt", !.known = (shutdown = "no")]
         ELSE IF f = table[id] THEN [runs[f] EXCEPT !.known = FALSE]
         ELSE runs[f]]
    /\ table' = [table EXCEPT ![id] = e]
    /\ UNCHANGED <<shutdown, awaited>>

ActivitySucceeds(e) ==
    /\ runs[e].stage = "attempt"
    /\ Become(e, Continued(runs[e]))
    /\ UNCHANGED <<table, shutdown, awaited>>

\* Variant: the last attempt is followed by another wait.
AttemptFailsLast(e, retry, caught) ==
    /\ runs[e].stage = "attempt"
    /\ caught \in BOOLEAN
    /\ Become(e, IF retry THEN [runs[e] EXCEPT !.stage = "backoff"]
                 ELSE Settled([runs[e] EXCEPT !.stage = "idle"], "rejected"))
    /\ UNCHANGED <<table, shutdown, awaited>>

\* An attempt fails or times out: another one after a wait, unless the error is
\* not retryable or the attempts are used up; then the body gets the error.
AttemptFails(e, retry, caught) ==
    /\ runs[e].stage = "attempt"
    /\ retry => ~caught
    /\ Become(e, IF retry /\ runs[e].attempt < MaxAttempts
                 THEN [runs[e] EXCEPT !.stage = "backoff"]
                 ELSE IF caught THEN Continued(runs[e])
                 ELSE Settled([runs[e] EXCEPT !.stage = "idle"], "rejected"))
    /\ UNCHANGED <<table, shutdown, awaited>>

BackoffEnds(e) ==
    /\ runs[e].stage = "backoff"
    /\ Become(e, [runs[e] EXCEPT !.stage = "attempt",
                                 !.attempt = IF @ < MaxAttempts THEN @ + 1 ELSE @])
    /\ UNCHANGED <<table, shutdown, awaited>>

\* The race of the result is lost to the timeout; the body goes on.
WorkflowTimesOut(e) ==
    /\ runs[e].result = "pending"
    /\ Become(e, [Settled(runs[e], "rejected") EXCEPT !.timedOut = TRUE])
    /\ UNCHANGED <<table, shutdown, awaited>>

\* cancel() and terminate() of a handle: whatever the status.
Cancel(id) ==
    /\ table[id] # 0
    /\ runs' = [runs EXCEPT ![table[id]].cancelRequested = TRUE,
                            ![table[id]].status = "cancelled"]
    /\ UNCHANGED <<table, shutdown, awaited>>

\* shutdown() up to its await.
Shutdown ==
    /\ shutdown = "no"
    /\ shutdown' = "waiting"
    /\ awaited' = {e \in {table[id] : id \in Ids} \ {0} : runs[e].status = "running"}
    /\ UNCHANGED <<runs, table>>

\* Variant: shutdown goes on with the first execution that ends.
ShutdownEndsFirst ==
    /\ shutdown = "waiting"
    /\ awaited = {} \/ \E e \in awaited : runs[e].result # "pending"
    /\ shutdown' = "done"
    /\ table' = [id \in Ids |-> 0]
    /\ UNCHANGED <<runs, awaited>>

ShutdownEnds ==
    /\ shutdown = "waiting"
    /\ \A e \in awaited : runs[e].result # "pending"
    /\ shutdown' = "done"
    /\ table' = [id \in Ids |-> 0]
    /\ UNCHANGED <<runs, awaited>>

\* A step that an execution takes by itself.
Proceeds(e) ==
    \/ ActivitySucceeds(e)
    \/ \E retry \in BOOLEAN, caught \in BOOLEAN : AttemptFails(e, retry, caught)
    \/ BackoffEnds(e)

OrcNext ==
    \/ \E id \in Ids, e \in Runs : StartWorkflow(id, e)
    \/ \E e \in Runs : Proceeds(e)
    \/ \E e \in Runs : WorkflowTimesOut(e)
    \/ \E id \in Ids : Cancel(id)
    \/ Shutdown
    \/ ShutdownEnds

OrcSpec == OrcInit /\ [][OrcNext]_orcVars

\* Activities end or time out, timers fire, settled promises resume.
OrcFairness ==
    /\ \A e \in Runs : WF_orcVars(Proceeds(e))
    /\ WF_orcVars(ShutdownEnds)

-----------------------------------------------------------------------------
(* Properties.                                                             *)

Record ==
    [status : {"none", "running", "completed", "failed", "cancelled"},
     cancelRequested : BOOLEAN,
     result : {"none", "pending", "fulfilled", "rejected"},
     timedOut : BOOLEAN, known : BOOLEAN,
     step : 1 .. Length, attempt : 1 .. MaxAttempts,
     stage : {"idle", "attempt", "backoff"}]

OrcTypeOK ==
    /\ runs \in [Runs -> Record]
    /\ table \in [Ids -> 0 .. MaxRuns]
    /\ shutdown \in {"no", "waiting", "done"}
    /\ awaited \subseteq Runs
    /\ \A e \in Runs : runs[e].status = "running" => runs[e].result = "pending"

\* A result stands: when a workflow that has timed out, or is awaited by nobody
\* any more, comes to its end after all, neither its result nor its status is
\* that of the late end.
ResultStands ==
    [][\A e \in Runs :
          runs[e].result \in {"fulfilled", "rejected"}
              => /\ runs'[e].result = runs[e].result
                 /\ runs'[e].status \in {runs[e].status, "cancelled"}]_orcVars

\* A shutdown that has ended leaves no workflow behind that still runs, except
\* one that was cancelled or has timed out; one started after the shutdown began,
\* or whose id was taken over, is not known to it.
NoneLeftBehind ==
    shutdown = "done" =>
        \A e \in Runs :
            Active(e) /\ runs[e].known => runs[e].cancelRequested \/ runs[e].timedOut

\* A shutdown ends, although failed activities are tried again and workflows
\* are started meanwhile.
ShutdownCompletes == shutdown = "waiting" ~> shutdown = "done"
=============================================================================
