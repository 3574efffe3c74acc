# A formal model of pie-qti

pie-qti is a set of TypeScript packages that import, convert, deliver and score
QTI 2.2/3.0 content in the browser. This directory holds TLA+ modules that model
the part of it with state, concurrency and failure, the TLC configurations that
check them on small tests, and TLAPS proofs of what matters most for every test.
Paths below are relative to `src/packages/` of the repository.

## 1. The system

### Components and how they interact

A host page creates an `AssessmentPlayer` on a `BackendAdapter`. The player owns
an `AssessmentSessionCoordinator` (state of the session), an
`ItemSessionController` (review, skipping, validation), a `NavigationManager`
and a `TimeManager`, and opens one item-player session at a time, whose
transitions call back into the player. It talks to the backend with
promises (`initSession`, `submitResponses`, `finalizeAssessment`); between the
request and the answer the page goes on handling events.

| Component | State | Operations | What makes it correct |
|---|---|---|---|
| `assessment-player/src/core/AssessmentPlayer.ts` | item index, live item session, operations suspended at an `await` | `navigateTo`, `next`, `previous`, `updateResponse(ForItem)`, `submitCurrentItem`, `submit`, `destroy` | a failed request undoes the local end of the attempt; a late answer spoils nothing; a test submitted as a whole is finalized complete; order of navigation |
| `AssessmentSessionCoordinator.ts` | responses, persisted sessions, item results, feedback | mirror, save, replace by the backend's state | copies of a response agree; nothing provisional is persisted; a result shown was accepted |
| `ItemSessionController.ts` | attempts, answered, submitted, settings | `canReview`, `canNavigateAway`, `recordAttempt`, `updateSettings` | settings are those of the item; one count for one attempt |
| `integration/ReferenceBackendAdapter.ts` | stored session, finalized | `initSession`, `submitResponses`, `saveState`, `finalizeAssessment` | nothing is scored after finalization; a resumed session is what was stored |
| `item-player/src/core/Player.ts`, `ItemSession.ts` | lifecycle, completion, attempts, variables | `endAttempt`, `suspendAttempt`, `activateAttempt`, `setResponses`, `submitAttempt`, `newTemplate`, `resetItem` | lifecycle guards; restoring a serialized session |
| `assessment-player/src/core/NavigationManager.ts` | index, visited items | arithmetic and hints for the interface | index in range |
| `TimeManager.ts` | elapsed times per scope, limits passed, pause | start/end of scopes, pause, resume, restore, tick | no time is lost or counted twice; every limit expires once |
| `StatePersistenceManager.ts` | state, timer, save in progress | update, save, clear, load | the last update is saved in the end; cleared state stays cleared |
| `item-player/src/pci/PciHost.ts` | module, response and its owner, load generation | load, initialize, offer, restore, remount, destroy | the last load wins; a restored response is not overwritten |
| `item-player/src/iframe/IFramePlayerHost.ts` | locked origin, promise of READY | init, post, onMessage | the handshake ends once |
| `player-elements/src/elements/QtiAssessmentPlayerElement.ts` | load sequence, backend, mounted player | attribute changes, load | a superseded load mounts nothing |
| `core/src/orchestration/in-memory-orchestrator.ts` | executions and their status | start, cancel, retry, time out, shutdown | a final status stays; no step runs twice at a time |
| `qti-processing/src` (`exec/execute.ts`, `eval/evaluator.ts`) | variables of an item, a program under way | template, response and outcome programs; expressions | a restarted template ends and keeps what no constraint refused; scoring again gives the same score; a missing answer earns nothing |
| `player-elements/src/qti/resolveItems.ts` | cache of promises, permits, budget | resolve | no lost wake-up; each text is accounted once; a failed one may be asked for again |
| `ims-cp-core/src` (`package-file-resolver.ts`, `package-graph.ts`) | none: an analysis of a package | resolve a reference, discover, close, diagnose | heuristics break nothing; a closure is complete or says what it lacks |
| gapMatch, graphicGapMatch and match of `default-components/src` | pairs, what is picked up with the keys | drag, pick up, put down, clear | limits and groups hold however dragging and keys alternate |
| section-player, the item player's parsing and rendering, other default-components, i18n, theme, typesetting, qti-common, types, schemas, logger | view state or none | conversion and rendering | input/output behaviour, for unit tests |
| core engine, storage, ims-cp-browser, ims-cp-node, to-pie, pie-to-qti2, source-profiles, `tools/cli`, `apps/*`, sample plugins | files | sequential conversion and I/O | input/output behaviour, for unit tests |

### What is hard about it

JavaScript runs one stretch at a time, so all interleaving happens at an
`await`. The operations of `AssessmentPlayer` take snapshots before it (the live
session object, its serialized form, all answers, a working copy of all
sessions) and use them after it. Meanwhile the candidate may type, navigate or
press submit again, another operation may adopt a whole new state from the
backend, a request may be refused, its answer may be lost after it was
processed, and the page may be reloaded.

The other components meet the same in their own way: intervals that fire late,
modules and texts that arrive after they were asked for, a debounced save that
comes due while another is on its way, a timeout that races the answer it waits
for, workflows that end after they were given up, gestures that overlap. Two
more are hard as computations: template programs that restart, and references
in packages that do not say what they mean. `PROJECT.json` lists each hazard at its
line with the properties that watch it.

## 2. Modules

| Module | Models |
|---|---|
| `ItemLifecycle` | one item session as a value: the lifecycle commands of `ItemSession.dispatch` that the assessment player uses |
| `AssessmentSession` | the client's state as one record, and the synchronous methods of `AssessmentPlayer`, the coordinator and the session controller on it |
| `AssessmentPlayer` | the state machine: candidate, operations cut at their awaits, backend, reload; all properties of it |
| `AssessmentLedger` | the abstract specification: what a session promises about submissions |
| `AssessmentTypes` | proof that `TypeOK` is an invariant |
| `AssessmentSafety` | proofs of the safety of results and finalization, and of the refinement |
| `AssessmentAwaited` | proofs of what a host gets that awaits each operation before the next |
| `Stopwatch` | the abstract specification of time tracking |
| `TimeManager`, `TimeProofs` | time limits and tracking, with what `AssessmentPlayer` asks of them; proofs of the accounts and of the stopwatch |
| `TimedSubmission` | submissions with time evidence, and the backend's verdict on them |
| `PciSession` | a portable custom interaction: item session, host, module, renderer |
| `StatePersistence` | debounced saving to backend and storage |
| `IFrameHandshake` | the host page of a player in an iframe |
| `InMemoryOrchestrator` | workflows: retries, timeouts, cancel, shutdown |
| `ServiceProofs` | proofs about `StatePersistence` and `InMemoryOrchestrator` |
| `AssessmentElement` | the custom element that loads and mounts a player |
| `PageProofs` | proofs about `IFrameHandshake`, `AssessmentElement`, `PciSession` and `PairResponses` |
| `ResourceResolver` | the fetching of an assessment's texts under limits |
| `QtiExpressions`, `QtiEvaluation`, `QtiLaws` | the values and operators of QTI programs; the evaluation of expressions made of them; what they compute, against reference definitions |
| `QtiProcessing`, `ProcessedItems` | the execution of an item's programs, for any evaluation of expressions; the items on which it is checked |
| `ProcessingProofs` | proofs about `QtiProcessing` |
| `TestSelection`, `SelectionLaws` | selection and shuffling of a test's items; what they promise |
| `PackageReferences`, `PackageGraph`, `PackageLaws` | resolution of references, graph, closures and diagnostics of a package; what they promise |
| `ResolutionProofs` | proofs about `ResourceResolver` and `PackageReferences` |
| `PairResponses` | answers made of pairs, by dragging and with the keys |
| `MC*` | the instances on which TLC runs |

`PciSession` extends `ItemLifecycle`, `TimedSubmission` extends `TimeManager`,
`QtiProcessing` and `QtiEvaluation` extend `QtiExpressions`, `PackageGraph`
extends `PackageReferences`. The components below `TimedSubmission` in the table do not
call each other; `MCComponents` puts them side by side.

### The assessment session: state and code

`player` is the object graph of the page: `live` is `currentItemSession`,
`responses` and `sessions` are `state.itemResponses` and `state.itemSessions`,
`results` the keys of `#itemResults` (the coordinator keeps `state.itemScores`
equal to it), `attempts`, `answered` and `submitted` the `ItemSessionState`
records, `settings` the controller's. An item is its index. `currentId` is
`state.currentItemIdentifier`, kept apart because adopting `updatedState` sets
it to what the backend stores, which the reference backend never advances.

`server` and `finalized` are the session stored by `ReferenceBackendAdapter`.

`calls` are the operations in flight. A call waits in stage `request` or
`finalize` for the backend, and in `answer` or `finalized` for its turn to
resume; its other fields are the local variables the code captured. `holds`
stands for the identity test `this.currentItemSession === submittedSession`: it
is set when the operation captures the object and dropped, for every call, by
each statement that replaces the object (`Detached`).

| Action | Code |
|---|---|
| `Respond`, `RespondElsewhere` | `updateResponse`, `updateResponseForItem`, with the mirror callback |
| `Navigate` | `navigateTo`, `previous`, `navigateToSection` |
| `SubmitItem`, `NextItem`, `SubmitTest` | `submitCurrentItem`, `next`, `submit` up to the first await |
| `BackendScores`, `BackendFinalizes` | `submitResponses`, `finalizeAssessment` succeed |
| `BackendRefuses`, `FinalizeRefused`, `AnswerLost` | the request fails before, or after, it took effect |
| `ResumeItem`, `ResumeItemFailed` | the rest of `submitCurrentItem`, and of the `next` or `submit` that awaits it |
| `ResumeAll`, `ResumeAllFailed` | a turn of the loop of `submit()` to its next await, or its error handler |
| `ResumeFinalized` | the end of `submit()` |
| `Reload` | `initSession({ resumeSessionId })` and a new player |

An action is a whole stretch: navigation that saves, suspends, applies the
item's settings and opens the next session is one step, because nothing can run
in between.

### The other components: state and code

- `TimeManager`. `tm` is the object: `total`, the clocks of the three scopes
  (`start`, 0 for undefined as the code tests start times for truth, and the
  times credited), `warned`, `expired`, `timer`. `Advance` lets time pass
  without the interval, `Tick` is the interval; `Navigate`, `Pause`, `Resume`,
  `RestoreState`, `Reload` and `Destroy` are the operations of
  `AssessmentPlayer` with the calls they make here. `saved` is the timing the
  host has of `getState()`, `stored` the one of the backend, from which `Reload`
  goes on. `Save` is `getState()` followed by `saveState()`, which sets both;
  `SubmissionAccepted` is what `submitResponses` does to `stored`: the item gets
  the time its session reports, and nothing else changes. `touched` is a history
  variable: which of the three timings have such a time in them.
  `TimedSubmission` adds `SubmitCurrentItem`, `TimeLimitExpired` and the
  backend's `SubmitResponses`, as far as time limits go.
- `PciSession`. `session` is the item session, `view` what was last captured of
  it for rendering, `host` the `PciHost` (its response, who owns it, the module
  by the answer it holds), `page` and the set of loads in flight the host and
  the component around it. `LoadSettles` is a module that arrives, fails, or
  fails to initialize; `Type` and `Report` are the candidate and the module.
- `StatePersistence`. Current state, timer, the save that awaits the backend,
  and the two places where states are kept. `Save` runs to the await,
  `SaveResumes` after it. `null` stored as text and no entry differ, as in
  `localStorage`. `Restart` is a new page on the same storage.
- `IFrameHandshake`. `OnMessage` has the origin check, the lock and READY;
  commands are queued on the promise (`Command`, `CommandResumes`).
- `InMemoryOrchestrator`. An execution is a record with its step, attempt and
  stage; `AttemptFails` covers retry, catching and failure, `Proceeds` what
  JavaScript or the backoff timer will do by itself.
- `AssessmentElement`. `SetSource`, `Connect`, `Disconnect`, `InjectBackend`,
  `RemoveBackend`, `SetInitSession` and `Configure` are what the host does;
  `ItemsResolved` and `LoadEnds` the two stretches of a load after its awaits.
- `ResourceResolver`. A request is a record that goes through the stages of
  `resolve`; `queue` is the list of waiters, whose order `Release` keeps.
- `QtiProcessing`. `program` is the program that runs, `at` its statement and
  `todo` what is left of that once it has begun; every action is one statement
  of `execStatement`, so that restarts fall between statements as in the code.
  `Evaluate` stands for `evalExpr`; in the run it is `Eval` of `QtiEvaluation`.
  It is a parameter because expressions are trees: their evaluation is
  recursive, and what the programs promise does not depend on all of it.
- `PairResponses`. `pairs` is the answer, `pickedUp` the label in hand; one
  action for each gesture, for the three components, which differ in
  `Used`, `Unavailable`, `MayMatch` and `Placed`. A blank of gapMatch takes every
  text dropped on it, so `Foreign` texts are dropped too; `Beginnings` says with
  which labels such a text begins, since the code finds the pairs of a word by
  their beginning. `follows` is whether the response given from outside is still
  taken over, which in graphicGapMatch ends with the candidate's first change.
- `TestSelection`, `PackageReferences`, `PackageGraph` are operators. A draw of
  the random generator is a function; a path is a sequence of segments.

Operators marked "Variant" are the operator after them with a plausible bug; no
action uses them. They show that each property can fail.

## 3. What the runs check

All runs finish by exhausting their state space (the violations stop at the
first counterexample).

| Run | Test | Environment | Shows |
|---|---|---|---|
| `individual` | 3 items, 2 parts, linear then nonlinear, sections with different controls, one adaptive item, EXIT targets | refusals and lost answers, one operation at a time; about 2.1 million states | `TypeOK`; `RetryPossible`, `AttemptsRolledBack`: a failure leaves nothing behind; `NeverBack`; `ResultsKept` |
| `simultaneous` | 2 items, the last adaptive, submitted as a whole | refusals and reloads, fairness; about 20 000 states | `FinalizedComplete`, `AcceptedOnce`, `ScoredIsShown`, `LiveMirrored` (of items that are not adaptive), `ProvisionalNotPersisted` (operations are awaited), and that retries finish (`RetriesFinish`) |
| `overlap` | 2 items, submitted as a whole | two operations at once, refusals, lost answers; about 1.5 million states up to symmetry | `NoPhantomResults`, and that the session implements `AssessmentLedger` (`KeepsLedger`) |
| `timer` | 3 items, 2 sections and parts; limits on the test, a section and two items, one allowing late submission, one minimum | time passes at any pace under the interval; pauses, saves, restored states, submissions that file a time of their own, sessions opened again; about 247 000 states | `ScopesAddUp`, `KeepsStopwatch`: no time is lost or counted twice; `StoppedByHardLimit`, `MarkedWhenPassed`, `ExpiryNoticed`: limits that pass are noticed, and only those |
| `components` | eight components that do not call each other, one at a time (`part`) | see the next table; about 237 000 states | see the next table |
| `double_submit`, `attempt_count`, `exit_test`, `control`, `mixed_parts`, `late_submission`, `ready_timeout` | as their modules say | | the findings of section 6 |

| Part of `components` | Shows |
|---|---|
| `pci` | `OneInstance`: one module is alive at most; `AnswerIsCurrent`, `ClosedViewScored`, `NotEchoed`: a superseded answer does not come back, and a closed session shows what was scored; `PciSettles`: a load ends |
| `save` | `NothingForgotten`: an update that is not saved has a timer or a save that will store it; `ClearedStays` |
| `frame` | `PostedInOrder`: commands go to the locked origin, once and in order |
| `workflows` | `ResultStands`, `NoneLeftBehind`, `ShutdownCompletes` |
| `element` | `MountedIsLatest`, `HostSessionOnly` |
| `resources` | `NoIdlePermit`: nobody waits while a permit is free; `WithinBudget` |
| `processing` | `ProcessingEnds`, `ConstraintsHoldOrDefaults`, `SameScoreAgain`, `MissingNeverScores`, on nine items |
| `pairs` | `UsesWithinLimits` |

`components` also evaluates the laws of `QtiLaws`, `PackageLaws` and
`SelectionLaws`, which are ASSUMEs: set comparison against a matching of the
elements, rounding and integer division, geometry; that a closure is the least
set that is closed, that it lacks no file silently, that references resolve to
files of the name they ask for; that each order of a shuffle comes of one
sequence of draws, and that selection keeps what is required and fixed.

Deadlock is not checked: a session whose test is finalized and whose candidate
has nothing left to do really stops.

### Bounds, and why they are enough

- Items: two or three. The loop of `submit()` has a first, a next and a last
  turn; a branch needs a section to leave and one to reach; a snapshot can be
  stale about one other item.
- Responses: unanswered, an answer, and in `individual` one that validation
  rejects. Two answers tell every pair of copies apart that the code compares.
- Calls: one where the host awaits, two where it does not. A third adds no kind
  of interference that two lack; the proofs have no such bound.
- `MaxAttempts` caps the attempts the model makes at an item: a guard of the
  actions that start a submission (`WithinBound`), not of the code. Two are a
  failed or unfinished attempt and its repetition.
- `Branches` holds for each item the decisions that lead somewhere else.
- `timer`: four seconds (`Span`) let the shortest limits pass with and without
  a tick in between, and the longest pass last; three items are a step within a
  section and one out of it. `ClockStart` is not 0, which the code would take
  for no start. `Submitted` is one submission, of two seconds for the first
  item: in the end more or less than the page's own clock has of it. No warnings
  are given (`WarningThreshold` is 0): no clock and no limit depends on them.
- `pci`: an answer and none, which tell a superseded answer from a current one;
  two hosts and two attempts (`MaxMounts`, `MaxPciAttempts`) are one that
  overtakes the other. `save`: three updates (`MaxUpdates`) are one saved, one
  being sent and one after it. `frame`: two messages of the runtime in flight
  and two commands, three origins. `workflows`: two executions of two
  activities with two attempts, each identifier used up to twice. `element`:
  four changes by the host (`MaxChanges`), enough to load, supersede the load,
  inject and remove. `resources`: three texts, one supplied; sizes that fit,
  that fit alone only, and that never fit; one permit, for which two wait.
  `processing`: `MaxIterations` stands for the 100 of the code, and two
  scorings (`MaxScorings`) are one and its repetition. `pairs`: three labels,
  of one use, of two and without limit, and three gaps, in two groups; two
  foreign texts, one of which begins with a label.
- Symmetry is used in `overlap` only, on the names of calls, with safety
  properties only.

### Fairness

`FairSpec` of `AssessmentPlayer` is used for `RetriesFinish` alone. It asks that the backend answers
every request (WF), that a request made again and again is accepted some time
(SF on `BackendScores` and `BackendFinalizes`: an outage ends), that settled
promises resume (WF: the event loop), and that a candidate whose test is not
finished comes back to the submit button whenever the host leaves it enabled
often enough (SF on `SubmitTest`). The last two are what the property is
conditional upon: "whoever keeps submitting". Nothing is asked of navigation,
typing or reloads.

Of the other components, `TimeManager` asks that the interval fires while it is
set (WF on `Tick`; nothing asks that time advances or how late it fires).
`PciSession` asks that loads settle (WF), as `import()` does. `InMemoryOrchestrator`
asks that activities end, backoff timers fire and microtasks run (WF on
`Proceeds` and `ShutdownEnds`). `QtiFairness` says that a program that has begun
goes on, being synchronous code; it is written out because a step of a program
is a part of `QtiNext`. The rest have safety properties only.

## 4. What is proved

TLAPS checks these for every set of items, test, `itemSessionControl`, branching
and number of calls, with refusals, losses, reloads and overlap allowed or not.
They rest on `LifecycleAssumption`, `SessionAssumption` and
`PlayerAssumption`, which say what the constants are; TLC evaluates them in
every run.

- `TypeCorrect`: `Spec => []TypeOK`. Not just types: `PendingCall` says that an
  operation awaiting an item has the snapshots it will use, that `next()` has an
  item to go to, and that the loop has a session to put back. Without it the
  steps that resume a call are not even typed.
- `SafeAlways`: `Spec => []Safe`. `NoPhantomResults` and `FinalizedComplete` are
  not inductive, because a call may resume with a snapshot taken long ago.
  `CallSafe` adds what of a snapshot stays true as the backend accepts more:
  a positive answer is about an accepted item and a state no larger than the
  backend's; a loop has left behind only accepted items; a call that asks to
  finalize a simultaneous test does so with all items accepted. The key step is
  `ContinueSubmitSafe`: the loop skips an item only if it is in the client's
  results, which are never ahead of the backend.
- `NoPhantomResultsCorrect`, `FinalizedCompleteCorrect` follow from it.
- `LedgerKept`: `Spec => KeepsLedger`, the refinement. The mapping is
  `accepted <- server.scores`, `known <- player.results`,
  `closed <- finalized`; backend steps are `Accept` and `Close`, client steps
  are `Learn`, everything else stutters.

What overlapping operations break (`double_submit`) holds for a host that awaits
each of them: `AssessmentAwaited`, under the hypothesis `~Overlap`. Its
invariant, `Awaited`, has two parts. At rest, the live session, the persisted
sessions, the responses and the backend agree, for the item shown as well as for
those parked. With a submission under way they agree but for the item in flight,
and the call holds what its failure has to bring back; navigation needs the
parked items to agree with their responses, and a reload what the backend has
stored. It gives `RetryPossible`, `AttemptsRolledBack`, `LiveMirrored`,
`ProvisionalNotPersisted` and `ResultsKept` without further hypothesis.
`LiveMirrored` is about items that are not adaptive: only these are closed while
their submission is under way (section 5 has what becomes of the others). The
others need one, each for a reason found in the code:

- `AcceptedOnceCorrect` and `ScoredIsShownCorrect` are about `Strict` hosts:
  nothing is lost (a lost answer leaves an item scored that the client submits
  again) and sessions are sent along (without them a new page opens an accepted
  item afresh).
- `NeverBackCorrect` supposes that the page is not loaded again (a new page
  begins with the first item) and that branch rules name later items, as
  the QTI specification demands; the code follows a rule that leads back.

Of the pair interactions, for every set of labels and gaps, all limits and
groups (`PairAssumption`): `PairTypeCorrect`, `OneLabelPerGapCorrect`,
`UsesWithinLimitsCorrect` and `MatchesCompatibleCorrect`. Each invariant is
inductive with the type, and each allows for any foreign texts: a blank of
gapMatch may hold one, and the words used are counted as the code counts them,
with the texts that begin like a word. The key lemma of the third is
`GapChangedWithinLimits`: `handleGapChange` counts the uses of a word after it
has emptied the blank, so a word at its limit is moved and one below it gains at
most one use.

Of the resolution of package references, for every package and reference:
`ResolvedIsListed`, `HeuristicsBreakNothing`, `AdditionsBreakNothing` and
`SourcesNeedEvidence`. They are facts about `ResolvePackageReference`; the folds
that normalize paths are not opened.

Of time tracking, for every test, all limits, any time that passes and any
lateness of ticks (`TimeProofs`, under `TimeAssumption`): `TimeTypeCorrect`,
`StoppedByHardLimitCorrect`, `MarkedWhenPassedCorrect`, `ScopesAddUpCorrect` and
the refinement `KeepsStopwatchCorrect`.

- `TimeInv`: the clock of the item, the section and the part shown runs exactly
  while tracking does, no other does, and none was started in the future; a
  pause stops them all; with the player every clock and the timer end. Then what
  each action does can be said of the time read from the clocks (`Reads`): a
  second adds one to each scope shown, and everything else leaves what is shown
  as it was, or brings back what was saved.
- `BalanceInv` for `ScopesAddUp`: what is shown, saved and stored adds up. Of
  sections and testParts it does always, since a submission files a time for an
  item only; of items, in each of the three timings that is not `touched`.
  `TimeOf` is a recursive function. That a sum exists is carried
  along as a witness (`AddsUpTo`), and that `TimeOf` is that sum follows
  from a least item at which they would differ (`Least`, from the library's
  theorem that the strict subsets of finite sets are well founded).
- `KeepsStopwatch` maps what each item shows to `spent`, what the host has
  saved to `kept` and what the backend has to `filed`; a submission is `Note`, ticks and destruction stutter or stop.

Of what a page embeds (`PageProofs`):

- `IFrameHandshake`, for every set of origins: `PostedInOrderCorrect`.
  `ReadyLocks` says that READY fixes the origin and that nothing is posted
  before it; `WaitInOrder`, that commands wait in the order given.
- `AssessmentElement`, for any number of changes: `MountedIsLatestCorrect` and
  `HostSessionOnlyCorrect`. What is mounted comes from a load, so the invariant
  says of the backend at hand and of the loads in flight what the properties say
  of the player.
- `PciSession`, for any number of hosts and attempts: `OneInstanceCorrect`,
  `AnswerIsCurrentCorrect`, `ClosedViewScoredCorrect`, and the action property
  `NotEchoedCorrect`. `LoadsFirst`: there is no module while a load of the host
  is in flight. `AnswersDue`: every place from which an answer may later be
  taken (the module, a load, the host) holds one that is due.

Of what works in the background (`ServiceProofs`):

- `StatePersistence`, for every number of updates: `PersistenceTypeCorrect`,
  `NothingForgottenCorrect` and `ClearedStaysCorrect`. `NothingForgotten` is
  inductive as it stands: a save that is dropped is dropped because one waits,
  and that one stores what is current when it resumes (`StoresSaves`).
  `ClearedStays` needs the type, by which a new update is newer than all that
  were cleared.
- `InMemoryOrchestrator`, for any workflows and attempts: `NoneLeftBehindCorrect`
  and the action property `ResultStandsCorrect`. `Consistent` says how the parts
  of an execution go together; `KnownAwaited`, where a known execution is found:
  in the table until a shutdown begins, among those awaited until it ends.

Of the resource resolver, for every set of texts, sizes, budget and number of
permits (`ResolutionProofs`, under `ResolverAssumption`):

- `NoIdlePermitCorrect`, with `QueueOK`: who is in the queue waits, and is in it
  once. Then the request that `Release` wakes was not awake before, and makes up
  for the permit returned (`ReleaseKeeps`); a call that finds every permit taken
  is the only one that joins the queue (`ResolveKeeps`).
- `ResolverTypeCorrect` and `WithinBudgetCorrect`, with `CountsOK` and
  `BudgetOK`: bytes belong to accepted texts, and a request that is not
  forgotten is the one the cache has for its text. `MapThenSumSet` is unfolded:
  its function of sums exists and is unique (`SumsExist`, `SumsAgree`: a smallest
  subset without it, or at which two differ, would have a smaller one), and
  whichever element is taken first, the sum is the same (`SumOfRest`).

Of item programs, for every item and any number of processing runs, whatever is
drawn and answered (`ProcessingProofs`, under `ProcessingAssumption`). `Evaluate`
is any operator, so the theorems hold of expressions that are not modelled too.
`Located`, `Shaped` and `TodoCovered` say where a program is, what the state
looks like, and that the statements still to do come from the program. Then:

- `ConstraintsHoldOrDefaultsCorrect`, with `PassedOrDefaults`: at each statement
  the last constraints passed so far hold, or one of them was given up and all
  template variables have their defaults. A constraint that is passed later
  changes nothing, and a correct response set later changes no earlier
  constraint: that is the hypothesis `ConstraintsReadNoCorrect`. Without it the
  invariant is false of the code, which checks no constraint twice.
- `SameScoreAgainCorrect`, for items whose response and outcome programs draw
  nothing (`ScoresWithoutDraws`; with `randomInteger` in a response program two
  scores do differ). Then a statement is a function of the configuration
  (`StepIs`), the run in progress is an iteration of `StepOf` from a start that
  its inputs determine (`ScoringsRun`), and two iterations from one start that
  both come to an end come to the same (`OneEnd`). That the start depends on the
  inputs only is the reset of the outcomes at the beginning of each run.
- `MissingNeverScoresCorrect`, with `MissingUnscored`: a scoring of a missing
  response has the default score all along. Of the evaluation it needs that a
  comparison is computed as `Compared` and that `RESPONSE` is its value
  (`EvaluatesComparisons`); `MissingComparesFalse` is the truth table of the ten
  comparisons. Of the item, that SCORE starts from nothing and the outcome
  program only sets it back to that (`ScoreStartsFromNothing`); an outcome
  program may give points for anything else. `match_nothing`, whose purpose is
  to reward a missing response, is excluded by the property.
- `QtiTypeCorrect`, with `WellTyped`, for items whose parts go by the declared
  types (`ItemsWellTyped`). No code checks that: `setOutcomeValue` may put a text
  into a numeric variable. The proof needs `conformNumericBaseType` on every way
  into a variable: set, lookup and fixed template (`ConformHeld`).

The hypotheses are what an author controls; all hold of the items in
`ProcessedItems`, and with `Eval` for the evaluation. The module also proves
three laws of `QtiLaws` for all numbers: `DrawsCoverTheRangeCorrect`,
`ModulusIsRemainderCorrect` and `OrderIsTotalOnNumbersCorrect`.

The proof about `ResourceResolver` showed that a bound which the type had
before, twice `Concurrency` on the requests under way, was true of the instance
only: with six texts and one permit there can be three, and more with more
texts. The code gives no bound but the number of texts.

Only model-checked:

- Liveness (`RetriesFinish`, `ExpiryNoticed`, `PciSettles`, `ShutdownCompletes`,
  `ProcessingEnds`): under fairness, out of the prover's reach.
- The other laws of `QtiLaws`, and those of `PackageLaws` and `SelectionLaws`.
  Most rest on RECURSIVE operators over trees or on folds of arbitrary
  sequences. What `Eval` makes of an expression is checked in the run of the
  items.
- `TypesOK` of `MCComponents` as such: each part of it is proved of its
  component, `QtiTypeOK` under the hypothesis above.
- What the theorems of `AssessmentAwaited` say, for operations that overlap,
  where the runs find it violated or do not state it.

## 5. What is not modelled

Of the assessment session:

- Time limits are modelled apart (`TimeManager`, `TimedSubmission`), not within
  the interleavings of `AssessmentPlayer`.
- `saveState()`, `restoreState()` and `destroy()`, except for what they do to
  time (`TimeManager`); `queryItemBank()`.
- Feedback, outcome values, rubric blocks, visited hints: nothing modelled here
  depends on them.
- Selection and ordering are modelled apart (`TestSelection`): within a session
  an item is its index. `withReplacement` is refused by the code.
- After a reload, requests of the old page that the backend had not yet seen are
  lost, so that a late one does not overtake the new page.
- Scoring within a session is any outcome an adaptive item's response processing
  may assign; what a program computes is modelled in `QtiProcessing`.

Of the other components:

- `PciHost`: enabling and disabling, module paths, hosts whose renderer does not
  rebuild the module. The iframe: payloads and resizing. Workflows: events,
  progress, and an attempt that timed out and runs on beside its retry. The
  element: the calls it passes on, and the microtask before a remount.
- QTI expressions without a model: product, divide, power, mod, statistics,
  mathOperator, interpolation, equalRounded, roundTo, records, strings, and the
  results of a test's items. Parsing of programs.
- Packages: the syntax of manifests and of references in text, registration of
  assets, relationship hints, serialization; encodings of a reference.
- Pairs: associate and graphicAssociate; rendering and announcements.
- Components marked `not_modelled` in `PROJECT.json`, with the reason there.
  Most of the repository is conversion of one document at a time (the
  converters, parsers, sanitizers) and user interface, where what could go wrong
  is in the detail that a model would leave out.

What a model shows of the code without a run that says so, because no statement
of the repository contradicts it, or it is a matter of wording:

- An adaptive item stays open while it is submitted. When the submission fails,
  the live session of before is put back, without what was typed meanwhile,
  which `state.itemResponses` keeps (`AssessmentPlayer.ts:893-897`); when it is
  accepted, the submitted answer is written over the typed one there
  (`:909`) and the live session keeps the typed one. `LiveMirrored` is therefore
  about items that are not adaptive.
- When operations overlap, `submit()` begins by saving the live session
  (`AssessmentPlayer.ts:1030`, `:580-597`), which a submission in flight may have
  closed provisionally; `ProvisionalNotPersisted` is about hosts that await.
- A session opened again after a submission, before the host has saved its
  state, has the item's time and no time of its section, its testPart and the
  test (`ReferenceBackendAdapter.ts:314-317`, `AssessmentPlayer.ts:208-209`), so
  that limits of these count less than the item says. `ScopesAddUp` says of such
  a page (`touched`) only that total, sections and testParts agree.
- A blank of gapMatch takes every dropped text into the answer, be it a word or
  not (`GapMatchInteraction.svelte:288-295`); graphicGapMatch does not take over
  a response given from outside once the candidate has changed the answer
  (`GraphicGapMatchInteraction.svelte:91-98`).
- The element mounts a load that was superseded in its second await
  (`QtiAssessmentPlayerElement.ts:412-430`); `MountedIsLatest` and
  `HostSessionOnly` set these runs aside (`overtaken`).
- `hasSavedState()` replaces unsaved state (`StatePersistenceManager.ts:236`);
  `destroy()` during a save writes "null" as the stored state.
- A woken waiter of the resolver does not look at the permits again: a call that
  takes the permit first makes one request more than the limit, and when several
  waiters are woken together the excess adds up. A failed text asked for again
  counts again as a resource.
- `delete` does not normalize pairs while `member` does; the default of a mapping
  is not clamped for a missing response; a correct response set by a template
  pass that was given up stays; `round` is `Math.round`, while
  `docs/prds/architecture/response-processing.md:163` plans ROUND_HALF_UP.
- `MatchDragDrop` can exceed `maxAssociations` ("cap total pairs", line 27): a
  source that has a pair passes the guard, which expects it to be replaced, and
  `createOrUpdatePair` keeps it. With a cap of two: l1-g1, l2-g2, l2-g3. A
  source of `matchMax` 0 is never dragged, and the keys ignore `matchMax`. In
  gapMatch the keys take words that their groups make unavailable.

## 6. Disagreements found

Each is a run that ends with a counterexample, and a `findings` entry with the
lines.

1. `double_submit`: two overlapping submissions that both fail can leave the
   item closed although nothing was accepted, against the README's promise that
   the candidate can retry (`AssessmentPlayer.ts:884-899`).
2. `attempt_count`: a submission answered with `updatedState` is counted twice
   (`AssessmentPlayer.ts:910`, `:936`).
3. `exit_test`: EXIT_TEST in answer to the submission of `next()` completes the
   test and navigation goes on (`AssessmentPlayer.ts:947`, `:826-834`).
4. `control`: item session control of an earlier item leaks into one that sets
   none (`AssessmentPlayer.ts:786`, `ItemSessionController.ts:250-252`).
5. `mixed_parts`: the submission mode of the first part decides for all
   (`AssessmentPlayer.ts:1021`).
6. `late_submission`: an item's limit that allows late submission hides a hard
   limit of its section that has passed (`AssessmentPlayer.ts:298`).
7. `ready_timeout`: any message before READY disarms the timeout, and commands
   wait for ever (`IFramePlayerHost.ts:117`).

## 7. Plan

Done: the assessment session, from the item lifecycle to the refinement; time,
portable custom interactions, persistence, the iframe, workflows, the element,
the resolver, item programs, selection, package references and pair
interactions.

Proved: every safety property and action property that a run checks of the
assessment session (some for hosts that await, see section 4), of time, of what
a page embeds, of the services, the resolver, references, pairs and item
programs.

Proofs to follow:

1. `TestSelection` with its recursion over sections as a function: that
   selection keeps what is required.
2. `AssessmentAwaited` for reloads that find the item where the candidate was.

`PackageGraph` and `TestSelection` recurse over trees with RECURSIVE operators,
as does `QtiEvaluation`, and stay with TLC.

To model: `AssessmentPlayer` with `saveState` and `destroy`, the item bank
cache, transform session storage, the interactions that keep an order.

## 8. Running it

    tlc -config MCAssessmentOverlap.cfg MCAssessmentOverlap
    tlapm AssessmentSafety.tla

Each `.cfg` belongs to the module that `PROJECT.json` names for its run.
