--------------------------- MODULE AssessmentPlayer ---------------------------
(***************************************************************************)
(* One candidate's assessment session: an AssessmentPlayer in a page, the  *)
(* asynchronous operations submitCurrentItem(), next() and submit() that   *)
(* run in it, and a backend with the behaviour of ReferenceBackendAdapter. *)
(*                                                                         *)
(* JavaScript runs one synchronous stretch at a time: an operation is cut  *)
(* at its awaits of the backend and nowhere else.  A call goes             *)
(*                                                                         *)
(*   idle -> request -> answer -> (request -> answer ...)                  *)
(*        -> finalize -> finalized -> idle                                 *)
(*                                                                         *)
(* where "request" and "finalize" wait for the backend, and "answer" and   *)
(* "finalized" are promises settled but not yet resumed.  What a stretch   *)
(* captured before its await is a field of the call, and may be stale when *)
(* the call resumes.                                                       *)
(*                                                                         *)
(* An operator marked "Variant" is the one after it with a plausible bug:  *)
(* nothing uses it but the experiments that show what the properties see.  *)
(***************************************************************************)
EXTENDS AssessmentSession, FiniteSetsExt

CONSTANTS
    Calls,            \* the operations that can be in flight at a time
    TestSubmission,   \* assessment.submissionMode
    Branches,         \* the branching decisions the backend can make
    UpdatedState,     \* whether an answer carries updatedState
    SendItemSession,  \* config.sendItemSessionToBackend
    Overlap,          \* the host does not await an operation before the next
    Faulty,           \* the backend may refuse, or not be reached
    Lossy,            \* the answer of a request that was processed may be lost
    MayReload,        \* the page may be reloaded, resuming the session
    MaxAttempts       \* bound of the model on the attempts at an item

VARIABLES
    player,      \* the AssessmentPlayer of the page
    calls,       \* its operations in flight
    server,      \* the state of the session the backend stores
    finalized    \* whether the backend has finalized the session

vars == <<player, calls, server, finalized>>

\* nextItemIdentifier: absent, an item, or one of the EXIT targets.
Branch == [kind : {"none", "item", "section", "testPart", "test"}, to : Items]

ASSUME PlayerAssumption ==
    /\ TestSubmission \in {"individual", "simultaneous"}
    /\ Branches \in [Items -> SUBSET Branch]
    /\ UpdatedState \subseteq BOOLEAN
    /\ SendItemSession \in BOOLEAN
    /\ Overlap \in BOOLEAN
    /\ Faulty \in BOOLEAN
    /\ Lossy \in BOOLEAN
    /\ MayReload \in BOOLEAN
    /\ MaxAttempts \in Nat

Server == [scores    : SUBSET Items,
           responses : [Items -> Responses],
           sessions  : [Items -> SessionOrNone],
           attempts  : [Items -> Nat]]

EmptyServer == [scores    |-> {},
                responses |-> [i \in Items |-> Unanswered],
                sessions  |-> [i \in Items |-> NoSession],
                attempts  |-> [i \in Items |-> 0]]

(***************************************************************************)
(* A call: op is the operation ("item" submitCurrentItem, "next" next,     *)
(* "submit" submit in individual and "all" in simultaneous mode) and item  *)
(* the item whose answer it awaits.  holds says that the live session is   *)
(* still the object the operation captured, pre is that session serialized *)
(* before the attempt ended, ended after it, value the response sent.  ok, *)
(* full, state and branch are the answer.  first, responses and sessions   *)
(* are submittedItem, allItemResponses and allItemSessions of submit().    *)
(***************************************************************************)
Call == [stage     : {"idle", "request", "answer", "finalize", "finalized"},
         op        : {"item", "next", "submit", "all"},
         item      : Items \cup {0},
         holds     : BOOLEAN,
         pre       : SessionOrNone,
         ended     : SessionOrNone,
         value     : Responses,
         ok        : BOOLEAN,
         full      : BOOLEAN,
         state     : Server,
         branch    : Branch,
         first     : Items,
         responses : [Items -> Responses],
         sessions  : [Items -> SessionOrNone]]

NoCall == [stage     |-> "idle",
           op        |-> "item",
           item      |-> 0,
           holds     |-> FALSE,
           pre       |-> NoSession,
           ended     |-> NoSession,
           value     |-> Unanswered,
           ok        |-> FALSE,
           full      |-> FALSE,
           state     |-> EmptyServer,
           branch    |-> [kind |-> "none", to |-> 1],
           first     |-> 1,
           responses |-> EmptyServer.responses,
           sessions  |-> EmptyServer.sessions]

\* An operation that awaits an item's answer has what it needs to resume.
PendingCall ==
    {call \in Call :
        /\ call.item \in Items
        /\ call.pre \in Session
        /\ call.ended \in Session
        /\ call.op = "next" => call.item + 1 \in Items
        /\ call.op = "all" => call.sessions[call.first] \in Session}

OperationCall ==
    {call \in Call : call.stage \in {"request", "answer"} => call \in PendingCall}

TypeOK ==
    /\ player \in Player
    /\ calls \in [Calls -> OperationCall]
    /\ server \in Server
    /\ finalized \in BOOLEAN

Init ==
    /\ player = Boot(EmptyServer)
    /\ calls = [c \in Calls |-> NoCall]
    /\ server = EmptyServer
    /\ finalized = FALSE

Quiet == \A c \in Calls : calls[c].stage = "idle"

\* The host may begin an operation, which runs as call c.
Free(c) == calls[c].stage = "idle" /\ (Overlap \/ Quiet)

\* The live session object has been released: no call holds it any more.
Detached(cs) == [c \in Calls |-> [cs[c] EXCEPT !.holds = FALSE]]

OutcomesOf(i) == IF i \in Adaptive THEN Outcomes ELSE {"unassigned"}

-----------------------------------------------------------------------------
(* Synchronous operations of the candidate and the host.                   *)

\* updateResponse(), a rendered interaction, updateResponseForItem(current).
Respond(v) ==
    /\ IsWritable(player.live)
    /\ player' = Dispatched(player, SetResponse(player.live, v))
    /\ UNCHANGED <<calls, server, finalized>>

\* Variant: the persisted session is not consulted.
RespondElsewhereClosed(i, v) ==
    /\ i # player.current
    /\ player' = MarkAnswered([player EXCEPT !.responses[i] = v], i, v)
    /\ UNCHANGED <<calls, server, finalized>>

\* updateResponseForItem() for another item; it throws on a persisted session
\* that is not writable.
RespondElsewhere(i, v) ==
    /\ i # player.current
    /\ player.sessions[i] = NoSession \/ IsWritable(player.sessions[i])
    /\ player' = MarkAnswered([player EXCEPT !.responses[i] = v], i, v)
    /\ UNCHANGED <<calls, server, finalized>>

\* navigateTo(), previous() and navigateToSection().
Navigate(i) ==
    /\ Overlap \/ Quiet
    /\ i # player.current
    /\ MayNavigate(player, i)
    /\ player' = NavigateTo(player, i)
    /\ calls' = Detached(calls)
    /\ UNCHANGED <<server, finalized>>

-----------------------------------------------------------------------------
(* submitCurrentItem() up to its await, run in state p for operation op.   *)

Rejected(p) == MustValidate(p) /\ p.live.response \in Invalid

SubmitCurrentItem(c, op, p) ==
    \/ /\ CanEndAttempt(p.current, p.live)
       /\ ~Rejected(p)
       /\ \E outcome \in OutcomesOf(p.current) :
            LET ended == EndAttempt(p.current, p.live, outcome)
            IN  /\ player' = Dispatched(p, ended)
                /\ calls' = [calls EXCEPT ![c] =
                        [NoCall EXCEPT !.stage = "request", !.op = op,
                                       !.item = p.current,  !.holds = TRUE,
                                       !.pre = p.live,      !.ended = ended,
                                       !.value = ended.response]]
    \/ \* endAttempt throws or finds the response invalid: a session restored
       \* from the snapshot just taken replaces the live one
       /\ ~CanEndAttempt(p.current, p.live) \/ Rejected(p)
       /\ player' = IF IsWritable(p.live) /\ Rejected(p) THEN Dispatched(p, p.live) ELSE p
       /\ calls' = Detached(calls)

WithinBound(i) ==
    /\ server.attempts[i] < MaxAttempts
    /\ i = player.current /\ i \in Adaptive => player.live.attempts < MaxAttempts

SubmitItem(c) ==
    /\ Free(c)
    /\ WithinBound(player.current)
    /\ SubmitCurrentItem(c, "item", player)
    /\ UNCHANGED <<server, finalized>>

CanNext ==
    /\ player.current + 1 \in Items
    /\ CanNavigateByTestPart(player.current, player.current + 1)

\* next() reads the answer of state.currentItemIdentifier.
NextItem(c) ==
    LET i == player.current
        p == MarkAnswered(player, i, player.responses[player.currentId])
    IN  /\ Free(c)
        /\ CanNext
        /\ \/ /\ ~CanNavigateAway(p, i)
              /\ player' = p
              /\ UNCHANGED calls
           \/ /\ CanNavigateAway(p, i)
              /\ SubmissionMode[i] = "individual"
              /\ WithinBound(i)
              /\ SubmitCurrentItem(c, "next", p)
           \/ /\ CanNavigateAway(p, i)
              /\ SubmissionMode[i] = "simultaneous"
              /\ player' = IF CanReview(p, i + 1) THEN NavigateTo(p, i + 1) ELSE p
              /\ calls' = IF CanReview(p, i + 1) THEN Detached(calls) ELSE calls
        /\ UNCHANGED <<server, finalized>>

-----------------------------------------------------------------------------
(* submit(): the loop over the items in simultaneous mode.                 *)

\* Variant: an accepted item is reopened as well.
RestoredAlways(p, call) ==
    [SaveItemSession(p, call.first, call.pre) EXCEPT !.live = call.pre]

\* Variant: the sessions of the loop, ended provisionally, are persisted.
RestoredWorking(p, call) == [p EXCEPT !.sessions = call.sessions, !.live = call.pre]

\* The handler of an error in the loop, thrown in state p: the item shown when
\* the loop began keeps its accepted session or gets back its writable one.
Restored(p, call) ==
    IF call.first \in p.results
    THEN [p EXCEPT !.live = call.sessions[call.first]]
    ELSE [SaveItemSession(p, call.first, call.pre) EXCEPT !.live = call.pre]

AbortSubmit(c, p, call) ==
    LET i == call.first
    IN  IF p.current = i
        THEN /\ player' = Restored(p, call)
             /\ calls' = [Detached(calls) EXCEPT ![c] = NoCall]
        ELSE /\ player' = p
             /\ calls' = [calls EXCEPT ![c] = NoCall]

\* endItemSessionForSubmit() ends the attempt of the live session, unless it
\* is suspended or of another item, or else of a detached one.
UsesLive(p, i) == i = p.current /\ p.live.lifecycle # "suspended"

\* Variant: a suspended session is restored without being activated.
SessionToEndInactive(p, call, i) ==
    IF UsesLive(p, i) THEN p.live
    ELSE IF call.sessions[i] = NoSession THEN NewSession(call.responses[i])
    ELSE call.sessions[i]

SessionToEnd(p, call, i) ==
    IF UsesLive(p, i) THEN p.live
    ELSE IF call.sessions[i] = NoSession THEN NewSession(call.responses[i])
    ELSE ActivateAttempt(call.sessions[i])

\* Variant: the loop skips the items that were left unanswered.
PendingAnswered(p, call) ==
    {i \in Items : i > call.item /\ i \notin p.results /\ call.responses[i] # Unanswered}

\* The items the loop has still to submit.
Pending(p, call) == {i \in Items : i > call.item /\ i \notin p.results}

\* From one turn of the loop to the await of the next, or to finalization.
ContinueSubmit(c, p, call) ==
    LET pending == Pending(p, call)
    IN  IF pending = {}
        THEN IF p.current = call.first
             THEN /\ player' = [p EXCEPT !.live = call.sessions[p.current]]
                  /\ calls' = [Detached(calls) EXCEPT ![c] =
                                   [NoCall EXCEPT !.stage = "finalize", !.op = "all"]]
             ELSE /\ player' = p
                  /\ calls' = [calls EXCEPT ![c] =
                                   [NoCall EXCEPT !.stage = "finalize", !.op = "all"]]
        ELSE LET i == Min(pending)
                 session == SessionToEnd(p, call, i)
             IN  IF ~CanEndAttempt(i, session)
                 THEN AbortSubmit(c, p, call)
                 ELSE \E outcome \in OutcomesOf(i) :
                        LET ended == EndAttempt(i, session, outcome)
                        IN  /\ player' = IF UsesLive(p, i) THEN Dispatched(p, ended) ELSE p
                            /\ calls' = [calls EXCEPT ![c] =
                                  [call EXCEPT !.stage = "request",
                                               !.item = i,
                                               !.ended = ended,
                                               !.value = call.responses[i],
                                               !.sessions[i] = ended]]

SubmitTest(c) ==
    /\ Free(c)
    /\ \A i \in Items \ player.results : WithinBound(i)
    /\ IF TestSubmission = "simultaneous"
       THEN LET p == SaveCurrentItemSession(player)
            IN  ContinueSubmit(c, p,
                    [NoCall EXCEPT !.op = "all",
                                   !.pre = player.live,
                                   !.first = p.current,
                                   !.responses = p.responses,
                                   !.sessions = p.sessions])
       ELSE IF player.current \in player.results
       THEN /\ calls' = [calls EXCEPT ![c] =
                             [NoCall EXCEPT !.stage = "finalize", !.op = "submit"]]
            /\ UNCHANGED player
       ELSE SubmitCurrentItem(c, "submit", player)
    /\ UNCHANGED <<server, finalized>>

-----------------------------------------------------------------------------
(* The backend: submitResponses() and finalizeAssessment().                *)

\* Variant: the scores of the other items are overwritten.
ScoredLast(call) ==
    [scores    |-> {call.item},
     responses |-> [server.responses EXCEPT ![call.item] = call.value],
     sessions  |-> server.sessions,
     attempts  |-> [server.attempts EXCEPT ![call.item] = @ + 1]]

\* What submitResponses() stores; it scores whatever it is sent.
Scored(call) ==
    [scores    |-> server.scores \cup {call.item},
     responses |-> [server.responses EXCEPT ![call.item] = call.value],
     sessions  |-> IF SendItemSession
                   THEN [server.sessions EXCEPT ![call.item] = call.ended]
                   ELSE server.sessions,
     attempts  |-> [server.attempts EXCEPT ![call.item] = @ + 1]]

BackendScores(c) ==
    /\ calls[c].stage = "request"
    /\ ~finalized
    /\ server' = Scored(calls[c])
    /\ \E full \in UpdatedState, branch \in Branches[calls[c].item] :
          calls' = [calls EXCEPT ![c].stage = "answer",
                                 ![c].ok = TRUE,
                                 ![c].full = full,
                                 ![c].state = IF full THEN Scored(calls[c]) ELSE @,
                                 ![c].branch = branch]
    /\ UNCHANGED <<player, finalized>>

\* The request is processed, and the promise rejects all the same.
AnswerLost(c) ==
    /\ Lossy
    /\ calls[c].stage = "request"
    /\ ~finalized
    /\ server' = Scored(calls[c])
    /\ calls' = [calls EXCEPT ![c].stage = "answer", ![c].ok = FALSE]
    /\ UNCHANGED <<player, finalized>>

BackendRefuses(c) ==
    /\ calls[c].stage = "request"
    /\ Faulty \/ finalized
    /\ calls' = [calls EXCEPT ![c].stage = "answer", ![c].ok = FALSE]
    /\ UNCHANGED <<player, server, finalized>>

BackendFinalizes(c) ==
    /\ calls[c].stage = "finalize"
    /\ finalized' = TRUE
    /\ \E ok \in IF Lossy THEN BOOLEAN ELSE {TRUE} :
          calls' = [calls EXCEPT ![c].stage = "finalized", ![c].ok = ok]
    /\ UNCHANGED <<player, server>>

FinalizeRefused(c) ==
    /\ Faulty
    /\ calls[c].stage = "finalize"
    /\ calls' = [calls EXCEPT ![c].stage = "finalized", ![c].ok = FALSE]
    /\ UNCHANGED <<player, server, finalized>>

-----------------------------------------------------------------------------
(* Resuming a call with its answer.                                        *)

\* The item that EXIT_SECTION or EXIT_TESTPART leads to, if there is one.
Beyond(i, kind) ==
    {j \in Items : j > i /\ IF kind = "section" THEN SectionOf[j] # SectionOf[i]
                                                ELSE PartOf[j] # PartOf[i]}

Exits(p, branch) ==
    branch.kind \in {"section", "testPart"} /\ Beyond(p.current, branch.kind) # {}

Completes(p, branch) ==
    \/ branch.kind = "test"
    \/ branch.kind \in {"section", "testPart"} /\ Beyond(p.current, branch.kind) = {}

Branched(p, branch) ==
    IF branch.kind = "item" THEN OpenItem(p, branch.to)
    ELSE IF Exits(p, branch) THEN OpenItem(p, Min(Beyond(p.current, branch.kind)))
    ELSE IF Completes(p, branch) THEN [p EXCEPT !.done = TRUE]
    ELSE p

\* submitCurrentItem() adopts the accepted attempt, before it branches.
ItemAccepted(p, call) ==
    LET i == call.item
        responses == [p.responses EXCEPT ![i] = call.value]
        sessions  == [p.sessions EXCEPT ![i] = call.ended]
        adopted   == IF call.full
                     THEN ReplaceState(p, call.state, responses, sessions)
                     ELSE [p EXCEPT !.responses = responses, !.sessions = sessions]
    IN  MarkAnswered(RecordAttempt([adopted EXCEPT !.results = @ \cup {i}], i), i, call.value)

\* next() goes on only when the branch has left the candidate on the item.
GoesOn(p, call) ==
    call.op = "next" /\ p.current = call.item /\ MayNavigate(p, p.current + 1)

ResumeItem(c) ==
    LET call == calls[c]
        accepted == ItemAccepted(player, call)
        branched == Branched(accepted, call.branch)
        reopened == call.branch.kind = "item" \/ Exits(accepted, call.branch)
    IN  /\ call.stage = "answer"
        /\ call.op # "all"
        /\ call.ok
        /\ player' = IF GoesOn(branched, call)
                     THEN NavigateTo(branched, branched.current + 1)
                     ELSE branched
        /\ calls' = [IF reopened \/ GoesOn(branched, call) THEN Detached(calls) ELSE calls
                     EXCEPT ![c] = IF call.op = "submit"
                                   THEN [NoCall EXCEPT !.stage = "finalize", !.op = "submit"]
                                   ELSE NoCall]
        /\ UNCHANGED <<server, finalized>>

\* Variant: the provisional end of the attempt is kept.
ResumeItemUnrestored(c) ==
    /\ calls[c].stage = "answer"
    /\ calls[c].op # "all"
    /\ ~calls[c].ok
    /\ calls' = [calls EXCEPT ![c] = NoCall]
    /\ UNCHANGED <<player, server, finalized>>

\* Variant: the ended session is reopened in place of the snapshot.
ResumeItemReopened(c) ==
    LET call == calls[c]
    IN  /\ call.stage = "answer"
        /\ call.op # "all"
        /\ ~call.ok
        /\ player' = IF call.holds
                     THEN [player EXCEPT !.live.lifecycle = call.pre.lifecycle]
                     ELSE player
        /\ calls' = [calls EXCEPT ![c] = NoCall]
        /\ UNCHANGED <<server, finalized>>

ResumeItemFailed(c) ==
    LET call == calls[c]
    IN  /\ call.stage = "answer"
        /\ call.op # "all"
        /\ ~call.ok
        /\ player' = IF call.holds THEN [player EXCEPT !.live = call.pre] ELSE player
        /\ calls' = [IF call.holds THEN Detached(calls) ELSE calls EXCEPT ![c] = NoCall]
        /\ UNCHANGED <<server, finalized>>

\* The loop of submit() adopts the accepted item.
LoopAccepted(p, call) ==
    LET i == call.item
        adopted == IF call.full
                   THEN ReplaceState(p, call.state, call.responses, call.sessions)
                   ELSE RecordAttempt([p EXCEPT !.responses[i] = call.value,
                                                !.sessions[i] = call.ended], i)
    IN  [adopted EXCEPT !.results = @ \cup {i}]

\* Variant: res.success is not checked.
ResumeAllUnchecked(c) ==
    /\ calls[c].stage = "answer"
    /\ calls[c].op = "all"
    /\ ContinueSubmit(c, LoopAccepted(player, calls[c]), calls[c])
    /\ UNCHANGED <<server, finalized>>

ResumeAll(c) ==
    LET call == calls[c]
    IN  /\ call.stage = "answer"
        /\ call.op = "all"
        /\ call.ok
        /\ ContinueSubmit(c, LoopAccepted(player, call), call)
        /\ UNCHANGED <<server, finalized>>

ResumeAllFailed(c) ==
    /\ calls[c].stage = "answer"
    /\ calls[c].op = "all"
    /\ ~calls[c].ok
    /\ AbortSubmit(c, player, calls[c])
    /\ UNCHANGED <<server, finalized>>

ResumeFinalized(c) ==
    /\ calls[c].stage = "finalized"
    /\ player' = IF calls[c].ok THEN [player EXCEPT !.done = TRUE] ELSE player
    /\ calls' = [calls EXCEPT ![c] = NoCall]
    /\ UNCHANGED <<server, finalized>>

\* A new page resumes the session with initSession({ resumeSessionId }).  The
\* requests of the old page that the backend has not seen are lost.
Reload ==
    /\ MayReload
    /\ player' = Boot(server)
    /\ calls' = [c \in Calls |-> NoCall]
    /\ UNCHANGED <<server, finalized>>

-----------------------------------------------------------------------------
User ==
    \/ \E v \in Responses : Respond(v)
    \/ \E i \in Items, v \in Responses : RespondElsewhere(i, v)
    \/ \E i \in Items : Navigate(i)
    \/ \E c \in Calls : SubmitItem(c) \/ NextItem(c) \/ SubmitTest(c)

Backend(c) ==
    \/ BackendScores(c)
    \/ AnswerLost(c)
    \/ BackendRefuses(c)
    \/ BackendFinalizes(c)
    \/ FinalizeRefused(c)

Resume(c) ==
    \/ ResumeItem(c)
    \/ ResumeItemFailed(c)
    \/ ResumeAll(c)
    \/ ResumeAllFailed(c)
    \/ ResumeFinalized(c)

Next ==
    \/ User
    \/ \E c \in Calls : Backend(c) \/ Resume(c)
    \/ Reload

Spec == Init /\ [][Next]_vars

\* The backend answers every request in the end, and accepts one that is made
\* again and again; settled promises are resumed; and a candidate whose test
\* is not finished keeps coming back to the submit button.
FairSpec ==
    /\ Spec
    /\ \A c \in Calls : /\ WF_vars(Backend(c))
                        /\ SF_vars(BackendScores(c))
                        /\ SF_vars(BackendFinalizes(c))
                        /\ WF_vars(Resume(c))
                        /\ SF_vars(SubmitTest(c))

-----------------------------------------------------------------------------
(* Properties.                                                             *)

\* The client never shows an item as submitted that the backend has not
\* accepted, whatever stale snapshot it adopts: setItemResult() and
\* #restoreItemResultsFromScores() against submitResponses().
NoPhantomResults == player.results \subseteq server.scores

\* For a host that awaits each operation, a session persisted as closed is one
\* whose attempt the backend accepted: the provisional end of an attempt never
\* reaches state.itemSessions, neither when the candidate navigates after a
\* failure nor through the loop's own snapshot.  Without that it does: submit()
\* of a simultaneous test begins by saving the live session, which a submission
\* still in flight has closed provisionally.
ProvisionalNotPersisted ==
    \A i \in Items : player.sessions[i].lifecycle = "closed" => i \in server.scores

\* submit() of a simultaneous test finalizes only when every item has been
\* accepted, although the loop skips items it believes to be accepted.
FinalizedComplete ==
    finalized /\ TestSubmission = "simultaneous" => server.scores = Items

\* When nothing is in flight the candidate can work on, and submit, the item
\* shown, unless it has been accepted: a failed submission leaves no closed
\* or suspended session behind.
RetryPossible ==
    Quiet /\ player.current \notin player.results => IsWritable(player.live)

\* When nothing is in flight no session counts more attempts than the backend
\* has accepted for its item: provisional attempts have been rolled back.
AttemptsRolledBack ==
    Quiet => /\ player.live.attempts <= server.attempts[player.current]
             /\ \A i \in Items : player.sessions[i].attempts <= server.attempts[i]

\* While the candidate can edit the item shown, and it is not adaptive,
\* state.itemResponses has what the live session has: the two copies of a
\* response are kept equal through navigation, failed submissions and the
\* backend's state replacements.  Of an adaptive item, which stays open during
\* its submission, this is not so: a failure puts back the session of before
\* and leaves what was typed meanwhile in state.itemResponses, and acceptance
\* writes the submitted answer over it there and leaves the session alone.
LiveMirrored ==
    IsWritable(player.live) /\ player.current \notin Adaptive
        => player.responses[player.current] = player.live.response

\* The answer the client holds for an item it shows as submitted is the
\* answer that was scored.
ScoredIsShown ==
    Quiet => \A i \in player.results \ Adaptive :
                player.responses[i] = server.responses[i]

\* Retrying submit() after some of its requests have succeeded submits no
\* item a second time; only an adaptive item has further attempts.
AcceptedOnce == \A i \in Items \ Adaptive : server.attempts[i] <= 1

\* In a linear testPart the candidate never goes back, and a testPart that
\* was left is never entered again.
NeverBack ==
    [][player'.current < player.current =>
          /\ NavigationMode[player.current] = "nonlinear"
          /\ PartOf[player'.current] = PartOf[player.current]]_vars

\* An item shown as submitted stays so: adopting updatedState loses nothing.
ResultsKept == [][player.results \subseteq player'.results]_vars

\* A candidate who keeps submitting the test gets it finalized, whatever
\* requests fail and however often the page is reloaded on the way.
RetriesFinish == <>finalized

-----------------------------------------------------------------------------
(* What the repository says and the code does not do.                      *)

\* attemptCount counts the submissions of an item, against maxAttempts.
AttemptsCounted ==
    Quiet => \A i \in player.results : player.attempts[i] <= server.attempts[i]

\* EXIT_TEST, which completes the test, navigates no further.
ExitTestStays == [][~player.done /\ player'.done => player'.current = player.current]_vars

\* Item session control falls back from the section to the testPart to the
\* defaults, for every item afresh.
ControlFallsBack ==
    \A k \in Controls :
        LET i == player.current
            Set(control) == control[k] \in {"yes", "no"}
        IN  IsOn(player.settings, k) <=>
                IF Set(SectionControl[i]) THEN SectionControl[i][k] = "yes"
                ELSE IF Set(PartControl[i]) THEN PartControl[i][k] = "yes"
                ELSE DefaultSetting(k) = "yes"

\* Submission modes are scoped to each testPart: the items of a simultaneous
\* testPart are all submitted before the test is finalized.
PartsComplete ==
    finalized => \A i \in Items : SubmissionMode[i] = "simultaneous" => i \in server.scores

-----------------------------------------------------------------------------
(* The abstract specification.                                             *)

Ledger == INSTANCE AssessmentLedger WITH
    Complete <- TestSubmission = "simultaneous",
    accepted <- server.scores,
    known    <- player.results,
    closed   <- finalized

\* The session keeps the promises of AssessmentLedger.
KeepsLedger == Ledger!Spec
=============================================================================
