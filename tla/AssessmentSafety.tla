--------------------------- MODULE AssessmentSafety ---------------------------
(***************************************************************************)
(* The submission ledger of AssessmentPlayer, for every test and every     *)
(* number of operations in flight: the client never shows as submitted     *)
(* what the backend has not accepted, a simultaneous test is finalized     *)
(* complete, and the session implements AssessmentLedger.                  *)
(*                                                                         *)
(* None of this is inductive alone, because an operation in flight carries *)
(* snapshots: the answer it will adopt, the place its loop has reached, a  *)
(* finalization already asked for.  CallSafe says what of a snapshot stays *)
(* true of the backend however late the operation resumes.                 *)
(***************************************************************************)
EXTENDS AssessmentTypes

CallSafe(call, scores) ==
    /\ call.stage = "answer" /\ call.ok =>
          call.item \in scores /\ (call.full => call.state.scores \subseteq scores)
    /\ call.op = "all" /\ call.stage \in {"request", "answer"} =>
          \A j \in Items : j < call.item => j \in scores
    /\ call.op = "submit" => TestSubmission = "individual"
    /\ call.stage \in {"finalize", "finalized"} /\ TestSubmission = "simultaneous" =>
          scores = Items

AllSafe(cs, scores) == \A c \in Calls : CallSafe(cs[c], scores)

Safe ==
    /\ NoPhantomResults
    /\ FinalizedComplete
    /\ AllSafe(calls, server.scores)

-----------------------------------------------------------------------------
(* What the operators on player records do to the results.                 *)

\* Marks and attempt counts leave the item results alone.
LEMMA MarkKeepsResults ==
    ASSUME NEW p \in Player, NEW i, NEW response
    PROVE  /\ MarkAnswered(p, i, response).results = p.results
           /\ RecordAttempt(p, i).results = p.results
BY DEF MarkAnswered, RecordAttempt, Player

\* Changing or persisting a session leaves the item results alone.
LEMMA SessionKeepsResults ==
    ASSUME NEW p \in Player, NEW i \in Items, NEW s \in Session
    PROVE  /\ Dispatched(p, s).results = p.results
           /\ SaveItemSession(p, i, s).results = p.results
           /\ SaveCurrentItemSession(p).results = p.results
BY DEF Dispatched, SaveItemSession, SaveCurrentItemSession, MarkAnswered, Player

\* Opening an item and navigating leave the item results alone.
LEMMA OpenKeepsResults ==
    ASSUME NEW p \in Player, NEW i \in Items
    PROVE  /\ OpenItem(p, i).results = p.results
           /\ NavigateTo(p, i).results = p.results
<1>1. \A q \in Player : OpenItem(q, i).results = q.results
  BY DEF OpenItem, Player
<1>2. SaveCurrentItemSession(p).results = p.results
  BY DEF SaveCurrentItemSession, SaveItemSession, MarkAnswered, Player
<1>. QED  BY <1>1, <1>2, SaveCurrentType DEF NavigateTo

\* Following a branch leaves the item results alone.
LEMMA BranchKeepsResults ==
    ASSUME NEW p \in Player, NEW branch \in Branch
    PROVE  Branched(p, branch).results = p.results
<1>1. \A i : OpenItem(p, i).results = p.results
  BY DEF OpenItem, Player
<1>2. [p EXCEPT !.done = TRUE].results = p.results
  BY DEF Player
<1>. QED  BY <1>1, <1>2 DEF Branched

\* Adopting an accepted item, with or without updatedState, adds to the results
\* only what the backend has accepted; the loop's includes the item itself.
LEMMA AcceptedResults ==
    ASSUME NEW p \in Player, NEW call \in PendingCall, NEW scores,
           p.results \subseteq scores, call.item \in scores,
           call.full => call.state.scores \subseteq scores
    PROVE  /\ ItemAccepted(p, call).results \subseteq scores
           /\ LoopAccepted(p, call).results \subseteq scores
           /\ call.item \in LoopAccepted(p, call).results
<1>. DEFINE known == (IF call.full THEN call.state.scores ELSE p.results) \cup {call.item}
<1>1. \A responses, sessions :
         ReplaceState(p, call.state, responses, sessions).results = call.state.scores
  BY DEF ReplaceState, Player
<1>2. ItemAccepted(p, call).results = known
  BY DEF ItemAccepted, ReplaceState, MarkAnswered, RecordAttempt, Player
<1>3. LoopAccepted(p, call).results = known
  BY DEF LoopAccepted, ReplaceState, RecordAttempt, Player
<1>4. known \subseteq scores
  OBVIOUS
<1>. QED  BY <1>2, <1>3, <1>4

\* A page starts with the results the backend has stored.
LEMMA BootResults ==
    ASSUME NEW state
    PROVE  Boot(state).results = state.scores
BY DEF Boot, OpenItem

-----------------------------------------------------------------------------
(* Safety of the calls.                                                    *)

\* A call that is idle carries nothing, and one that asks to finalize is safe
\* where it may ask.
LEMMA IdleSafe ==
    ASSUME NEW scores
    PROVE  /\ CallSafe(NoCall, scores)
           /\ TestSubmission = "individual" =>
                 CallSafe([NoCall EXCEPT !.stage = "finalize", !.op = "submit"], scores)
           /\ scores = Items =>
                 CallSafe([NoCall EXCEPT !.stage = "finalize", !.op = "all"], scores)
BY DEF CallSafe, NoCall

\* Releasing the live session makes no call unsafe.
LEMMA DetachedSafe ==
    ASSUME NEW cs \in [Calls -> OperationCall], NEW scores, AllSafe(cs, scores)
    PROVE  AllSafe(Detached(cs), scores)
<1>. SUFFICES ASSUME NEW c \in Calls
              PROVE  CallSafe([cs[c] EXCEPT !.holds = FALSE], scores)
  BY DEF AllSafe, Detached
<1>1. cs[c] \in Call
  BY DEF OperationCall
<1>2. CallSafe(cs[c], scores)
  BY DEF AllSafe
<1>. QED  BY <1>1, <1>2 DEF CallSafe, Call

\* A snapshot stays safe while the backend accepts more.
LEMMA SafeGrows ==
    ASSUME NEW call, NEW scores, NEW more \in SUBSET Items,
           CallSafe(call, scores), scores \subseteq more
    PROVE  CallSafe(call, more)
BY DEF CallSafe

\* Starting submitCurrentItem(), or failing to, changes no result and leaves the
\* calls safe.
LEMMA SubmitCurrentItemSafe ==
    ASSUME TypeOK, Safe, NEW c \in Calls, NEW op \in {"item", "next", "submit"}, NEW p \in Player,
           p.results \subseteq server.scores,
           op = "submit" => TestSubmission = "individual",
           SubmitCurrentItem(c, op, p)
    PROVE  player'.results \subseteq server.scores /\ AllSafe(calls', server.scores)
<1>1. p.live \in Session /\ p.current \in Items
  BY DEF Player
<1>2. CASE \E outcome \in OutcomesOf(p.current) :
             LET ended == EndAttempt(p.current, p.live, outcome)
             IN  /\ player' = Dispatched(p, ended)
                 /\ calls' = [calls EXCEPT ![c] =
                        [NoCall EXCEPT !.stage = "request", !.op = op,
                                       !.item = p.current,  !.holds = TRUE,
                                       !.pre = p.live,      !.ended = ended,
                                       !.value = ended.response]]
  <2>1. PICK ended \in Session :
             /\ player' = Dispatched(p, ended)
             /\ calls' = [calls EXCEPT ![c] =
                    [NoCall EXCEPT !.stage = "request", !.op = op,
                                   !.item = p.current,  !.holds = TRUE,
                                   !.pre = p.live,      !.ended = ended,
                                   !.value = ended.response]]
    BY <1>1, <1>2, EndAttemptType, OutcomesType
  <2>2. CallSafe([NoCall EXCEPT !.stage = "request", !.op = op,
                                !.item = p.current,  !.holds = TRUE,
                                !.pre = p.live,      !.ended = ended,
                                !.value = ended.response], server.scores)
    BY DEF CallSafe, NoCall
  <2>3. player'.results = p.results
    BY <1>1, <2>1, SessionKeepsResults
  <2>. QED  BY <2>1, <2>2, <2>3 DEF Safe, AllSafe, TypeOK
<1>3. CASE /\ player' = IF IsWritable(p.live) /\ Rejected(p) THEN Dispatched(p, p.live) ELSE p
           /\ calls' = Detached(calls)
  <2>1. player'.results = p.results
    BY <1>1, <1>3, SessionKeepsResults
  <2>. QED  BY <1>3, <2>1, DetachedSafe DEF Safe, TypeOK
<1>. QED  BY <1>2, <1>3 DEF SubmitCurrentItem

\* Leaving the loop of submit() with an error changes no result and leaves the
\* calls safe.
LEMMA AbortSubmitSafe ==
    ASSUME TypeOK, Safe, NEW c \in Calls, NEW p \in Player, NEW call \in Call,
           call.pre \in Session, p.results \subseteq server.scores,
           AbortSubmit(c, p, call)
    PROVE  player'.results \subseteq server.scores /\ AllSafe(calls', server.scores)
<1>1. call.first \in Items
  BY DEF Call
<1>2. Restored(p, call).results = p.results
  <2>1. SaveItemSession(p, call.first, call.pre) \in Player
    BY <1>1, SaveItemSessionType
  <2>2. SaveItemSession(p, call.first, call.pre).results = p.results
    BY <1>1, SessionKeepsResults
  <2>3. \A s : \A q \in Player : [q EXCEPT !.live = s].results = q.results
    BY DEF Player
  <2>. QED  BY <2>1, <2>2, <2>3 DEF Restored
<1>3. \A cs : cs \in [Calls -> OperationCall] /\ AllSafe(cs, server.scores)
               => AllSafe([cs EXCEPT ![c] = NoCall], server.scores)
  BY IdleSafe DEF AllSafe
<1>4. /\ calls \in [Calls -> OperationCall] /\ AllSafe(calls, server.scores)
      /\ Detached(calls) \in [Calls -> OperationCall] /\ AllSafe(Detached(calls), server.scores)
  BY DetachedType, DetachedSafe DEF TypeOK, Safe
<1>. QED  BY <1>2, <1>3, <1>4 DEF AbortSubmit

\* An item comes after the item a call is at, or not.
LEMMA ItemsOrdered ==
    ASSUME NEW call \in Call, NEW j \in Items
    PROVE  j <= call.item \/ j > call.item
<1>1. call.item \in Items \cup {0}
  BY DEF Call
<1>2. j \in Nat /\ call.item \in Nat
  <2>1. \A x \in Items : x \in Nat
    BY FirstItem
  <2>2. 0 \in Nat
    OBVIOUS
  <2>. QED  BY <1>1, <2>1, <2>2, Zenon
<1>. DEFINE i == call.item
<1>. HIDE DEF i
<1>3. i \in Nat
  BY <1>2 DEF i
<1>4. j <= i \/ j > i
  BY <1>2, <1>3
<1>. QED  BY <1>4 DEF i

\* One turn of the loop: every item up to the one it moves on from has been
\* accepted, so the loop ends only when all of them have.
LEMMA ContinueSubmitSafe ==
    ASSUME TypeOK, Safe, NEW c \in Calls, NEW p \in Player, NEW call \in Call,
           call.op = "all", call.pre \in Session, call.sessions[call.first] \in Session,
           p.results \subseteq server.scores,
           \A j \in Items : j <= call.item => j \in server.scores,
           ContinueSubmit(c, p, call)
    PROVE  player'.results \subseteq server.scores /\ AllSafe(calls', server.scores)
<1>. DEFINE pending == Pending(p, call)
            i       == Min(pending)
            session == SessionToEnd(p, call, i)
            final   == [NoCall EXCEPT !.stage = "finalize", !.op = "all"]
            Turn(outcome) ==
                LET ended == EndAttempt(i, session, outcome)
                IN  /\ player' = IF UsesLive(p, i) THEN Dispatched(p, ended) ELSE p
                    /\ calls' = [calls EXCEPT ![c] =
                          [call EXCEPT !.stage = "request",
                                       !.item = i,
                                       !.ended = ended,
                                       !.value = call.responses[i],
                                       !.sessions[i] = ended]]
<1>1. \A j \in Items : j <= call.item \/ j > call.item
  BY ItemsOrdered
<1>2. \A j \in Items : j \in pending \/ j \in server.scores
  BY <1>1 DEF Pending
<1>3. CASE pending = {}
  <2>1. server.scores = Items
    BY <1>2, <1>3 DEF TypeOK, Server
  <2>2. CallSafe(final, server.scores)
    BY <2>1, IdleSafe
  <2>3. player' \in {p, [p EXCEPT !.live = call.sessions[p.current]]}
    BY <1>3 DEF ContinueSubmit
  <2>4. player'.results = p.results
    BY <2>3 DEF Player
  <2>5. calls' \in {[calls EXCEPT ![c] = final], [Detached(calls) EXCEPT ![c] = final]}
    BY <1>3 DEF ContinueSubmit
  <2>6. /\ calls \in [Calls -> OperationCall] /\ AllSafe(calls, server.scores)
        /\ Detached(calls) \in [Calls -> OperationCall]
        /\ AllSafe(Detached(calls), server.scores)
    BY DetachedType, DetachedSafe DEF TypeOK, Safe
  <2>. HIDE DEF final
  <2>. QED  BY <2>2, <2>4, <2>5, <2>6 DEF AllSafe
<1>4. CASE pending # {} /\ ~CanEndAttempt(i, session)
  BY <1>4, AbortSubmitSafe DEF ContinueSubmit
<1>5. CASE pending # {} /\ CanEndAttempt(i, session)
  <2>1. pending \subseteq Items
    BY DEF Pending
  <2>2. i \in Items /\ \A j \in pending : i <= j
    BY <1>5, <2>1, FirstItem, MinProperties
  <2>3. \A j \in Items : j < i => j \in server.scores
    <3>1. \A j \in Items : ~(i <= j /\ j < i)
      <4>. HIDE DEF i, session, pending
      <4>1. i \in Nat
        BY <2>2, FirstItem
      <4>. SUFFICES ASSUME NEW j \in Items PROVE ~(i <= j /\ j < i)
        OBVIOUS
      <4>2. j \in Nat
        BY FirstItem
      <4>. QED  BY <4>1, <4>2
    <3>. QED  BY <1>2, <2>2, <3>1
  <2>4. PICK outcome \in OutcomesOf(i) : Turn(outcome)
    BY <1>5 DEF ContinueSubmit
  <2>. DEFINE ended == EndAttempt(i, session, outcome)
              next  == [call EXCEPT !.stage = "request",
                                    !.item = i,
                                    !.ended = ended,
                                    !.value = call.responses[i],
                                    !.sessions[i] = ended]
  <2>5. ended \in Session
    BY <2>2, SessionToEndType, OutcomesType, EndAttemptType
  <2>6. /\ player' = IF UsesLive(p, i) THEN Dispatched(p, ended) ELSE p
        /\ calls' = [calls EXCEPT ![c] = next]
    BY <2>4
  <2>. HIDE DEF ended, i, session, pending
  <2>7. player'.results = p.results
    BY <2>2, <2>5, <2>6, SessionKeepsResults
  <2>8. next.stage = "request" /\ next.op = "all" /\ next.item = i
    BY DEF Call
  <2>. HIDE DEF next
  <2>9. CallSafe(next, server.scores)
    BY <2>3, <2>8 DEF CallSafe
  <2>. QED  BY <2>6, <2>7, <2>9 DEF Safe, AllSafe, TypeOK
<1>. QED  BY <1>3, <1>4, <1>5
-----------------------------------------------------------------------------
(* The invariant.                                                          *)

\* A step of the client leaves the backend alone.
LEMMA ClientStep ==
    ASSUME Safe, UNCHANGED <<server, finalized>>,
           player'.results \subseteq server.scores, AllSafe(calls', server.scores)
    PROVE  Safe'
BY DEF Safe, NoPhantomResults, FinalizedComplete, AllSafe, CallSafe

\* The steps of the candidate keep the invariant.
LEMMA UserSafe ==
    ASSUME TypeOK, Safe, User
    PROVE  Safe'
<1>1. /\ player \in Player /\ player.current \in Items /\ player.live \in Session
      /\ player.results \subseteq server.scores
      /\ calls \in [Calls -> OperationCall]
      /\ AllSafe(calls, server.scores) /\ AllSafe(Detached(calls), server.scores)
  BY DetachedSafe DEF TypeOK, Player, Safe, NoPhantomResults
<1>2. ASSUME NEW v \in Responses, Respond(v)
      PROVE  Safe'
  <2>1. player'.results = player.results
    BY <1>1, <1>2, SetResponseType, SessionKeepsResults DEF Respond
  <2>. QED  BY <1>1, <1>2, <2>1, ClientStep DEF Respond
<1>3. ASSUME NEW i \in Items, NEW v \in Responses, RespondElsewhere(i, v)
      PROVE  Safe'
  <2>. DEFINE p == [player EXCEPT !.responses[i] = v]
  <2>1. p \in Player /\ p.results = player.results
    BY <1>1 DEF Player
  <2>2. player' = MarkAnswered(p, i, v) /\ UNCHANGED <<calls, server, finalized>>
    BY <1>3 DEF RespondElsewhere
  <2>. HIDE DEF p
  <2>3. player'.results = player.results
    BY <2>1, <2>2, MarkKeepsResults
  <2>. QED  BY <1>1, <2>2, <2>3, ClientStep
<1>4. ASSUME NEW i \in Items, Navigate(i)
      PROVE  Safe'
  <2>1. player'.results = player.results
    BY <1>1, <1>4, OpenKeepsResults DEF Navigate
  <2>. QED  BY <1>1, <1>4, <2>1, ClientStep DEF Navigate
<1>5. ASSUME NEW c \in Calls, SubmitItem(c)
      PROVE  Safe'
  BY <1>1, <1>5, SubmitCurrentItemSafe, ClientStep DEF SubmitItem
<1>6. ASSUME NEW c \in Calls, NextItem(c)
      PROVE  Safe'
  <2>. DEFINE i == player.current
              p == MarkAnswered(player, i, player.responses[player.currentId])
  <2>1. player.responses[player.currentId] \in Responses
    BY <1>1 DEF Player
  <2>2. p \in Player /\ p.results = player.results
    BY <1>1, <2>1, MarkAnsweredType, MarkKeepsResults
  <2>3. i + 1 \in Items
    BY <1>6 DEF NextItem, CanNext
  <2>4. UNCHANGED <<server, finalized>>
    BY <1>6 DEF NextItem
  <2>. HIDE DEF p
  <2>5. CASE player' = p /\ UNCHANGED calls
    BY <1>1, <2>2, <2>4, <2>5, ClientStep
  <2>6. CASE SubmitCurrentItem(c, "next", p)
    BY <1>1, <2>2, <2>4, <2>6, SubmitCurrentItemSafe, ClientStep
  <2>7. CASE /\ player' = IF CanReview(p, i + 1) THEN NavigateTo(p, i + 1) ELSE p
             /\ calls' = IF CanReview(p, i + 1) THEN Detached(calls) ELSE calls
    <3>1. player'.results = player.results
      BY <2>2, <2>3, <2>7, OpenKeepsResults
    <3>. QED  BY <1>1, <2>4, <2>7, <3>1, ClientStep
  <2>. QED  BY <1>6, <2>5, <2>6, <2>7 DEF NextItem, p
<1>7. ASSUME NEW c \in Calls, SubmitTest(c)
      PROVE  Safe'
  <2>. DEFINE p    == SaveCurrentItemSession(player)
              call == [NoCall EXCEPT !.op = "all",
                                     !.pre = player.live,
                                     !.first = p.current,
                                     !.responses = p.responses,
                                     !.sessions = p.sessions]
  <2>1. p \in Player /\ p.current \in Items /\ p.results = player.results
    BY <1>1, SaveCurrentType, SessionKeepsResults DEF Player
  <2>2. UNCHANGED <<server, finalized>>
    BY <1>7 DEF SubmitTest
  <2>3. CASE ContinueSubmit(c, p, call)
    <3>1. p.sessions[p.current] \in Session
      <4>1. SuspendAttempt(player.live) \in Session
        BY <1>1, SuspendType
      <4>. QED  BY <1>1, <4>1 DEF SaveCurrentItemSession, SaveItemSession, MarkAnswered, Player
    <3>. HIDE DEF p
    <3>2. call \in Call
      BY <1>1, <2>1, NoCallType DEF Call, Player, SessionOrNone
    <3>3. /\ call.op = "all" /\ call.pre = player.live /\ call.item = 0
          /\ call.sessions[call.first] = p.sessions[p.current]
      BY NoCallType DEF Call, NoCall
    <3>. HIDE DEF call
    <3>4. \A j \in Items : ~(j <= 0)
      BY SessionAssumption
    <3>. QED  BY <1>1, <2>1, <2>2, <2>3, <3>1, <3>2, <3>3, <3>4, ContinueSubmitSafe, ClientStep
  <2>4. CASE /\ TestSubmission = "individual"
             /\ calls' = [calls EXCEPT ![c] =
                             [NoCall EXCEPT !.stage = "finalize", !.op = "submit"]]
             /\ UNCHANGED player
    <3>1. AllSafe(calls', server.scores)
      BY <1>1, <2>4, IdleSafe DEF AllSafe
    <3>. QED  BY <1>1, <2>2, <2>4, <3>1, ClientStep
  <2>5. CASE TestSubmission = "individual" /\ SubmitCurrentItem(c, "submit", player)
    BY <1>1, <2>2, <2>5, SubmitCurrentItemSafe, ClientStep
  <2>. QED  BY <1>7, <2>3, <2>4, <2>5, PlayerAssumption DEF SubmitTest
<1>. QED  BY <1>2, <1>3, <1>4, <1>5, <1>6, <1>7 DEF User
\* The backend marks a request answered: nothing else of it changes.
LEMMA AnsweredSafe ==
    ASSUME NEW call \in Call, NEW scores, NEW ok \in BOOLEAN, NEW full \in BOOLEAN,
           NEW state, NEW branch, call.stage = "request", CallSafe(call, scores),
           ok => call.item \in scores /\ (full => state.scores \subseteq scores)
    PROVE  CallSafe([call EXCEPT !.stage = "answer", !.ok = ok, !.full = full,
                                 !.state = state, !.branch = branch], scores)
BY DEF CallSafe, Call

\* The steps of the backend keep the invariant: it accepts more, never less,
\* and finalizes only when asked by a call that is safe.
LEMMA BackendSafe ==
    ASSUME TypeOK, Safe, NEW c \in Calls, Backend(c)
    PROVE  Safe'
<1>1. /\ calls \in [Calls -> OperationCall]
      /\ calls[c] \in Call
      /\ server.scores \in SUBSET Items
      /\ CallSafe(calls[c], server.scores)
  BY DEF TypeOK, OperationCall, Server, Safe, AllSafe
<1>. DEFINE more == server.scores \cup {calls[c].item}
<1>2. Scored(calls[c]).scores = more
  BY DEF Scored
<1>3. ASSUME calls[c].stage = "request"
      PROVE  /\ calls[c].item \in Items
             /\ more \in SUBSET Items
             /\ \A d \in Calls : CallSafe(calls[d], more)
  <2>1. calls[c].item \in Items
    BY <1>1, <1>3 DEF OperationCall, PendingCall
  <2>. QED  BY <1>1, <2>1, SafeGrows DEF Safe, AllSafe
\* A request processed by the backend, with an answer that arrives or not.
<1>4. ASSUME NEW ok \in BOOLEAN, NEW full \in BOOLEAN, NEW state, NEW branch,
             calls[c].stage = "request", ~finalized, UNCHANGED <<player, finalized>>,
             server' = Scored(calls[c]),
             ok /\ full => state = Scored(calls[c]),
             calls' = [calls EXCEPT ![c] =
                          [calls[c] EXCEPT !.stage = "answer", !.ok = ok, !.full = full,
                                           !.state = state, !.branch = branch]]
      PROVE  Safe'
  <2>. DEFINE call == [calls[c] EXCEPT !.stage = "answer", !.ok = ok, !.full = full,
                                       !.state = state, !.branch = branch]
  <2>1. server'.scores = more /\ server.scores \subseteq more
    BY <1>2, <1>4
  <2>2. CallSafe(call, more)
    BY <1>1, <1>2, <1>3, <1>4, AnsweredSafe
  <2>3. calls' = [calls EXCEPT ![c] = call]
    BY <1>4
  <2>. HIDE DEF call, more
  <2>4. AllSafe(calls', more)
    BY <1>1, <1>3, <1>4, <2>2, <2>3 DEF AllSafe
  <2>5. player'.results \subseteq more /\ ~finalized'
    BY <1>4, <2>1 DEF Safe, NoPhantomResults
  <2>. QED  BY <2>1, <2>4, <2>5 DEF Safe, NoPhantomResults, FinalizedComplete, AllSafe, CallSafe
<1>5. CASE BackendScores(c)
  <2>1. PICK full \in UpdatedState, branch \in Branches[calls[c].item] :
          calls' = [calls EXCEPT ![c].stage = "answer",
                                 ![c].ok = TRUE,
                                 ![c].full = full,
                                 ![c].state = IF full THEN Scored(calls[c]) ELSE @,
                                 ![c].branch = branch]
    BY <1>5 DEF BackendScores
  <2>. DEFINE state == IF full THEN Scored(calls[c]) ELSE calls[c].state
  <2>2. full \in BOOLEAN
    BY PlayerAssumption
  <2>3. calls' = [calls EXCEPT ![c] =
                     [calls[c] EXCEPT !.stage = "answer", !.ok = TRUE, !.full = full,
                                      !.state = state, !.branch = branch]]
    BY <2>1
  <2>4. full => state = Scored(calls[c])
    OBVIOUS
  <2>. HIDE DEF state
  <2>. QED  BY <1>4, <1>5, <2>2, <2>3, <2>4 DEF BackendScores
<1>6. CASE AnswerLost(c)
  <2>1. calls' = [calls EXCEPT ![c] =
                     [calls[c] EXCEPT !.stage = "answer", !.ok = FALSE,
                                      !.full = calls[c].full, !.state = calls[c].state,
                                      !.branch = calls[c].branch]]
    BY <1>1, <1>6 DEF AnswerLost, Call
  <2>2. calls[c].full \in BOOLEAN
    BY <1>1 DEF Call
  <2>3. /\ calls[c].stage = "request" /\ ~finalized /\ UNCHANGED <<player, finalized>>
        /\ server' = Scored(calls[c])
    BY <1>6 DEF AnswerLost
  <2>. DEFINE full == calls[c].full
              state == calls[c].state
              branch == calls[c].branch
  <2>4. calls' = [calls EXCEPT ![c] =
                     [calls[c] EXCEPT !.stage = "answer", !.ok = FALSE, !.full = full,
                                      !.state = state, !.branch = branch]]
    BY <2>1
  <2>. HIDE DEF full, state, branch
  <2>5. full \in BOOLEAN
    BY <2>2 DEF full
  <2>. QED  BY <1>4, <2>3, <2>4, <2>5
<1>7. CASE BackendRefuses(c)
  <2>1. CallSafe([calls[c] EXCEPT !.stage = "answer", !.ok = FALSE], server.scores)
    BY <1>1, <1>7 DEF BackendRefuses, CallSafe, Call
  <2>2. AllSafe(calls', server.scores)
    BY <1>1, <1>7, <2>1 DEF BackendRefuses, Safe, AllSafe
  <2>. QED  BY <1>7, <2>2, ClientStep DEF BackendRefuses, Safe, NoPhantomResults
<1>8. ASSUME NEW ok \in BOOLEAN, calls[c].stage = "finalize", UNCHANGED <<player, server>>,
             calls' = [calls EXCEPT ![c].stage = "finalized", ![c].ok = ok]
      PROVE  AllSafe(calls', server.scores)
  <2>1. CallSafe([calls[c] EXCEPT !.stage = "finalized", !.ok = ok], server.scores)
    BY <1>1, <1>8 DEF CallSafe, Call
  <2>. QED  BY <1>1, <1>8, <2>1 DEF Safe, AllSafe
<1>9. CASE BackendFinalizes(c)
  <2>1. AllSafe(calls', server.scores)
    BY <1>8, <1>9 DEF BackendFinalizes
  <2>2. TestSubmission = "simultaneous" => server.scores = Items
    BY <1>1, <1>9 DEF BackendFinalizes, CallSafe
  <2>3. UNCHANGED <<player, server>>
    BY <1>9 DEF BackendFinalizes
  <2>. QED  BY <2>1, <2>2, <2>3 DEF Safe, NoPhantomResults, FinalizedComplete, AllSafe, CallSafe
<1>10. CASE FinalizeRefused(c)
  <2>1. AllSafe(calls', server.scores)
    BY <1>8, <1>10 DEF FinalizeRefused
  <2>. QED  BY <1>10, <2>1, ClientStep DEF FinalizeRefused, Safe, NoPhantomResults
<1>. QED  BY <1>5, <1>6, <1>7, <1>9, <1>10 DEF Backend

\* Resuming a call keeps the invariant, however late it is resumed.
LEMMA ResumeSafe ==
    ASSUME TypeOK, Safe, NEW c \in Calls, Resume(c)
    PROVE  Safe'
<1>. DEFINE call == calls[c]
<1>1. /\ player \in Player
      /\ player.results \subseteq server.scores
      /\ calls \in [Calls -> OperationCall]
      /\ AllSafe(calls, server.scores) /\ AllSafe(Detached(calls), server.scores)
      /\ CallSafe(call, server.scores)
      /\ call \in Call
      /\ call.stage = "answer" => call \in PendingCall
  BY DetachedSafe DEF TypeOK, OperationCall, Safe, NoPhantomResults, AllSafe
<1>2. \A next : \A cs \in {calls, Detached(calls)} :
         CallSafe(next, server.scores) => AllSafe([cs EXCEPT ![c] = next], server.scores)
  BY <1>1, DetachedType DEF AllSafe
<1>3. CASE ResumeItem(c)
  <2>. DEFINE accepted == ItemAccepted(player, call)
              branched == Branched(accepted, call.branch)
              next     == IF call.op = "submit"
                          THEN [NoCall EXCEPT !.stage = "finalize", !.op = "submit"]
                          ELSE NoCall
  <2>1. call \in PendingCall /\ call.ok /\ call.stage = "answer"
    BY <1>1, <1>3 DEF ResumeItem
  <2>2. call.item \in server.scores /\ (call.full => call.state.scores \subseteq server.scores)
    BY <1>1, <2>1 DEF CallSafe
  <2>3. accepted \in Player /\ accepted.results \subseteq server.scores
    BY <1>1, <2>1, <2>2, ItemAcceptedType, AcceptedResults
  <2>. HIDE DEF accepted
  <2>4. branched \in Player /\ branched.results \subseteq server.scores
    BY <2>1, <2>3, BranchedType, BranchKeepsResults DEF PendingCall, Call
  <2>. HIDE DEF branched
  <2>5. GoesOn(branched, call) =>
           NavigateTo(branched, branched.current + 1).results \subseteq server.scores
    BY <2>1, <2>4, OpenKeepsResults DEF GoesOn, PendingCall
  <2>6. /\ player' = IF GoesOn(branched, call)
                     THEN NavigateTo(branched, branched.current + 1)
                     ELSE branched
        /\ \E cs \in {calls, Detached(calls)} : calls' = [cs EXCEPT ![c] = next]
        /\ UNCHANGED <<server, finalized>>
    BY <1>3 DEF ResumeItem, branched, accepted
  <2>7. CallSafe(next, server.scores)
    BY <1>1, IdleSafe DEF CallSafe
  <2>8. player'.results \subseteq server.scores
    BY <2>4, <2>5, <2>6
  <2>. HIDE DEF next
  <2>. QED  BY <1>2, <2>6, <2>7, <2>8, ClientStep
<1>4. CASE ResumeItemFailed(c)
  <2>1. [player EXCEPT !.live = call.pre].results = player.results
    BY <1>1 DEF Player
  <2>2. /\ player' \in {player, [player EXCEPT !.live = call.pre]}
        /\ \E cs \in {calls, Detached(calls)} : calls' = [cs EXCEPT ![c] = NoCall]
        /\ UNCHANGED <<server, finalized>>
    BY <1>4 DEF ResumeItemFailed
  <2>3. AllSafe(calls', server.scores)
    BY <1>2, <2>2, IdleSafe
  <2>4. player'.results \subseteq server.scores
    BY <1>1, <2>1, <2>2
  <2>. QED  BY <2>2, <2>3, <2>4, ClientStep
<1>5. CASE ResumeAll(c)
  <2>. DEFINE p == LoopAccepted(player, call)
  <2>1. call \in PendingCall /\ call.op = "all" /\ call.ok /\ call.stage = "answer"
    BY <1>1, <1>5 DEF ResumeAll
  <2>2. /\ call.item \in server.scores
        /\ call.full => call.state.scores \subseteq server.scores
        /\ \A j \in Items : j < call.item => j \in server.scores
    BY <1>1, <2>1 DEF CallSafe
  <2>3. p \in Player /\ p.results \subseteq server.scores
    BY <1>1, <2>1, <2>2, LoopAcceptedType, AcceptedResults
  <2>4. \A j \in Items : j <= call.item => j \in server.scores
    <3>1. call.item \in Items
      BY <2>1 DEF PendingCall
    <3>2. \A i, j \in Items : j <= i => j = i \/ j < i
      BY SessionAssumption
    <3>. QED  BY <2>2, <3>1, <3>2
  <2>5. /\ ContinueSubmit(c, p, call)
        /\ UNCHANGED <<server, finalized>>
    BY <1>5 DEF ResumeAll
  <2>6. call.pre \in Session /\ call.sessions[call.first] \in Session
    BY <2>1 DEF PendingCall
  <2>. HIDE DEF call, p
  <2>. QED  BY <1>1, <2>1, <2>3, <2>4, <2>5, <2>6, ContinueSubmitSafe, ClientStep
<1>6. CASE ResumeAllFailed(c)
  <2>1. call \in PendingCall
    BY <1>1, <1>6 DEF ResumeAllFailed
  <2>2. AbortSubmit(c, player, call) /\ UNCHANGED <<server, finalized>>
    BY <1>6 DEF ResumeAllFailed
  <2>3. call.pre \in Session
    BY <2>1 DEF PendingCall
  <2>. HIDE DEF call
  <2>. QED  BY <1>1, <2>2, <2>3, AbortSubmitSafe, ClientStep
<1>7. CASE ResumeFinalized(c)
  <2>1. [player EXCEPT !.done = TRUE].results = player.results
    BY <1>1 DEF Player
  <2>. QED  BY <1>1, <1>2, <1>7, <2>1, IdleSafe, ClientStep DEF ResumeFinalized
<1>. QED  BY <1>3, <1>4, <1>5, <1>6, <1>7 DEF Resume

\* The invariant holds of a new session.
LEMMA InitSafe == Init => Safe
BY BootResults, IdleSafe DEF Init, Safe, NoPhantomResults, FinalizedComplete, AllSafe, EmptyServer

\* A reload keeps the invariant: the new page knows what the backend stored.
LEMMA ReloadSafe ==
    ASSUME TypeOK, Safe, Reload
    PROVE  Safe'
<1>1. player'.results = server.scores
  BY BootResults DEF Reload
<1>2. AllSafe(calls', server.scores)
  BY IdleSafe DEF Reload, AllSafe
<1>. QED  BY <1>1, <1>2, ClientStep DEF Reload

\* Every step keeps the invariant.
LEMMA NextSafe == TypeOK /\ Safe /\ [Next]_vars => Safe'
<1>. SUFFICES ASSUME TypeOK, Safe, [Next]_vars
              PROVE  Safe'
  OBVIOUS
<1>1. CASE User
  BY <1>1, UserSafe
<1>2. ASSUME NEW c \in Calls, Backend(c)
      PROVE  Safe'
  BY <1>2, BackendSafe
<1>3. ASSUME NEW c \in Calls, Resume(c)
      PROVE  Safe'
  BY <1>3, ResumeSafe
<1>4. CASE Reload
  BY <1>4, ReloadSafe
<1>5. CASE UNCHANGED vars
  BY <1>5 DEF vars, Safe, NoPhantomResults, FinalizedComplete, AllSafe, CallSafe
<1>. QED  BY <1>1, <1>2, <1>3, <1>4, <1>5 DEF Next

\* The results a client shows, the completeness of a finalized test and the
\* safety of every snapshot in flight: the inductive invariant of the two
\* theorems after it and of the refinement.
THEOREM SafeAlways == Spec => []Safe
BY InitSafe, NextSafe, TypeCorrect, PTL DEF Spec

\* The client never shows an item as submitted that the backend has not
\* accepted, whatever stale answer submitCurrentItem() or submit() adopts,
\* for any number of overlapping operations.
THEOREM NoPhantomResultsCorrect == Spec => []NoPhantomResults
<1>1. Safe => NoPhantomResults
  BY DEF Safe
<1>. QED  BY <1>1, SafeAlways, PTL

\* submit() of a simultaneous test finalizes only when the backend has
\* accepted every item, though overlapping loops skip each other's items.
THEOREM FinalizedCompleteCorrect == Spec => []FinalizedComplete
<1>1. Safe => FinalizedComplete
  BY DEF Safe
<1>. QED  BY <1>1, SafeAlways, PTL
-----------------------------------------------------------------------------
(* The refinement.                                                         *)

\* What a step of the client does to the ledger is to learn, or nothing.
LEMMA ClientLearns ==
    ASSUME Safe', UNCHANGED <<server, finalized>>
    PROVE  Ledger!Learn
BY DEF Ledger!Learn, Safe, NoPhantomResults

\* No step of the client changes what the backend has stored.
LEMMA ClientLeavesBackend ==
    ASSUME User \/ Reload \/ \E c \in Calls : Resume(c)
    PROVE  UNCHANGED <<server, finalized>>
<1>1. CASE User
  BY <1>1 DEF User, Respond, RespondElsewhere, Navigate, SubmitItem, NextItem, SubmitTest
<1>2. CASE Reload
  BY <1>2 DEF Reload
<1>3. CASE \E c \in Calls : Resume(c)
  BY <1>3 DEF Resume, ResumeItem, ResumeItemFailed, ResumeAll, ResumeAllFailed, ResumeFinalized
<1>. QED  BY <1>1, <1>2, <1>3

\* Every step of the backend is Accept or Close of the ledger, or changes
\* nothing of it.
LEMMA BackendKeepsLedger ==
    ASSUME TypeOK, Safe, NEW c \in Calls, Backend(c)
    PROVE  [Ledger!Next]_(Ledger!ledger)
<1>1. calls[c].stage = "request" => calls[c].item \in Items
  BY DEF TypeOK, OperationCall, PendingCall
<1>2. Scored(calls[c]).scores = server.scores \cup {calls[c].item}
  BY DEF Scored
<1>3. CASE BackendScores(c) \/ AnswerLost(c)
  <2>1. /\ calls[c].stage = "request" /\ ~finalized
        /\ server' = Scored(calls[c]) /\ UNCHANGED <<player, finalized>>
    BY <1>3 DEF BackendScores, AnswerLost
  <2>2. Ledger!Accept(calls[c].item)
    BY <1>2, <2>1 DEF Ledger!Accept
  <2>. QED  BY <1>1, <2>1, <2>2 DEF Ledger!Next
<1>4. CASE BackendFinalizes(c)
  <2>1. CallSafe(calls[c], server.scores)
    BY DEF Safe, AllSafe
  <2>2. Ledger!Close
    BY <1>4, <2>1 DEF BackendFinalizes, CallSafe, Ledger!Close
  <2>. QED  BY <2>2 DEF Ledger!Next
<1>5. CASE BackendRefuses(c) \/ FinalizeRefused(c)
  BY <1>5 DEF BackendRefuses, FinalizeRefused, Ledger!ledger
<1>. QED  BY <1>3, <1>4, <1>5 DEF Backend

\* The session implements AssessmentLedger: the backend's steps are Accept and
\* Close, the client's are Learn, and everything else stutters.
THEOREM LedgerKept == Spec => KeepsLedger
<1>1. Init => Ledger!Init
  BY BootResults DEF Init, EmptyServer, Ledger!Init
<1>2. TypeOK /\ Safe /\ Safe' /\ [Next]_vars => [Ledger!Next]_(Ledger!ledger)
  <2>. SUFFICES ASSUME TypeOK, Safe, Safe', [Next]_vars
                PROVE  [Ledger!Next]_(Ledger!ledger)
    OBVIOUS
  <2>1. CASE User \/ Reload \/ \E c \in Calls : Resume(c)
    BY <2>1, ClientLearns, ClientLeavesBackend DEF Ledger!Next
  <2>2. ASSUME NEW c \in Calls, Backend(c)
        PROVE  [Ledger!Next]_(Ledger!ledger)
    BY <2>2, BackendKeepsLedger
  <2>3. CASE UNCHANGED vars
    BY <2>3 DEF vars, Ledger!ledger
  <2>. QED  BY <2>1, <2>2, <2>3 DEF Next
<1>. QED  BY <1>1, <1>2, TypeCorrect, SafeAlways, PTL DEF Spec, KeepsLedger, Ledger!Spec
=============================================================================
