---------------------------- MODULE AssessmentTypes ----------------------------
(***************************************************************************)
(* Type correctness of AssessmentPlayer: the lemmas about the operators on *)
(* sessions and player records, and TypeOK as an invariant of Spec.        *)
(***************************************************************************)
EXTENDS AssessmentPlayer, WellFoundedInduction, TLAPS

-----------------------------------------------------------------------------
(* Items are the numbers from 1, and the least of some of them exists.     *)

\* A nonempty set of naturals has a least member, and Min is it.
LEMMA MinProperties ==
    ASSUME NEW S, S \subseteq Nat, S # {}
    PROVE  Min(S) \in S /\ \A y \in S : Min(S) <= y
<1>1. PICK x \in S : \A y \in S : ~(<<y, x>> \in OpToRel(<, Nat))
  BY NatLessThanWellFounded, WFMin
<1>2. \A y \in S : x <= y
  <2> SUFFICES ASSUME NEW y \in S PROVE x <= y
    OBVIOUS
  <2>1. ~(<<y, x>> \in OpToRel(<, Nat))
    BY <1>1
  <2>2. x \in Nat /\ y \in Nat
    OBVIOUS
  <2>. QED  BY <2>1, <2>2 DEF OpToRel
<1>. QED  BY <1>2 DEF Min

\* Items are naturals, and the first is 1.
LEMMA FirstItem == Items \subseteq Nat /\ 1 \in Items
BY SessionAssumption

-----------------------------------------------------------------------------
(* Sessions.                                                               *)

\* A session opened afresh is a session.
LEMMA NewSessionType ==
    ASSUME NEW response \in Responses
    PROVE  NewSession(response) \in Session
BY DEF NewSession, Session, Lifecycles, CompletionStatuses

\* Activating a session gives a session.
LEMMA ActivateType ==
    ASSUME NEW s \in Session
    PROVE  ActivateAttempt(s) \in Session
BY DEF ActivateAttempt, Session, Lifecycles

\* Suspending a session gives a session with the same response.
LEMMA SuspendType ==
    ASSUME NEW s \in Session
    PROVE  SuspendAttempt(s) \in Session /\ SuspendAttempt(s).response = s.response
BY DEF SuspendAttempt, Session, Lifecycles

\* Setting a response gives a session.
LEMMA SetResponseType ==
    ASSUME NEW s \in Session, NEW response \in Responses
    PROVE  SetResponse(s, response) \in Session
BY DEF SetResponse, Session

\* Ending an attempt gives a session.
LEMMA EndAttemptType ==
    ASSUME NEW s \in Session, NEW i \in Items, NEW outcome \in Outcomes
    PROVE  EndAttempt(i, s, outcome) \in Session
<1>. DEFINE completion == IF i \in Adaptive THEN AdaptiveCompletion(s, outcome)
                                            ELSE "completed"
            lifecycle  == IF completion = "completed" THEN "closed" ELSE "interacting"
<1>1. completion \in CompletionStatuses
  BY DEF AdaptiveCompletion, Session, CompletionStatuses, Outcomes
<1>2. lifecycle \in Lifecycles
  BY DEF Lifecycles
<1>3. s.attempts + 1 \in Nat
  BY DEF Session
<1>. HIDE DEF completion, lifecycle
<1>4. [s EXCEPT !.attempts = @ + 1, !.completion = completion, !.lifecycle = lifecycle]
        \in Session
  BY <1>1, <1>2, <1>3 DEF Session
<1>. QED  BY <1>4 DEF EndAttempt, completion, lifecycle

\* What is persisted for an item, when something is, is a session.
LEMMA SavedType ==
    ASSUME NEW s \in SessionOrNone, s # NoSession
    PROVE  s \in Session
BY DEF SessionOrNone

-----------------------------------------------------------------------------
(* Player records.                                                         *)

\* Marking an item answered, or not answered, gives a player.
LEMMA MarkAnsweredType ==
    ASSUME NEW p \in Player, NEW i \in Items, NEW response \in Responses
    PROVE  MarkAnswered(p, i, response) \in Player
<1>. DEFINE answered == IF response = Unanswered THEN p.answered \ {i}
                                                 ELSE p.answered \cup {i}
<1>1. answered \in SUBSET Items
  BY DEF Player
<1>2. MarkAnswered(p, i, response) = [p EXCEPT !.answered = answered]
  BY DEF MarkAnswered
<1>. HIDE DEF answered
<1>. QED  BY <1>1, <1>2 DEF Player

\* Recording an attempt gives a player.
LEMMA RecordAttemptType ==
    ASSUME NEW p \in Player, NEW i \in Items
    PROVE  RecordAttempt(p, i) \in Player
<1>1. [p.attempts EXCEPT ![i] = @ + 1] \in [Items -> Nat]
  BY DEF Player
<1>2. p.submitted \cup {i} \in SUBSET Items
  BY DEF Player
<1>. QED  BY <1>1, <1>2 DEF RecordAttempt, Player

\* Replacing the live session and mirroring its response gives a player.
LEMMA DispatchedType ==
    ASSUME NEW p \in Player, NEW s \in Session
    PROVE  Dispatched(p, s) \in Player
<1>1. s.response \in Responses
  BY DEF Session
<1>2. [p EXCEPT !.live = s] \in Player
  BY DEF Player
<1>3. [p EXCEPT !.live = s, !.responses[p.current] = s.response] \in Player
  BY <1>1 DEF Player
<1>4. p.current \in Items
  BY DEF Player
<1>. QED  BY <1>1, <1>2, <1>3, <1>4, MarkAnsweredType DEF Dispatched

\* Persisting a session gives a player.
LEMMA SaveItemSessionType ==
    ASSUME NEW p \in Player, NEW i \in Items, NEW s \in Session
    PROVE  SaveItemSession(p, i, s) \in Player
<1>1. s.response \in Responses
  BY DEF Session
<1>2. [p EXCEPT !.sessions[i] = s, !.responses[i] = s.response] \in Player
  BY <1>1 DEF Player, SessionOrNone
<1>. QED  BY <1>1, <1>2, MarkAnsweredType DEF SaveItemSession

\* Persisting the live session gives a player.
LEMMA SaveCurrentType ==
    ASSUME NEW p \in Player
    PROVE  SaveCurrentItemSession(p) \in Player
<1>. DEFINE saved == IF IsWritable(p.live) THEN SuspendAttempt(p.live) ELSE p.live
<1>1. saved \in Session
  <2>1. p.live \in Session
    BY DEF Player
  <2>. QED  BY <2>1, SuspendType
<1>. HIDE DEF saved
<1>2. [p EXCEPT !.live = saved] \in Player /\ p.current \in Items
  BY <1>1 DEF Player
<1>3. SaveItemSession([p EXCEPT !.live = saved], p.current, saved) \in Player
  BY <1>1, <1>2, SaveItemSessionType
<1>. QED  BY <1>3 DEF SaveCurrentItemSession, saved

\* The effective item session control of an item is a setting of each control.
LEMMA SettingsType ==
    ASSUME NEW settings \in Settings, NEW i \in Items
    PROVE  EffectiveSettings(settings, i) \in Settings
<1>1. SectionControl[i] \in Settings \cup {NoControl}
  BY SessionAssumption
<1>2. PartControl[i] \in Settings \cup {NoControl}
  BY SessionAssumption
<1>3. ASSUME NEW k \in Controls
      PROVE  EffectiveSettings(settings, i)[k] \in {"yes", "no", "unset"}
  BY <1>1, <1>2 DEF EffectiveSettings, Settings
<1>4. EffectiveSettings(settings, i) = [k \in Controls |-> EffectiveSettings(settings, i)[k]]
  BY DEF EffectiveSettings
<1>. QED  BY <1>3, <1>4 DEF Settings

\* The settings of a new player are settings.
LEMMA InitialSettingsType == InitialSettings \in Settings
BY DEF InitialSettings, DefaultSetting, Settings

\* Opening an item gives a player.
LEMMA OpenItemType ==
    ASSUME NEW p \in Player, NEW i \in Items
    PROVE  OpenItem(p, i) \in Player
<1>. DEFINE live == IF p.sessions[i] = NoSession THEN NewSession(p.responses[i])
                                              ELSE ActivateAttempt(p.sessions[i])
            settings == EffectiveSettings(p.settings, i)
<1>1. live \in Session
  <2>1. p.responses[i] \in Responses /\ p.sessions[i] \in SessionOrNone
    BY DEF Player
  <2>. QED  BY <2>1, NewSessionType, ActivateType, SavedType
<1>2. settings \in Settings
  <2>1. p.settings \in Settings
    BY DEF Player
  <2>. QED  BY <2>1, SettingsType
<1>3. OpenItem(p, i) = [p EXCEPT !.current = i, !.currentId = i,
                                 !.settings = settings, !.live = live]
  BY DEF OpenItem
<1>. HIDE DEF live, settings
<1>. QED  BY <1>1, <1>2, <1>3 DEF Player

\* Navigating gives a player.
LEMMA NavigateToType ==
    ASSUME NEW p \in Player, NEW i \in Items
    PROVE  NavigateTo(p, i) \in Player
BY SaveCurrentType, OpenItemType DEF NavigateTo

\* Adopting a state of the backend gives a player.
LEMMA ReplaceStateType ==
    ASSUME NEW p \in Player, NEW state \in Server,
           NEW responses \in [Items -> Responses],
           NEW sessions \in [Items -> SessionOrNone]
    PROVE  ReplaceState(p, state, responses, sessions) \in Player
<1>1. {i \in Items : state.responses[i] # Unanswered} \in SUBSET Items
  OBVIOUS
<1>2. state.scores \in SUBSET Items /\ state.attempts \in [Items -> Nat]
  BY DEF Server
<1>. QED  BY <1>1, <1>2, FirstItem DEF ReplaceState, Player

\* A page started from a state of the backend has a player.
LEMMA BootType ==
    ASSUME NEW state \in Server
    PROVE  Boot(state) \in Player
<1>. DEFINE p == [current   |-> 1,
                  currentId |-> 1,
                  live      |-> NewSession(Unanswered),
                  responses |-> state.responses,
                  sessions  |-> state.sessions,
                  results   |-> state.scores,
                  attempts  |-> state.attempts,
                  answered  |-> {i \in Items : state.responses[i] # Unanswered},
                  submitted |-> state.scores,
                  settings  |-> InitialSettings,
                  done      |-> FALSE]
<1>1. NewSession(Unanswered) \in Session
  BY NewSessionType, LifecycleAssumption
<1>2. p \in Player
  BY <1>1, FirstItem, InitialSettingsType DEF Player, Server
<1>. HIDE DEF p
<1>3. OpenItem(p, 1) \in Player
  BY <1>2, FirstItem, OpenItemType
<1>. QED  BY <1>3 DEF Boot, p

-----------------------------------------------------------------------------
(* Calls and the backend's state.                                          *)

\* The state of a new session is a state of the backend.
LEMMA EmptyServerType == EmptyServer \in Server
BY LifecycleAssumption DEF EmptyServer, Server, SessionOrNone

\* The idle call is a call.
LEMMA NoCallType == NoCall \in Call
<1>1. [kind |-> "none", to |-> 1] \in Branch
  BY FirstItem DEF Branch
<1>2. NoSession \in SessionOrNone
  BY DEF SessionOrNone
<1>3. /\ EmptyServer.responses \in [Items -> Responses]
      /\ EmptyServer.sessions \in [Items -> SessionOrNone]
  BY EmptyServerType DEF Server
<1>. QED  BY <1>1, <1>2, <1>3, FirstItem, EmptyServerType, LifecycleAssumption
          DEF NoCall, Call

\* An idle call, and one that asks to finalize, are well typed with no snapshot.
LEMMA IdleCallType ==
    /\ NoCall \in OperationCall
    /\ \A op \in {"item", "next", "submit", "all"} :
          [NoCall EXCEPT !.stage = "finalize", !.op = op] \in OperationCall
<1>1. NoCall.stage = "idle"
  BY DEF NoCall
<1>2. \A op \in {"item", "next", "submit", "all"} :
         /\ [NoCall EXCEPT !.stage = "finalize", !.op = op] \in Call
         /\ [NoCall EXCEPT !.stage = "finalize", !.op = op].stage = "finalize"
  BY NoCallType DEF Call
<1>. QED  BY <1>1, <1>2, NoCallType DEF OperationCall

\* Releasing the live session leaves the calls well typed.
LEMMA DetachedType ==
    ASSUME NEW cs \in [Calls -> OperationCall]
    PROVE  Detached(cs) \in [Calls -> OperationCall]
<1>1. ASSUME NEW c \in Calls
      PROVE  [cs[c] EXCEPT !.holds = FALSE] \in OperationCall
  <2>. DEFINE call == cs[c]
              free == [call EXCEPT !.holds = FALSE]
  <2>1. call \in Call /\ (call.stage \in {"request", "answer"} => call \in PendingCall)
    BY DEF OperationCall
  <2>2. /\ free \in Call
        /\ free.stage = call.stage
        /\ free.item = call.item
        /\ free.pre = call.pre
        /\ free.ended = call.ended
        /\ free.op = call.op
        /\ free.sessions = call.sessions
        /\ free.first = call.first
    BY <2>1 DEF Call
  <2>. HIDE DEF free, call
  <2>3. free \in OperationCall
    BY <2>1, <2>2 DEF OperationCall, PendingCall
  <2>. QED  BY <2>3 DEF free, call
<1>. QED  BY <1>1 DEF Detached

\* What the backend stores on a submission is a state of it.
LEMMA ScoredType ==
    ASSUME NEW call \in Call, call.item \in Items, call.ended \in Session, server \in Server
    PROVE  Scored(call) \in Server
<1>1. call.value \in Responses
  BY DEF Call
<1>2. [server.attempts EXCEPT ![call.item] = @ + 1] \in [Items -> Nat]
  BY DEF Server
<1>3. [server.responses EXCEPT ![call.item] = call.value] \in [Items -> Responses]
  BY <1>1 DEF Server
<1>4. [server.sessions EXCEPT ![call.item] = call.ended] \in [Items -> SessionOrNone]
  BY DEF Server, SessionOrNone
<1>5. server.scores \cup {call.item} \in SUBSET Items /\ server.sessions \in [Items -> SessionOrNone]
  BY DEF Server
<1>. QED  BY <1>2, <1>3, <1>4, <1>5 DEF Scored, Server

-----------------------------------------------------------------------------
(* The pieces that several actions share.                                  *)

\* Response processing assigns one of the outcomes.
LEMMA OutcomesType == \A i \in Items : OutcomesOf(i) \subseteq Outcomes
BY DEF OutcomesOf, Outcomes

\* Starting submitCurrentItem(), or failing to, keeps the types.
LEMMA SubmitCurrentItemType ==
    ASSUME TypeOK, NEW c \in Calls, NEW op \in {"item", "next", "submit"}, NEW p \in Player,
           op = "next" => p.current + 1 \in Items,
           SubmitCurrentItem(c, op, p)
    PROVE  player' \in Player /\ calls' \in [Calls -> OperationCall]
<1>1. p.live \in Session /\ p.current \in Items
  BY DEF Player
<1>2. CASE \E outcome \in OutcomesOf(p.current) :
             LET ended == EndAttempt(p.current, p.live, outcome)
             IN  /\ player' = Dispatched(p, ended)
                 /\ calls' = [calls EXCEPT ![c] =
                        [NoCall EXCEPT !.stage = "request", !.op = op,
                                       !.item = p.current,  !.holds = TRUE,
                                       !.pre = p.live,      !.ended = ended,
                                       !.value = ended.response]]
  <2>1. PICK outcome \in OutcomesOf(p.current) :
             LET ended == EndAttempt(p.current, p.live, outcome)
             IN  /\ player' = Dispatched(p, ended)
                 /\ calls' = [calls EXCEPT ![c] =
                        [NoCall EXCEPT !.stage = "request", !.op = op,
                                       !.item = p.current,  !.holds = TRUE,
                                       !.pre = p.live,      !.ended = ended,
                                       !.value = ended.response]]
    BY <1>2
  <2>. DEFINE ended == EndAttempt(p.current, p.live, outcome)
              call == [NoCall EXCEPT !.stage = "request", !.op = op,
                                     !.item = p.current,  !.holds = TRUE,
                                     !.pre = p.live,      !.ended = ended,
                                     !.value = ended.response]
  <2>2. ended \in Session
    BY <1>1, EndAttemptType, OutcomesType
  <2>3. player' = Dispatched(p, ended) /\ calls' = [calls EXCEPT ![c] = call]
    BY <2>1
  <2>. HIDE DEF ended
  <2>4. ended.response \in Responses
    BY <2>2 DEF Session
  <2>5. call \in Call
    BY <1>1, <2>2, <2>4, NoCallType DEF Call, SessionOrNone
  <2>6. /\ call.item = p.current /\ call.pre = p.live
        /\ call.ended = ended /\ call.op = op
    BY NoCallType DEF Call
  <2>. HIDE DEF call
  <2>7. call \in OperationCall
    BY <1>1, <2>2, <2>5, <2>6 DEF OperationCall, PendingCall
  <2>. QED  BY <2>2, <2>3, <2>7, DispatchedType DEF TypeOK
<1>3. CASE /\ player' = IF IsWritable(p.live) /\ Rejected(p) THEN Dispatched(p, p.live) ELSE p
           /\ calls' = Detached(calls)
  BY <1>1, <1>3, DispatchedType, DetachedType DEF TypeOK
<1>. QED  BY <1>2, <1>3 DEF SubmitCurrentItem

\* Leaving the loop of submit() with an error keeps the types.
LEMMA AbortSubmitType ==
    ASSUME TypeOK, NEW c \in Calls, NEW p \in Player, NEW call \in Call,
           call.pre \in Session, call.sessions[call.first] \in Session,
           AbortSubmit(c, p, call)
    PROVE  player' \in Player /\ calls' \in [Calls -> OperationCall]
<1>1. call.first \in Items
  BY DEF Call
<1>2. Restored(p, call) \in Player
  <2>1. SaveItemSession(p, call.first, call.pre) \in Player
    BY <1>1, SaveItemSessionType
  <2>2. [p EXCEPT !.live = call.sessions[call.first]] \in Player
    BY DEF Player
  <2>3. [SaveItemSession(p, call.first, call.pre) EXCEPT !.live = call.pre] \in Player
    BY <2>1 DEF Player
  <2>. QED  BY <2>2, <2>3 DEF Restored
<1>. QED  BY <1>2, DetachedType, IdleCallType DEF AbortSubmit, TypeOK

\* The session whose attempt the loop ends is a session.
LEMMA SessionToEndType ==
    ASSUME NEW p \in Player, NEW call \in Call, NEW i \in Items
    PROVE  SessionToEnd(p, call, i) \in Session
<1>1. /\ p.live \in Session
      /\ call.responses[i] \in Responses
      /\ call.sessions[i] \in SessionOrNone
  BY DEF Player, Call
<1>. QED  BY <1>1, NewSessionType, ActivateType, SavedType DEF SessionToEnd

\* One turn of the loop of submit() keeps the types.
LEMMA ContinueSubmitType ==
    ASSUME TypeOK, NEW c \in Calls, NEW p \in Player, NEW call \in Call,
           call.op = "all", call.pre \in Session, call.sessions[call.first] \in Session,
           ContinueSubmit(c, p, call)
    PROVE  player' \in Player /\ calls' \in [Calls -> OperationCall]
<1>. DEFINE pending == Pending(p, call)
            i       == Min(pending)
            session == SessionToEnd(p, call, i)
            Turn(outcome) ==
                LET ended == EndAttempt(i, session, outcome)
                IN  /\ player' = IF UsesLive(p, i) THEN Dispatched(p, ended) ELSE p
                    /\ calls' = [calls EXCEPT ![c] =
                          [call EXCEPT !.stage = "request",
                                       !.item = i,
                                       !.ended = ended,
                                       !.value = call.responses[i],
                                       !.sessions[i] = ended]]
<1>1. CASE pending = {}
  <2>1. CASE p.current = call.first
    <3>1. /\ player' = [p EXCEPT !.live = call.sessions[p.current]]
          /\ calls' = [Detached(calls) EXCEPT ![c] =
                           [NoCall EXCEPT !.stage = "finalize", !.op = "all"]]
      BY <1>1, <2>1 DEF ContinueSubmit
    <3>2. [p EXCEPT !.live = call.sessions[p.current]] \in Player
      BY <2>1 DEF Player
    <3>. QED  BY <3>1, <3>2, DetachedType, IdleCallType DEF TypeOK
  <2>2. CASE p.current # call.first
    <3>1. /\ player' = p
          /\ calls' = [calls EXCEPT ![c] =
                           [NoCall EXCEPT !.stage = "finalize", !.op = "all"]]
      BY <1>1, <2>2 DEF ContinueSubmit
    <3>. QED  BY <3>1, IdleCallType DEF TypeOK
  <2>. QED  BY <2>1, <2>2
<1>2. CASE pending # {} /\ ~CanEndAttempt(i, session)
  BY <1>2, AbortSubmitType DEF ContinueSubmit
<1>3. CASE pending # {} /\ CanEndAttempt(i, session)
  <2>1. i \in Items
    <3>1. pending \subseteq Items
      BY DEF Pending
    <3>. QED  BY <1>3, <3>1, FirstItem, MinProperties
  <2>2. PICK outcome \in OutcomesOf(i) : Turn(outcome)
    BY <1>3 DEF ContinueSubmit
  <2>. DEFINE ended == EndAttempt(i, session, outcome)
              next  == [call EXCEPT !.stage = "request",
                                    !.item = i,
                                    !.ended = ended,
                                    !.value = call.responses[i],
                                    !.sessions[i] = ended]
  <2>3. ended \in Session
    BY <2>1, SessionToEndType, OutcomesType, EndAttemptType
  <2>4. /\ player' = IF UsesLive(p, i) THEN Dispatched(p, ended) ELSE p
        /\ calls' = [calls EXCEPT ![c] = next]
    BY <2>2
  <2>. HIDE DEF ended, i, session, pending
  <2>5. call.responses[i] \in Responses /\ ended \in SessionOrNone /\ i \in Items \cup {0}
    BY <2>1, <2>3 DEF Call, SessionOrNone
  <2>6. [call.sessions EXCEPT ![i] = ended] \in [Items -> SessionOrNone]
    BY <2>5 DEF Call
  <2>7. next \in Call
    BY <2>5, <2>6 DEF Call
  <2>8. /\ next.item = i /\ next.pre = call.pre /\ next.ended = ended /\ next.op = "all"
        /\ next.first = call.first
        /\ next.sessions = [call.sessions EXCEPT ![i] = ended]
    BY DEF Call
  <2>9. next.sessions[next.first] \in Session
    BY <2>1, <2>3, <2>8 DEF Call
  <2>. HIDE DEF next
  <2>10. next \in OperationCall
    BY <2>1, <2>3, <2>7, <2>8, <2>9 DEF OperationCall, PendingCall
  <2>. QED  BY <2>3, <2>4, <2>10, DispatchedType DEF TypeOK
<1>. QED  BY <1>1, <1>2, <1>3

\* Following a branch gives a player.
LEMMA BranchedType ==
    ASSUME NEW p \in Player, NEW branch \in Branch
    PROVE  Branched(p, branch) \in Player
<1>1. branch.to \in Items
  BY DEF Branch
<1>2. ASSUME Exits(p, branch)
      PROVE  Min(Beyond(p.current, branch.kind)) \in Items
  <2>1. Beyond(p.current, branch.kind) \subseteq Items
    BY DEF Beyond
  <2>. QED  BY <1>2, <2>1, FirstItem, MinProperties DEF Exits
<1>3. [p EXCEPT !.done = TRUE] \in Player
  BY DEF Player
<1>. QED  BY <1>1, <1>2, <1>3, OpenItemType DEF Branched

\* Adopting an accepted item in submitCurrentItem() gives a player.
LEMMA ItemAcceptedType ==
    ASSUME NEW p \in Player, NEW call \in PendingCall
    PROVE  ItemAccepted(p, call) \in Player
<1>. DEFINE responses == [p.responses EXCEPT ![call.item] = call.value]
            sessions  == [p.sessions EXCEPT ![call.item] = call.ended]
            adopted   == IF call.full
                         THEN ReplaceState(p, call.state, responses, sessions)
                         ELSE [p EXCEPT !.responses = responses, !.sessions = sessions]
            shown     == [adopted EXCEPT !.results = @ \cup {call.item}]
<1>1. /\ call.item \in Items /\ call.ended \in SessionOrNone
      /\ call.value \in Responses /\ call.state \in Server
  BY DEF PendingCall, Call, SessionOrNone
<1>2. responses \in [Items -> Responses] /\ sessions \in [Items -> SessionOrNone]
  BY <1>1 DEF Player
<1>. HIDE DEF responses, sessions
<1>3. [p EXCEPT !.responses = responses, !.sessions = sessions] \in Player
  BY <1>2 DEF Player
<1>4. adopted \in Player
  BY <1>1, <1>2, <1>3, ReplaceStateType
<1>. HIDE DEF adopted
<1>5. shown \in Player
  BY <1>1, <1>4 DEF Player
<1>6. ItemAccepted(p, call) =
        MarkAnswered(RecordAttempt(shown, call.item), call.item, call.value)
  BY DEF ItemAccepted, shown, adopted, responses, sessions
<1>. HIDE DEF shown
<1>. QED  BY <1>1, <1>5, <1>6, RecordAttemptType, MarkAnsweredType

\* Adopting an accepted item in the loop of submit() gives a player.
LEMMA LoopAcceptedType ==
    ASSUME NEW p \in Player, NEW call \in PendingCall
    PROVE  LoopAccepted(p, call) \in Player
<1>. DEFINE taken   == [p EXCEPT !.responses[call.item] = call.value,
                                 !.sessions[call.item] = call.ended]
            adopted == IF call.full
                       THEN ReplaceState(p, call.state, call.responses, call.sessions)
                       ELSE RecordAttempt(taken, call.item)
<1>1. /\ call.item \in Items /\ call.ended \in SessionOrNone
      /\ call.value \in Responses /\ call.state \in Server
      /\ call.responses \in [Items -> Responses]
      /\ call.sessions \in [Items -> SessionOrNone]
  BY DEF PendingCall, Call, SessionOrNone
<1>2. taken \in Player
  BY <1>1 DEF Player
<1>. HIDE DEF taken
<1>3. adopted \in Player
  BY <1>1, <1>2, ReplaceStateType, RecordAttemptType
<1>4. LoopAccepted(p, call) = [adopted EXCEPT !.results = @ \cup {call.item}]
  BY DEF LoopAccepted, adopted, taken
<1>. HIDE DEF adopted
<1>. QED  BY <1>1, <1>3, <1>4 DEF Player

-----------------------------------------------------------------------------
(* The invariant.                                                          *)

\* The steps of the candidate keep the types.
LEMMA UserTypes ==
    ASSUME TypeOK, User
    PROVE  TypeOK'
<1>. USE DEF TypeOK
<1>1. ASSUME NEW v \in Responses, Respond(v)
      PROVE  TypeOK'
  <2>1. player.live \in Session
    BY DEF Player
  <2>. QED  BY <1>1, <2>1, SetResponseType, DispatchedType DEF Respond
<1>2. ASSUME NEW i \in Items, NEW v \in Responses, RespondElsewhere(i, v)
      PROVE  TypeOK'
  <2>1. [player EXCEPT !.responses[i] = v] \in Player
    BY DEF Player
  <2>. QED  BY <1>2, <2>1, MarkAnsweredType DEF RespondElsewhere
<1>3. ASSUME NEW i \in Items, Navigate(i)
      PROVE  TypeOK'
  BY <1>3, NavigateToType, DetachedType DEF Navigate
<1>4. ASSUME NEW c \in Calls, SubmitItem(c)
      PROVE  TypeOK'
  BY <1>4, SubmitCurrentItemType DEF SubmitItem
<1>5. ASSUME NEW c \in Calls, NextItem(c)
      PROVE  TypeOK'
  <2>. DEFINE i == player.current
              p == MarkAnswered(player, i, player.responses[player.currentId])
  <2>1. i \in Items /\ player.responses[player.currentId] \in Responses
    BY DEF Player
  <2>2. p \in Player
    BY <2>1, MarkAnsweredType
  <2>3. i + 1 \in Items
    BY <1>5 DEF NextItem, CanNext
  <2>4. p.current = i
    BY DEF MarkAnswered, Player
  <2>5. UNCHANGED <<server, finalized>>
    BY <1>5 DEF NextItem
  <2>6. CASE player' = p /\ UNCHANGED calls
    BY <2>2, <2>5, <2>6
  <2>7. CASE SubmitCurrentItem(c, "next", p)
    BY <2>2, <2>3, <2>4, <2>5, <2>7, SubmitCurrentItemType
  <2>8. CASE /\ player' = IF CanReview(p, i + 1) THEN NavigateTo(p, i + 1) ELSE p
             /\ calls' = IF CanReview(p, i + 1) THEN Detached(calls) ELSE calls
    BY <2>2, <2>3, <2>5, <2>8, NavigateToType, DetachedType
  <2>. QED  BY <1>5, <2>6, <2>7, <2>8 DEF NextItem
<1>6. ASSUME NEW c \in Calls, SubmitTest(c)
      PROVE  TypeOK'
  <2>. DEFINE p    == SaveCurrentItemSession(player)
              call == [NoCall EXCEPT !.op = "all",
                                     !.pre = player.live,
                                     !.first = p.current,
                                     !.responses = p.responses,
                                     !.sessions = p.sessions]
  <2>1. p \in Player /\ player.live \in Session /\ p.current \in Items
    BY SaveCurrentType DEF Player
  <2>2. UNCHANGED <<server, finalized>>
    BY <1>6 DEF SubmitTest
  <2>3. CASE ContinueSubmit(c, p, call)
    <3>1. p.sessions[p.current] \in Session
      <4>1. SuspendAttempt(player.live) \in Session
        BY <2>1, SuspendType
      <4>. QED  BY <2>1, <4>1 DEF SaveCurrentItemSession, SaveItemSession, MarkAnswered, Player
    <3>. HIDE DEF p
    <3>2. call \in Call
      BY <2>1, NoCallType DEF Call, Player, SessionOrNone
    <3>3. /\ call.op = "all" /\ call.pre = player.live
          /\ call.sessions[call.first] = p.sessions[p.current]
      BY NoCallType DEF Call
    <3>. HIDE DEF call
    <3>. QED  BY <2>1, <2>2, <2>3, <3>1, <3>2, <3>3, ContinueSubmitType
  <2>4. CASE /\ calls' = [calls EXCEPT ![c] =
                             [NoCall EXCEPT !.stage = "finalize", !.op = "submit"]]
             /\ UNCHANGED player
    BY <2>2, <2>4, IdleCallType
  <2>5. CASE SubmitCurrentItem(c, "submit", player)
    BY <2>2, <2>5, SubmitCurrentItemType
  <2>. QED  BY <1>6, <2>3, <2>4, <2>5 DEF SubmitTest
<1>. QED  BY <1>1, <1>2, <1>3, <1>4, <1>5, <1>6 DEF User

\* The item of a call that has been sent, and its answer.
LEMMA AnsweredType ==
    ASSUME TypeOK, NEW c \in Calls, calls[c].stage = "request", NEW ok \in BOOLEAN
    PROVE  /\ calls[c] \in PendingCall
           /\ [calls EXCEPT ![c].stage = "answer", ![c].ok = ok]
                 \in [Calls -> OperationCall]
<1>1. calls[c] \in PendingCall
  BY DEF TypeOK, OperationCall
<1>2. [calls[c] EXCEPT !.stage = "answer", !.ok = ok] \in PendingCall
  BY <1>1 DEF PendingCall, Call
<1>. QED  BY <1>1, <1>2 DEF TypeOK, OperationCall, PendingCall

\* The answer to finalizeAssessment() leaves the calls well typed.
LEMMA FinalAnswerType ==
    ASSUME TypeOK, NEW c \in Calls, NEW ok \in BOOLEAN
    PROVE  [calls EXCEPT ![c].stage = "finalized", ![c].ok = ok] \in [Calls -> OperationCall]
<1>1. [calls[c] EXCEPT !.stage = "finalized", !.ok = ok] \in OperationCall
  <2>1. calls[c] \in Call
    BY DEF TypeOK, OperationCall
  <2>2. [calls[c] EXCEPT !.stage = "finalized", !.ok = ok] \in Call
    BY <2>1 DEF Call
  <2>. QED  BY <2>1, <2>2 DEF Call, OperationCall
<1>. QED  BY <1>1 DEF TypeOK

\* The steps of the backend keep the types.
LEMMA BackendTypes ==
    ASSUME TypeOK, NEW c \in Calls, Backend(c)
    PROVE  TypeOK'
<1>. USE DEF TypeOK
<1>1. ASSUME calls[c].stage = "request"
      PROVE  Scored(calls[c]) \in Server
  <2>1. calls[c] \in PendingCall
    BY <1>1 DEF OperationCall
  <2>. QED  BY <2>1, ScoredType DEF PendingCall
<1>2. CASE BackendScores(c)
  <2>1. calls[c] \in PendingCall
    BY <1>2, AnsweredType DEF BackendScores
  <2>2. PICK full \in UpdatedState, branch \in Branches[calls[c].item] :
          calls' = [calls EXCEPT ![c].stage = "answer",
                                 ![c].ok = TRUE,
                                 ![c].full = full,
                                 ![c].state = IF full THEN Scored(calls[c]) ELSE @,
                                 ![c].branch = branch]
    BY <1>2 DEF BackendScores
  <2>3. full \in BOOLEAN /\ branch \in Branch
    BY <2>1, PlayerAssumption DEF PendingCall
  <2>4. calls[c].state \in Server
    BY <2>1 DEF PendingCall, Call
  <2>. DEFINE state == IF full THEN Scored(calls[c]) ELSE calls[c].state
              call  == [calls[c] EXCEPT !.stage = "answer", !.ok = TRUE, !.full = full,
                                        !.state = state, !.branch = branch]
  <2>5. state \in Server
    BY <1>1, <1>2, <2>4 DEF BackendScores
  <2>6. calls' = [calls EXCEPT ![c] = call]
    BY <2>2
  <2>. HIDE DEF state
  <2>7. call \in Call
    BY <2>1, <2>3, <2>5 DEF PendingCall, Call
  <2>8. /\ call.item = calls[c].item /\ call.pre = calls[c].pre
        /\ call.ended = calls[c].ended /\ call.op = calls[c].op
        /\ call.first = calls[c].first /\ call.sessions = calls[c].sessions
    BY <2>1 DEF PendingCall, Call
  <2>. HIDE DEF call
  <2>9. call \in OperationCall
    BY <2>1, <2>7, <2>8 DEF PendingCall, OperationCall
  <2>. QED  BY <1>1, <1>2, <2>6, <2>9 DEF BackendScores
<1>3. CASE AnswerLost(c)
  BY <1>1, <1>3, AnsweredType DEF AnswerLost
<1>4. CASE BackendRefuses(c)
  BY <1>4, AnsweredType DEF BackendRefuses
<1>5. CASE BackendFinalizes(c)
  BY <1>5, FinalAnswerType DEF BackendFinalizes
<1>6. CASE FinalizeRefused(c)
  BY <1>6, FinalAnswerType DEF FinalizeRefused
<1>. QED  BY <1>2, <1>3, <1>4, <1>5, <1>6 DEF Backend

\* The steps that resume a call keep the types.
LEMMA ResumeTypes ==
    ASSUME TypeOK, NEW c \in Calls, Resume(c)
    PROVE  TypeOK'
<1>. USE DEF TypeOK
<1>. DEFINE call == calls[c]
<1>1. call.stage = "answer" => call \in PendingCall
  BY DEF OperationCall
<1>2. CASE ResumeItem(c)
  <2>. DEFINE accepted == ItemAccepted(player, call)
              branched == Branched(accepted, call.branch)
  <2>1. call \in PendingCall
    BY <1>1, <1>2 DEF ResumeItem
  <2>2. accepted \in Player
    BY <2>1, ItemAcceptedType
  <2>. HIDE DEF accepted
  <2>3. branched \in Player
    BY <2>1, <2>2, BranchedType DEF PendingCall, Call
  <2>. HIDE DEF branched
  <2>4. ASSUME GoesOn(branched, call)
        PROVE  NavigateTo(branched, branched.current + 1) \in Player
    BY <2>1, <2>3, <2>4, NavigateToType DEF GoesOn, PendingCall
  <2>5. /\ player' = IF GoesOn(branched, call)
                     THEN NavigateTo(branched, branched.current + 1)
                     ELSE branched
        /\ UNCHANGED <<server, finalized>>
    BY <1>2 DEF ResumeItem, branched, accepted
  <2>6. calls' \in [Calls -> OperationCall]
    <3>1. \E cs \in {calls, Detached(calls)}, next \in
               {NoCall, [NoCall EXCEPT !.stage = "finalize", !.op = "submit"]} :
             calls' = [cs EXCEPT ![c] = next]
      BY <1>2 DEF ResumeItem
    <3>. QED  BY <3>1, DetachedType, IdleCallType
  <2>. QED  BY <2>3, <2>4, <2>5, <2>6
<1>3. CASE ResumeItemFailed(c)
  <2>1. call.pre \in Session
    BY <1>1, <1>3 DEF ResumeItemFailed, PendingCall
  <2>2. [player EXCEPT !.live = call.pre] \in Player
    BY <2>1 DEF Player
  <2>. QED  BY <1>3, <2>2, DetachedType, IdleCallType DEF ResumeItemFailed
<1>4. CASE ResumeAll(c)
  <2>1. call \in PendingCall /\ call.op = "all"
    BY <1>1, <1>4 DEF ResumeAll
  <2>2. LoopAccepted(player, call) \in Player
    BY <2>1, LoopAcceptedType
  <2>3. /\ ContinueSubmit(c, LoopAccepted(player, call), call)
        /\ UNCHANGED <<server, finalized>>
    BY <1>4 DEF ResumeAll
  <2>. HIDE DEF call
  <2>. QED  BY <2>1, <2>2, <2>3, ContinueSubmitType DEF PendingCall
<1>5. CASE ResumeAllFailed(c)
  <2>1. call \in PendingCall /\ call.op = "all"
    BY <1>1, <1>5 DEF ResumeAllFailed
  <2>2. AbortSubmit(c, player, call) /\ UNCHANGED <<server, finalized>>
    BY <1>5 DEF ResumeAllFailed
  <2>. HIDE DEF call
  <2>. QED  BY <2>1, <2>2, AbortSubmitType DEF PendingCall
<1>6. CASE ResumeFinalized(c)
  <2>1. [player EXCEPT !.done = TRUE] \in Player
    BY DEF Player
  <2>. QED  BY <1>6, <2>1, IdleCallType DEF ResumeFinalized
<1>. QED  BY <1>2, <1>3, <1>4, <1>5, <1>6 DEF Resume

\* TypeOK is an invariant.  Besides the types it says that an operation in
\* flight has kept the sessions it will restore or adopt when it resumes.
THEOREM TypeCorrect == Spec => []TypeOK
<1>1. Init => TypeOK
  BY EmptyServerType, BootType, IdleCallType DEF Init, TypeOK
<1>2. TypeOK /\ [Next]_vars => TypeOK'
  <2>. SUFFICES ASSUME TypeOK, [Next]_vars
                PROVE  TypeOK'
    OBVIOUS
  <2>1. CASE User
    BY <2>1, UserTypes
  <2>2. ASSUME NEW c \in Calls, Backend(c)
        PROVE  TypeOK'
    BY <2>2, BackendTypes
  <2>3. ASSUME NEW c \in Calls, Resume(c)
        PROVE  TypeOK'
    BY <2>3, ResumeTypes
  <2>4. CASE Reload
    BY <2>4, BootType, IdleCallType DEF Reload, TypeOK
  <2>5. CASE UNCHANGED vars
    BY <2>5 DEF vars, TypeOK
  <2>. QED  BY <2>1, <2>2, <2>3, <2>4, <2>5 DEF Next
<1>. QED  BY <1>1, <1>2, PTL DEF Spec
=============================================================================
