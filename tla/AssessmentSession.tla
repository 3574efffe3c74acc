-------------------------- MODULE AssessmentSession --------------------------
(***************************************************************************)
(* The client side of one assessment session as a value: what an           *)
(* AssessmentPlayer and the AssessmentSessionCoordinator and               *)
(* ItemSessionController it owns hold in memory, and the effect of their   *)
(* synchronous methods on it.  The processes that call these methods, and  *)
(* the backend, are in AssessmentPlayer.                                   *)
(*                                                                         *)
(* A player record p has                                                   *)
(*   current    currentItemIndex; an item is identified with its index     *)
(*   currentId  state.currentItemIdentifier, which the backend may replace *)
(*   live       currentItemSession, the session of the item at current     *)
(*   responses  state.itemResponses       sessions   state.itemSessions    *)
(*   results    the keys of #itemResults, kept equal to state.itemScores   *)
(*   attempts, answered, submitted        the ItemSessionState records     *)
(*   settings   ItemSessionController.settings                             *)
(*   done       onComplete has been called                                 *)
(* Times, scores, visited items and feedback are left out: no limit is     *)
(* set on time, and nothing here depends on the others.                    *)
(***************************************************************************)
EXTENDS ItemLifecycle

CONSTANTS
    PartOf,           \* the testPart of an item, a number growing with it
    SectionOf,        \* the section of an item
    NavigationMode,   \* the navigation mode of the item's testPart
    SubmissionMode,   \* the submission mode of the item's testPart
    PartControl,      \* itemSessionControl of the item's testPart
    SectionControl    \* itemSessionControl of the item's section

\* The attributes of itemSessionControl that the client acts upon.
Controls == {"allowReview", "allowSkipping", "validateResponses"}

Settings == [Controls -> {"yes", "no", "unset"}]

\* A testPart or section without an itemSessionControl element.
NoControl == [k \in Controls |-> "none"]

ASSUME SessionAssumption ==
    /\ Items \subseteq Nat
    /\ \E N \in Items : Items = 1..N
    /\ PartOf \in [Items -> Nat]
    /\ \A i, j \in Items : i < j => PartOf[i] <= PartOf[j]
    /\ NavigationMode \in [Items -> {"linear", "nonlinear"}]
    /\ SubmissionMode \in [Items -> {"individual", "simultaneous"}]
    /\ PartControl \in [Items -> Settings \cup {NoControl}]
    /\ SectionControl \in [Items -> Settings \cup {NoControl}]

Player == [current   : Items,
           currentId : Items,
           live      : Session,
           responses : [Items -> Responses],
           sessions  : [Items -> SessionOrNone],
           results   : SUBSET Items,
           attempts  : [Items -> Nat],
           answered  : SUBSET Items,
           submitted : SUBSET Items,
           settings  : Settings,
           done      : BOOLEAN]

-----------------------------------------------------------------------------
(* Item session control.                                                   *)

\* ItemSessionController applies these when a setting is undefined.
DefaultSetting(k) == IF k = "validateResponses" THEN "no" ELSE "yes"

\* The constructor of ItemSessionController, with the first part's control.
InitialSettings ==
    [k \in Controls |-> IF PartControl[1][k] \in {"yes", "no"}
                        THEN PartControl[1][k] ELSE DefaultSetting(k)]

IsOn(settings, k) ==
    settings[k] = "yes" \/ (settings[k] = "unset" /\ DefaultSetting(k) = "yes")

\* Variant: a missing control overrides the settings in force.
EffectiveSettingsUnset(settings, i) ==
    [k \in Controls |-> IF SectionControl[i] = NoControl THEN PartControl[i][k]
                        ELSE SectionControl[i][k]]

\* updateSettings(getEffectiveItemSessionControl(i)).  With both controls the
\* result has every key, some of them undefined; with one of them only the
\* keys it sets reach the spread; with none the settings stay as they are.
EffectiveSettings(settings, i) ==
    LET section == SectionControl[i]
        part    == PartControl[i]
        Over(control, k) == IF control[k] \in {"yes", "no"} THEN control[k] ELSE settings[k]
    IN  [k \in Controls |->
            IF section = NoControl THEN Over(part, k)
            ELSE IF part = NoControl THEN Over(section, k)
            ELSE IF section[k] # "unset" THEN section[k] ELSE part[k]]

MarkAnswered(p, i, response) ==
    [p EXCEPT !.answered = IF response = Unanswered THEN @ \ {i} ELSE @ \cup {i}]

RecordAttempt(p, i) == [p EXCEPT !.attempts[i] = @ + 1, !.submitted = @ \cup {i}]

CanReview(p, i) == i \in p.submitted => IsOn(p.settings, "allowReview")

CanNavigateAway(p, i) == i \in p.answered \/ IsOn(p.settings, "allowSkipping")

MustValidate(p) == IsOn(p.settings, "validateResponses")

-----------------------------------------------------------------------------
(* The live session and navigation.                                        *)

\* Variant: another testPart may be entered at any item.
CanNavigateAnyPart(i, j) ==
    PartOf[i] # PartOf[j] \/ NavigationMode[i] = "nonlinear" \/ j \in {i, i + 1}

CanNavigateByTestPart(i, j) ==
    IF PartOf[i] # PartOf[j]
    THEN j = i + 1
    ELSE NavigationMode[i] = "nonlinear" \/ j \in {i, i + 1}

\* Variant: the response is not mirrored.
DispatchedUnseen(p, session) == [p EXCEPT !.live = session]

\* A transition of the live session notifies mirrorSessionResponses().
Dispatched(p, session) ==
    IF p.responses[p.current] = session.response
    THEN [p EXCEPT !.live = session]
    ELSE MarkAnswered([p EXCEPT !.live = session,
                                !.responses[p.current] = session.response],
                      p.current, session.response)

\* saveItemSession() of the coordinator.
SaveItemSession(p, i, session) ==
    MarkAnswered([p EXCEPT !.sessions[i] = session, !.responses[i] = session.response],
                 i, session.response)

\* saveCurrentItemSession() suspends a writable live session before saving it.
SaveCurrentItemSession(p) ==
    LET saved == IF IsWritable(p.live) THEN SuspendAttempt(p.live) ELSE p.live
    IN  SaveItemSession([p EXCEPT !.live = saved], p.current, saved)

\* The second half of navigateTo(), and all of it when it is restoring.
OpenItem(p, i) ==
    [p EXCEPT !.current   = i,
              !.currentId = i,
              !.settings  = EffectiveSettings(@, i),
              !.live      = IF p.sessions[i] = NoSession
                            THEN NewSession(p.responses[i])
                            ELSE ActivateAttempt(p.sessions[i])]

MayNavigate(p, i) == CanNavigateByTestPart(p.current, i) /\ CanReview(p, i)

\* navigateTo(i) when MayNavigate(p, i); a closed live session is not saved.
NavigateTo(p, i) ==
    IF i = p.current THEN p
    ELSE OpenItem(IF p.live.lifecycle = "closed" THEN p ELSE SaveCurrentItemSession(p), i)

-----------------------------------------------------------------------------
(* Adopting what the backend knows: [scores, responses, sessions, attempts] *)
(* are the itemScores, itemResponses, itemSessions and itemSessionStates of *)
(* an AssessmentSessionState.                                               *)

\* Variant: the item results are cleared and not restored.
ReplaceStateOnly(p, state, responses, sessions) ==
    [p EXCEPT !.currentId = 1,
              !.results   = {},
              !.attempts  = state.attempts,
              !.answered  = {i \in Items : state.responses[i] # Unanswered},
              !.submitted = state.scores,
              !.responses = responses,
              !.sessions  = sessions]

\* replaceStatePreservingResponsesAndSessions(): scores and item session
\* control come from the backend, responses and sessions from the caller.
ReplaceState(p, state, responses, sessions) ==
    [p EXCEPT !.currentId = 1,
              !.results   = state.scores,
              !.attempts  = state.attempts,
              !.answered  = {i \in Items : state.responses[i] # Unanswered},
              !.submitted = state.scores,
              !.responses = responses,
              !.sessions  = sessions]

\* The constructor of AssessmentPlayer, with the state initSession() returned.
Boot(state) ==
    OpenItem([current   |-> 1,
              currentId |-> 1,
              live      |-> NewSession(Unanswered),
              responses |-> state.responses,
              sessions  |-> state.sessions,
              results   |-> state.scores,
              attempts  |-> state.attempts,
              answered  |-> {i \in Items : state.responses[i] # Unanswered},
              submitted |-> state.scores,
              settings  |-> InitialSettings,
              done      |-> FALSE], 1)
=============================================================================
