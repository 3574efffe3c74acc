---------------------------- MODULE ItemLifecycle ----------------------------
(***************************************************************************)
(* One item session of the item player: the part of the state of a Player  *)
(* that decides what may be done next (lifecycle status, completion        *)
(* status, numAttempts) and the candidate's response, and the effect of    *)
(* every lifecycle command of ItemSession.dispatch() on it.                *)
(*                                                                         *)
(* The response map of an item is one value of Responses; Unanswered is a  *)
(* map without any non-empty value.  Outcome, template and context         *)
(* variables other than completionStatus and numAttempts decide nothing    *)
(* here and are left out, as is the duration.  An adaptive item's response *)
(* processing may assign completionStatus: what it assigns is the argument *)
(* "outcome" of the operators that run it.                                 *)
(***************************************************************************)
EXTENDS Naturals

CONSTANTS
    Items,       \* identifiers of the items, 1..N in delivery order
    Adaptive,    \* the items declared adaptive="true"
    Responses,   \* the response maps a candidate can produce
    Unanswered,  \* the response map with no non-empty value
    Invalid      \* response maps that validateResponses() rejects

ASSUME LifecycleAssumption ==
    /\ Adaptive \subseteq Items
    /\ Unanswered \in Responses
    /\ Invalid \subseteq Responses

Lifecycles == {"initial", "interacting", "suspended", "closed"}

CompletionStatuses == {"not_attempted", "unknown", "incomplete", "completed"}

\* What one run of response processing assigns to completionStatus.
Outcomes == {"unassigned", "incomplete", "completed"}

Session == [lifecycle  : Lifecycles,
            completion : CompletionStatuses,
            attempts   : Nat,
            response   : Responses]

\* The absence of a serialized session in AssessmentSessionState.itemSessions.
NoSession == [lifecycle  |-> "none",
              completion |-> "not_attempted",
              attempts   |-> 0,
              response   |-> Unanswered]

SessionOrNone == Session \cup {NoSession}

\* openSession without a restore snapshot, with response overrides.
NewSession(response) ==
    [lifecycle  |-> "initial",
     completion |-> "not_attempted",
     attempts   |-> 0,
     response   |-> response]

IsWritable(s) == s.lifecycle \in {"initial", "interacting"}

\* openSession({ restore, activate: true }).
ActivateAttempt(s) ==
    IF s.lifecycle = "suspended" THEN [s EXCEPT !.lifecycle = "interacting"] ELSE s

SetResponse(s, response) == [s EXCEPT !.response = response]

SuspendAttempt(s) == [s EXCEPT !.lifecycle = "suspended"]

\* The completion status after an adaptive attempt: it is promoted before
\* response processing runs, which may then assign it.
AdaptiveCompletion(s, outcome) ==
    IF outcome # "unassigned" THEN outcome
    ELSE IF s.completion = "not_attempted" THEN "unknown"
    ELSE s.completion

\* endAttempt throws on a session that is not writable, and on an adaptive
\* item that is already completed; scoring a non-adaptive item never throws.
CanEndAttempt(i, s) ==
    /\ IsWritable(s)
    /\ i \in Adaptive => s.completion # "completed"

\* A non-adaptive item is completed by its first counted attempt.
EndAttempt(i, s, outcome) ==
    LET completion == IF i \in Adaptive THEN AdaptiveCompletion(s, outcome)
                                        ELSE "completed"
    IN  [s EXCEPT !.attempts   = @ + 1,
                  !.completion = completion,
                  !.lifecycle  = IF completion = "completed" THEN "closed"
                                                             ELSE "interacting"]

\* submitAttempt throws on a completed item of either kind; it scores and
\* counts like endAttempt and leaves the lifecycle as it is.
CanSubmitAttempt(s) == IsWritable(s) /\ s.completion # "completed"

SubmitAttempt(i, s, outcome) == [EndAttempt(i, s, outcome) EXCEPT !.lifecycle = s.lifecycle]

\* scoreAttempt runs response processing whatever the lifecycle, and counts
\* nothing.
ScoreAttempt(i, s, outcome) ==
    [s EXCEPT !.completion =
        IF i \in Adaptive /\ outcome # "unassigned" THEN outcome ELSE @]

\* newTemplate, which resets the responses unless told not to.
NewTemplate == NewSession(Unanswered)
=============================================================================
