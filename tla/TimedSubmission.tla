-------------------------- MODULE TimedSubmission --------------------------
(***************************************************************************)
(* Submissions under time limits: the evidence that submitCurrentItem()    *)
(* sends with an item, and what ReferenceBackendAdapter makes of it.  The  *)
(* time spent that an accepted submission files is left to TimeManager:    *)
(* the limits are not judged by it, and Submitted is empty here.           *)
(***************************************************************************)
EXTENDS TimeManager

VARIABLES
    request,  \* the submission the backend has yet to judge
    accepted  \* the items it has accepted

submissionVars == <<clock, tm, index, alive, saved, stored, touched, request, accepted>>

NoRequest == [item |-> None]

\* getEffectiveItemTimeLimits(): the least limit, of the outermost scope.
Effective(i) ==
    {l \in Levels :
        /\ MaxTime[KeyOf(l, i)] # 0
        /\ \A m \in Levels \ {l} :
              \/ MaxTime[KeyOf(m, i)] = 0
              \/ MaxTime[KeyOf(m, i)] > MaxTime[KeyOf(l, i)]
              \/ MaxTime[KeyOf(m, i)] = MaxTime[KeyOf(l, i)] /\ Rank(m) > Rank(l)}

\* getSubmitTimingEvidence(): expired and allowLateSubmission of that scope.
Evidence(i) ==
    [expired |-> \E l \in Effective(i) : ElapsedOf(tm, l, i) >= MaxTime[KeyOf(l, i)],
     late    |-> \E l \in Effective(i) : AllowLate[KeyOf(l, i)]]

\* The hard limits of the item that have passed, by the player's own clocks.
Overdue(i) ==
    {l \in Levels : /\ MaxTime[KeyOf(l, i)] # 0
                    /\ ~AllowLate[KeyOf(l, i)]
                    /\ ElapsedOf(tm, l, i) >= MaxTime[KeyOf(l, i)]}

\* submitCurrentItem() up to its request; "overdue" only records what was so.
SubmitCurrentItem ==
    /\ alive
    /\ request = NoRequest
    /\ index \notin accepted
    /\ MinimumReached("item", index)
    /\ request' = [item |-> index, evidence |-> Evidence(index), overdue |-> Overdue(index)]
    /\ UNCHANGED <<clock, tm, index, alive, saved, stored, touched, accepted>>

\* The session was created at ClockStart; the limit of the assessment is judged
\* by the backend's own clock, every other one by the evidence.
TimeLimitExpired ==
    LET limit == <<"assessment", 0>>
    IN  \/ /\ MaxTime[limit] # 0
           /\ ~AllowLate[limit]
           /\ clock - ClockStart > MaxTime[limit]
        \/ request.evidence.expired /\ ~request.evidence.late

\* submitResponses()
SubmitResponses ==
    /\ request # NoRequest
    /\ accepted' = IF TimeLimitExpired THEN accepted ELSE accepted \cup {request.item}
    /\ request' = NoRequest
    /\ UNCHANGED <<clock, tm, index, alive, saved, stored, touched>>

TimedInit == Init /\ request = NoRequest /\ accepted = {}

TimedNext ==
    \/ Next /\ UNCHANGED <<request, accepted>>
    \/ SubmitCurrentItem
    \/ SubmitResponses

TimedSpec == TimedInit /\ [][TimedNext]_submissionVars

-----------------------------------------------------------------------------
\* A submission made after a hard limit of the item, its section or testPart,
\* or of the assessment is refused; no limit that allows late submission hides
\* one that does not.
LateRefused ==
    [][accepted' # accepted => request.overdue = {}]_submissionVars
=============================================================================
