---------------------------- MODULE TimeManager ----------------------------
(***************************************************************************)
(* Time limits and time tracking of an assessment: the class TimeManager   *)
(* with what AssessmentPlayer asks of it.  Three scopes have clocks of     *)
(* their own (testPart, section, item), the assessment a total.  A scope's *)
(* clock is a start time and a record of what was credited before; start   *)
(* times are tested for truth in the code, so 0 stands for undefined.      *)
(*                                                                         *)
(* Time advances apart from the interval that looks at it: a browser may   *)
(* delay the interval for as long as it likes.  One unit is one second.    *)
(*                                                                         *)
(* Two timings are kept outside the page: what the host has of getState(), *)
(* and the backend's copy of it, which a submission changes by itself: it  *)
(* files what the session of the item reports as its time spent, and no    *)
(* time of a section, testPart or total with it.                           *)
(***************************************************************************)
EXTENDS Integers, FiniteSets

CONSTANTS
    N,                \* items 1 .. N, in order
    SectionOf, PartOf,
    MaxTime, MinTime, \* limits of each scope instance in seconds; 0: none
    AllowLate,        \* allowLateSubmission of each scope instance
    WarningThreshold,
    Submitted,        \* bound: the <<item, seconds>> that submissions report
    ClockStart,       \* what now() returns when the player is made
    Span              \* bound: the seconds the clock goes through

Items == 1 .. N
None == 0
Scopes == {"testPart", "section", "item"}
Levels == Scopes \cup {"assessment"}

\* The instances of scopes: an item, section or testPart by its number.
Keys == Levels \X (0 .. N)

ASSUME TimeAssumption ==
    /\ N \in Nat \ {0}
    /\ SectionOf \in [Items -> Items]
    /\ PartOf \in [Items -> Items]
    /\ MaxTime \in [Keys -> Nat]
    /\ MinTime \in [Keys -> Nat]
    /\ AllowLate \in [Keys -> BOOLEAN]
    /\ WarningThreshold \in Nat
    /\ Submitted \subseteq Items \X (Nat \ {0})
    /\ ClockStart \in Nat \ {0}
    /\ Span \in Nat

VARIABLES
    clock,   \* what now() returns
    tm,      \* the TimeManager of the page
    index,   \* AssessmentPlayer.currentItemIndex
    alive,   \* whether the player has not been destroyed
    saved,   \* the timing the host saved last
    stored,  \* the timing of the session in the backend
    touched  \* history: the timings that a submission's time has come into

vars == <<clock, tm, index, alive, saved, stored, touched>>

\* The timings that "touched" keeps book of: those of the page, the host and
\* the backend.
Copies == {"page", "saved", "stored"}

-----------------------------------------------------------------------------
(* Scope instances.                                                        *)

Under(s, i) ==
    CASE s = "item"     -> i
      [] s = "section"  -> SectionOf[i]
      [] s = "testPart" -> PartOf[i]

KeyOf(l, i) == <<l, IF l = "assessment" THEN 0 ELSE Under(l, i)>>

-----------------------------------------------------------------------------
(* Reading the clocks.                                                     *)

Since(t) == IF clock > t THEN clock - t ELSE 0

\* getTotalElapsedMs()
Total(t) == t.total + (IF t.paused THEN 0 ELSE Since(t.lastTickAt))

\* getScopeElapsedMs()
Elapsed(t, s, id) ==
    LET c == t.scope[s]
    IN  c.times[id] + (IF id = c.id /\ c.start # 0 /\ ~t.paused
                       THEN Since(c.start) ELSE 0)

ElapsedOf(t, l, i) ==
    IF l = "assessment" THEN Total(t) ELSE Elapsed(t, l, Under(l, i))

-----------------------------------------------------------------------------
(* The clock of a scope.                                                   *)

\* endCurrentSection(), endCurrentTestPart(): credit what has run.
Credit(c) ==
    IF c.id # None /\ c.start # 0
    THEN [c EXCEPT !.times[c.id] = @ + Since(c.start), !.start = 0]
    ELSE [c EXCEPT !.start = 0]

\* endItem() and endCurrentItem() also forget the item.
EndItem(c) == IF c.start # 0 THEN [Credit(c) EXCEPT !.id = None] ELSE c

\* Variant: the scope left is not credited.
BeginUncredited(c, id, paused) ==
    IF c.id = id /\ c.start # 0 THEN c
    ELSE [c EXCEPT !.id = id, !.start = IF paused THEN 0 ELSE clock]

\* startItem(), startSection(), startTestPart()
Begin(c, id, paused) ==
    IF c.id = id /\ c.start # 0 THEN c
    ELSE [Credit(c) EXCEPT !.id = id, !.start = IF paused THEN 0 ELSE clock]

Run(c) == [c EXCEPT !.start = IF c.id # None THEN clock ELSE c.start]

-----------------------------------------------------------------------------
(* Operations of TimeManager.                                              *)

NewScope == [id |-> None, start |-> 0, times |-> [k \in 0 .. N |-> 0]]

New ==
    [total      |-> 0,
     scope      |-> [s \in Scopes |-> NewScope],
     paused     |-> FALSE,
     lastTickAt |-> clock,
     timer      |-> TRUE,
     warned     |-> {},
     expired    |-> {},
     active     |-> None]

ActivateScopes(t, i) ==
    [t EXCEPT !.scope = [s \in Scopes |-> Begin(t.scope[s], Under(s, i), t.paused)],
              !.active = i]

\* checkpointActiveScopes()
Checkpoint(t, restart) ==
    [t EXCEPT !.scope = [s \in Scopes |->
        IF restart /\ ~t.paused THEN Run(Credit(t.scope[s])) ELSE Credit(t.scope[s])]]

\* Variant: the clocks go on running under the pause.
PausedOnly(t) == [t EXCEPT !.total = Total(t), !.lastTickAt = clock, !.paused = TRUE]

Paused(t) ==
    IF t.paused THEN t
    ELSE [Checkpoint(t, FALSE) EXCEPT !.total = Total(t),
                                      !.lastTickAt = clock,
                                      !.paused = TRUE]

Resumed(t) ==
    IF ~t.paused THEN t
    ELSE [t EXCEPT !.paused = FALSE,
                   !.scope = [s \in Scopes |-> Run(t.scope[s])],
                   !.lastTickAt = clock]

\* What getState() makes of the state it returns a copy of.
Got(t) ==
    [Checkpoint(t, TRUE) EXCEPT !.total = Total(t),
                                !.lastTickAt = IF t.paused THEN @ ELSE clock]

\* Variant: the saved timing does not say whether tracking was paused.
TimingUnpaused(t) ==
    [total |-> t.total,
     times |-> [s \in Scopes |-> t.scope[s].times],
     ids   |-> [s \in Scopes |-> t.scope[s].id]]

\* What of the state survives in the timing the host saves.
Timing(t) ==
    [total  |-> t.total,
     times  |-> [s \in Scopes |-> t.scope[s].times],
     ids    |-> [s \in Scopes |-> t.scope[s].id],
     paused |-> t.paused]

\* restoreState(); startTimer() ends a pause when the interval had stopped.
Restored(t, timing) ==
    LET limit   == MaxTime[<<"assessment", 0>>]
        restart == ~t.timer /\ limit # 0 /\ timing.total < limit
        clockOf(s) == [id    |-> timing.ids[s],
                       start |-> IF timing.paused \/ timing.ids[s] = None THEN 0 ELSE clock,
                       times |-> timing.times[s]]
    IN  [t EXCEPT !.total = timing.total,
                  !.scope = [s \in Scopes |-> clockOf(s)],
                  !.paused = timing.paused /\ ~restart,
                  !.lastTickAt = IF ~timing.paused \/ restart THEN clock ELSE @,
                  !.timer = t.timer \/ restart]

-----------------------------------------------------------------------------
(* The interval.                                                           *)

\* getActiveCandidates(): the levels that have a limit to watch.
Candidates(t) ==
    {l \in Levels : /\ l \in Scopes => t.active # None
                    /\ MaxTime[KeyOf(l, t.active)] # 0}

Remaining(t, l) == MaxTime[KeyOf(l, t.active)] - ElapsedOf(t, l, t.active)

Rank(l) ==
    CASE l = "assessment" -> 1 [] l = "testPart" -> 2
      [] l = "section"    -> 3 [] l = "item"     -> 4

Hard(t, l) == ~AllowLate[KeyOf(l, t.active)]

\* The levels found expired for the first time.
Due(t) == {l \in Candidates(t) : Remaining(t, l) <= 0 /\ KeyOf(l, t.active) \notin t.expired}

\* nearestRemaining(): the first of the least.
Nearest(t) ==
    CHOOSE l \in Candidates(t) :
        \A m \in Candidates(t) \ {l} :
            \/ Remaining(t, l) < Remaining(t, m)
            \/ Remaining(t, l) = Remaining(t, m) /\ Rank(l) < Rank(m)

Warned(t) ==
    IF Candidates(t) = {} THEN {}
    ELSE {KeyOf(l, t.active) : l \in
             {l \in {Nearest(t)} : Remaining(t, l) \in 1 .. WarningThreshold}}

\* Variant: the first limit found ends the timer, be it a hard one or not.
TickedAny(t) ==
    LET u == [t EXCEPT !.total = Total(t), !.lastTickAt = clock]
    IN  [u EXCEPT !.expired = @ \cup {KeyOf(l, u.active) : l \in Due(u)},
                  !.timer = Due(u) = {}]

\* Variant: only the level with the least time left is looked at.
TickedNearest(t) ==
    LET u   == [t EXCEPT !.total = Total(t), !.lastTickAt = clock]
        due == Due(u) \cap {Nearest(u)}
    IN  IF t.paused \/ Candidates(u) = {} THEN [t EXCEPT !.lastTickAt = clock]
        ELSE [u EXCEPT !.expired = @ \cup {KeyOf(l, u.active) : l \in due},
                       !.timer = \A l \in due : ~Hard(u, l)]

\* Variant: the expired levels are looked up before the time is added.
TickedEarly(t) ==
    [t EXCEPT !.total = Total(t), !.lastTickAt = clock,
              !.expired = @ \cup {KeyOf(l, t.active) : l \in
                  {m \in Candidates(t) : Remaining(t, m) <= 1}}]

\* The limits are gone through from the outermost to the innermost; the first
\* hard one stops the timer, and those after it are not looked at.
Ticked(t) ==
    LET u    == [t EXCEPT !.total = Total(t), !.lastTickAt = clock]
        hard == {l \in Due(u) : Hard(u, l)}
        seen == {l \in Due(u) : \A h \in hard : Rank(l) <= Rank(h)}
    IN  IF t.paused THEN [t EXCEPT !.lastTickAt = clock]
        ELSE [u EXCEPT !.expired = @ \cup {KeyOf(l, u.active) : l \in seen},
                       !.timer = hard = {},
                       !.warned = IF hard = {} THEN @ \cup Warned(u) ELSE @]

-----------------------------------------------------------------------------
(* The player and its host.                                                *)

\* The end of navigateTo(): the item left is ended, the new scopes begin.
Show(t, from, to) ==
    ActivateScopes(IF from \notin {None, to} THEN [t EXCEPT !.scope["item"] = EndItem(@)] ELSE t,
                   to)

Init ==
    /\ clock = ClockStart
    /\ tm = Show(New, None, 1)
    /\ index = 1
    /\ alive = TRUE
    /\ saved = Timing(New)
    /\ stored = saved
    /\ touched = {}

\* These timings are replaced by a copy of another.
CopiedTo(copies, from) ==
    touched' = {c \in Copies : (IF c \in copies THEN from ELSE c) \in touched}

Advance ==
    /\ clock < ClockStart + Span
    /\ clock' = clock + 1
    /\ UNCHANGED <<tm, index, alive, saved, stored, touched>>

Tick ==
    /\ tm.timer
    /\ tm' = Ticked(tm)
    /\ UNCHANGED <<clock, index, alive, saved, stored, touched>>

\* assertMinimumTime()
MinimumReached(l, i) == ElapsedOf(tm, l, i) >= MinTime[KeyOf(l, i)]

\* navigateTo() by the candidate, in a nonlinear test: assertTransitionMinimum().
Navigate(i) ==
    /\ alive
    /\ i # index
    /\ PartOf[i] = PartOf[index] \/ i = index + 1
    /\ MinimumReached("item", index)
    /\ SectionOf[i] # SectionOf[index] => MinimumReached("section", index)
    /\ PartOf[i] # PartOf[index] => MinimumReached("testPart", index)
    /\ tm' = Show(tm, index, i)
    /\ index' = i
    /\ UNCHANGED <<clock, alive, saved, stored, touched>>

Pause ==
    /\ alive /\ ~tm.paused
    /\ tm' = Paused(tm)
    /\ UNCHANGED <<clock, index, alive, saved, stored, touched>>

Resume ==
    /\ alive /\ tm.paused
    /\ tm' = Resumed(tm)
    /\ UNCHANGED <<clock, index, alive, saved, stored, touched>>

\* getState(); the host keeps what it returns and hands it to saveState(),
\* which puts it in the place of what the backend had.
Save ==
    /\ alive
    /\ tm' = Got(tm)
    /\ saved' = Timing(tm')
    /\ stored' = saved'
    /\ CopiedTo({"saved", "stored"}, "page")
    /\ UNCHANGED <<clock, index, alive>>

\* restoreState() of a live player goes on where the saved state was.
RestoreState ==
    /\ alive
    /\ LET to == IF saved.ids["item"] = None THEN 1 ELSE saved.ids["item"]
       IN  /\ tm' = Show(Restored(tm, saved), index, to)
           /\ index' = to
    /\ CopiedTo({"page"}, "saved")
    /\ UNCHANGED <<clock, alive, saved, stored>>

\* A new page opens the session with the timing that the backend has.
Reload ==
    /\ LET to == IF stored.ids["item"] = None THEN 1 ELSE stored.ids["item"]
       IN  /\ tm' = Show(Restored(New, stored), None, to)
           /\ index' = to
    /\ alive' = TRUE
    /\ CopiedTo({"page"}, "stored")
    /\ UNCHANGED <<clock, saved, stored>>

\* submitResponses() accepts an item and files the time its session reports;
\* the page goes by its own clocks.  No session has lasted longer than the time
\* that has passed.
SubmissionAccepted(i) ==
    /\ \E seconds \in 1 .. clock - ClockStart :
           /\ <<i, seconds>> \in Submitted
           /\ stored' = [stored EXCEPT !.times["item"][i] = seconds]
    /\ touched' = touched \cup {"stored"}
    /\ UNCHANGED <<clock, tm, index, alive, saved>>

Destroy ==
    /\ alive
    /\ tm' = [Checkpoint(tm, FALSE) EXCEPT !.timer = FALSE]
    /\ alive' = FALSE
    /\ UNCHANGED <<clock, index, saved, stored, touched>>

Next ==
    \/ Advance
    \/ Tick
    \/ \E i \in Items : Navigate(i)
    \/ Pause
    \/ Resume
    \/ Save
    \/ RestoreState
    \/ Reload
    \/ \E i \in Items : SubmissionAccepted(i)
    \/ Destroy

Spec == Init /\ [][Next]_vars

\* The interval fires again and again while it is set.
FairSpec == Spec /\ WF_vars(Tick)

-----------------------------------------------------------------------------
(* Properties.                                                             *)

ScopeClock == [id : 0 .. N, start : 0 .. ClockStart + Span, times : [0 .. N -> Nat]]

TypeOK ==
    /\ clock \in ClockStart .. ClockStart + Span
    /\ tm \in [total : Nat, scope : [Scopes -> ScopeClock], paused : BOOLEAN,
               lastTickAt : Nat, timer : BOOLEAN, warned : SUBSET Keys,
               expired : SUBSET Keys, active : Items]
    /\ index \in Items
    /\ alive \in BOOLEAN
    /\ {saved, stored} \subseteq
           [total : Nat, times : [Scopes -> [0 .. N -> Nat]],
            ids : [Scopes -> 0 .. N], paused : BOOLEAN]
    /\ touched \subseteq Copies

\* The time of the instances of a scope in a set.
TimeOf(s, S) ==
    LET sum[k \in 0 .. N] ==
            IF k = 0 THEN 0
            ELSE sum[k - 1] + (IF k \in S THEN Elapsed(tm, s, k) ELSE 0)
    IN  sum[N]

\* The separate accounts agree: the total, which is kept by other means (ticks,
\* not start times), is what all sections and what all testParts have run for,
\* and each of these has run for what its items have: through navigation, late
\* ticks, pauses, saves and restored states.  Only where a submission's time has
\* come into the page nothing is said of its items: in a session opened again
\* after a submission, before the host has saved its state, the item has the
\* time the submission filed, and its section, its testPart and the total have
\* none of it, in that page and in all that is saved of it.
ScopesAddUp ==
    alive =>
        /\ \A s \in Scopes \ {"item"} : Total(tm) = TimeOf(s, Items)
        /\ "page" \notin touched =>
               /\ \A i \in Items, s \in Scopes \ {"item"} :
                     Elapsed(tm, s, Under(s, i)) =
                         TimeOf("item", {j \in Items : Under(s, j) = Under(s, i)})
               /\ Total(tm) = TimeOf("item", Items)

\* A scope is marked expired only in a tick that finds its limit passed; the
\* mark is never taken back, so a wrong one would silence the limit for good.
MarkedWhenPassed ==
    [][\A l \in Levels, i \in Items :
          KeyOf(l, i) \in tm'.expired \ tm.expired
              => /\ MaxTime[KeyOf(l, i)] # 0
                 /\ ElapsedOf(tm, l, i) >= MaxTime[KeyOf(l, i)]]_vars

\* The one interval that drives warnings, ticks and all limits ends only for a
\* hard limit that has passed, never for one with allowLateSubmission.
StoppedByHardLimit ==
    alive /\ ~tm.timer => \E k \in tm.expired : ~AllowLate[k]

\* The limit of this level has passed for the item shown, and is not marked.
Unnoticed(l) ==
    /\ alive /\ tm.timer /\ ~tm.paused
    /\ MaxTime[KeyOf(l, index)] # 0
    /\ ElapsedOf(tm, l, index) >= MaxTime[KeyOf(l, index)]
    /\ KeyOf(l, index) \notin tm.expired

\* A limit that has passed does not go unnoticed for ever, however late the
\* interval fires and whatever the candidate does meanwhile.
ExpiryNoticed == \A l \in Levels : Unnoticed(l) ~> ~Unnoticed(l)

\* No time is lost and none is counted twice: only the item shown gains time,
\* one second for each that passes while tracking runs; a session opened again
\* goes on from what the backend has on file, submissions' times included.
Watch == INSTANCE Stopwatch WITH
    Shown <- Items,
    spent <- [i \in Items |-> Elapsed(tm, "item", i)],
    kept  <- [i \in Items |-> saved.times["item"][i]],
    filed <- [i \in Items |-> stored.times["item"][i]],
    item  <- index,
    runs  <- alive /\ ~tm.paused

KeepsStopwatch == Watch!Spec
=============================================================================
