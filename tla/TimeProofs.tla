----------------------------- MODULE TimeProofs -----------------------------
(***************************************************************************)
(* Proofs about TimeManager for every test, all limits and any time.       *)
(*                                                                         *)
(* What a step does is said of the times that the clocks show (Reads).     *)
(* TimeInv says which clocks run: those of the item, section and part      *)
(* shown exactly while tracking does, and no other; in a pause none, and   *)
(* with the player all end.  Then a second is added once to each scope     *)
(* shown, and every other step shows what was shown, or saved, before.     *)
(*                                                                         *)
(* BalanceInv says that the scopes add up, in what is shown, in what is    *)
(* saved and in what the backend has; of a timing that a submission's time *)
(* has come into it says so of all but the items.  The sums are witnesses  *)
(* that the steps carry along; that the recursive function of TimeOf       *)
(* computes them follows from a least instance at which it would not.      *)
(***************************************************************************)
EXTENDS TimeManager, FiniteSetTheorems, WellFoundedInduction, TLAPS

\* A TimeManager that may not yet have an item.
Manager ==
    [total : Nat, scope : [Scopes -> ScopeClock], paused : BOOLEAN,
     lastTickAt : Nat, timer : BOOLEAN, warned : SUBSET Keys,
     expired : SUBSET Keys, active : 0 .. N]

SavedTiming ==
    [total : Nat, times : [Scopes -> [0 .. N -> Nat]], ids : [Scopes -> 0 .. N],
     paused : BOOLEAN]

\* The time that a clock shows for instance k of its scope.
ReadAt(c, k, paused, now) ==
    c.times[k] + (IF k = c.id /\ c.start # 0 /\ ~paused
                  THEN (IF now > c.start THEN now - c.start ELSE 0) ELSE 0)

ClockOK ==
    clock \in ClockStart .. ClockStart + Span /\ clock \in Nat /\ clock # 0
    /\ clock \in 0 .. ClockStart + Span

\* Of a clock: it has not been started in the future, and stands in a pause.
Steady(c, paused) == c.start <= clock /\ (paused => c.start = 0)

-----------------------------------------------------------------------------
(* Clocks.                                                                 *)

LEMMA ClockFacts == ASSUME TypeOK, TimeAssumption PROVE ClockOK
  BY DEF TypeOK, TimeAssumption, ClockOK

LEMMA SinceType ==
    ASSUME ClockOK, NEW t \in Nat
    PROVE  Since(t) \in Nat /\ Since(clock) = 0
  BY DEF ClockOK, Since

LEMMA UnderType ==
    ASSUME TimeAssumption, NEW s \in Scopes, NEW i \in Items
    PROVE  Under(s, i) \in Items /\ Under("item", i) = i
  BY DEF TimeAssumption, Under, Scopes

LEMMA ItemsRange ==
    ASSUME TimeAssumption
    PROVE  /\ N \in Nat \ {0} /\ Items \subseteq 0 .. N /\ 1 \in Items /\ 0 \notin Items
           /\ 0 \in 0 .. N /\ \A k \in 0 .. N : k # 0 => k \in Items
<1>1. N \in Nat \ {0}
  BY DEF TimeAssumption
<1>2. Items \subseteq 0 .. N
  BY <1>1 DEF Items
<1>3. 1 \in Items
  BY <1>1 DEF Items
<1>4. 0 \notin Items
  BY <1>1 DEF Items
<1>5. 0 \in 0 .. N
  BY <1>1
<1>6. \A k \in 0 .. N : k # 0 => k \in Items
  BY <1>1 DEF Items
<1>7. QED
  BY <1>1, <1>2, <1>3, <1>4, <1>5, <1>6

LEMMA CreditReads ==
    ASSUME TimeAssumption, ClockOK, NEW c \in ScopeClock
    PROVE  /\ Credit(c) \in ScopeClock
           /\ Credit(c).start = 0
           /\ Credit(c).id = c.id
           /\ \A k \in Items : Credit(c).times[k] = ReadAt(c, k, FALSE, clock)
<1> DEFINE z == [c EXCEPT !.start = 0]
<1>1. /\ c.id \in 0 .. N /\ c.start \in Nat /\ c.times \in [0 .. N -> Nat]
      /\ 0 \in 0 .. ClockStart + Span
  BY DEF ScopeClock, ClockOK, TimeAssumption
<1>2. Since(c.start) \in Nat
  BY <1>1, SinceType
<1>3. z \in ScopeClock /\ z.start = 0 /\ z.id = c.id /\ z.times = c.times
  BY <1>1 DEF ScopeClock
<1>4. CASE c.id # None /\ c.start # 0
  <2> DEFINE times == [c.times EXCEPT ![c.id] = @ + Since(c.start)]
             d == Since(c.start)
  <2>1. Credit(c) = [c EXCEPT !.times = times, !.start = 0]
    <3>1. Credit(c) = [c EXCEPT !.times[c.id] = @ + d, !.start = 0]
      BY <1>4 DEF Credit
    <3> HIDE DEF d
    <3>2. [c EXCEPT !.times[c.id] = @ + d, !.start = 0]
            = [c EXCEPT !.times = [c.times EXCEPT ![c.id] = @ + d], !.start = 0]
      BY DEF ScopeClock
    <3>3. QED
      BY <3>1, <3>2 DEF d
  <2>3. times \in [0 .. N -> Nat]
    BY <1>1, <1>2
  <2>4. \A k \in 0 .. N : times[k] = c.times[k] + (IF k = c.id THEN Since(c.start) ELSE 0)
    BY <1>1, <1>2
  <2>5. \A k \in Items : times[k] = ReadAt(c, k, FALSE, clock)
    BY <1>4, <2>4, ItemsRange DEF ReadAt, Since
  <2> HIDE DEF times
  <2>6. /\ Credit(c) \in ScopeClock /\ Credit(c).start = 0 /\ Credit(c).id = c.id
        /\ Credit(c).times = times
    BY <1>1, <2>1, <2>3 DEF ScopeClock
  <2>7. QED
    BY <2>5, <2>6
<1>5. CASE ~(c.id # None /\ c.start # 0)
  <2>1. Credit(c) = z
    BY <1>5 DEF Credit
  <2>2. \A k \in Items : c.times[k] = ReadAt(c, k, FALSE, clock)
    BY <1>1, <1>5, ItemsRange DEF ReadAt, None
  <2>3. QED
    BY <1>3, <2>1, <2>2
<1>6. QED
  BY <1>4, <1>5

\* A clock that is not running shows what is credited.
LEMMA StoppedReads ==
    ASSUME NEW c, NEW k, NEW paused, NEW now, c.start = 0 \/ paused, c.times[k] \in Nat
    PROVE  ReadAt(c, k, paused, now) = c.times[k]
  BY DEF ReadAt

\* In a pause it makes no difference that no clock runs.
LEMMA SteadyReads ==
    ASSUME ClockOK, NEW c, NEW k, NEW paused \in BOOLEAN, Steady(c, paused)
    PROVE  ReadAt(c, k, FALSE, clock) = ReadAt(c, k, paused, clock)
  BY DEF ReadAt, Steady

\* Nor has one that has just been started anything to add.
LEMMA NothingSince ==
    ASSUME ClockOK, NEW c, NEW k, NEW paused, c.start \in {0, clock}, c.times[k] \in Nat
    PROVE  ReadAt(c, k, paused, clock) = c.times[k]
  BY DEF ReadAt, ClockOK

LEMMA EndItemReads ==
    ASSUME TimeAssumption, ClockOK, NEW c \in ScopeClock
    PROVE  /\ EndItem(c) \in ScopeClock
           /\ EndItem(c).start = 0
           /\ EndItem(c).id \in {c.id, None}
           /\ c.start # 0 => EndItem(c).id = None
           /\ \A k \in Items : EndItem(c).times[k] = ReadAt(c, k, FALSE, clock)
<1>1. CASE c.start = 0
  <2>1. EndItem(c) = c
    BY <1>1 DEF EndItem
  <2>2. \A k \in Items : c.times[k] \in Nat
    BY ItemsRange DEF ScopeClock
  <2>3. QED
    BY <1>1, <2>1, <2>2, StoppedReads
<1>2. CASE c.start # 0
  <2> DEFINE e == Credit(c)
  <2>1. /\ e \in ScopeClock /\ e.start = 0
        /\ \A k \in Items : e.times[k] = ReadAt(c, k, FALSE, clock)
    BY CreditReads
  <2>2. EndItem(c) = [e EXCEPT !.id = None]
    BY <1>2 DEF EndItem
  <2> HIDE DEF e
  <2>3. QED
    BY <1>2, <2>1, <2>2, ItemsRange DEF ScopeClock, None
<1>3. QED
  BY <1>1, <1>2

\* A scope that begins shows for every instance what it showed before, and runs
\* for the new one unless tracking is paused.
LEMMA BeginReads ==
    ASSUME TimeAssumption, ClockOK, NEW c \in ScopeClock, NEW id \in Items,
           NEW paused \in BOOLEAN, Steady(c, paused)
    PROVE  /\ Begin(c, id, paused) \in ScopeClock
           /\ Begin(c, id, paused).id = id
           /\ Steady(Begin(c, id, paused), paused)
           /\ ~paused => Begin(c, id, paused).start # 0
           /\ \A k \in Items : ReadAt(Begin(c, id, paused), k, paused, clock)
                                   = ReadAt(c, k, paused, clock)
<1> DEFINE b == Begin(c, id, paused)
<1>1. CASE c.id = id /\ c.start # 0
  BY <1>1 DEF Begin
<1>2. CASE ~(c.id = id /\ c.start # 0)
  <2> DEFINE e == Credit(c)
             start == IF paused THEN 0 ELSE clock
  <2>1. /\ e \in ScopeClock
        /\ \A k \in Items : e.times[k] = ReadAt(c, k, FALSE, clock)
    BY CreditReads
  <2>2. b = [e EXCEPT !.id = id, !.start = start]
    BY <1>2 DEF Begin
  <2>3. start \in 0 .. ClockStart + Span /\ start <= clock /\ (paused => start = 0)
        /\ (~paused => start # 0 /\ start = clock)
    BY DEF ClockOK
  <2> HIDE DEF e, start, b
  <2>4. /\ b \in ScopeClock /\ b.id = id /\ b.start = start /\ b.times = e.times
    BY <2>1, <2>2, <2>3, ItemsRange DEF ScopeClock
  <2>5. Steady(b, paused) /\ (~paused => b.start # 0)
    BY <2>3, <2>4 DEF Steady
  <2>6. ASSUME NEW k \in Items
        PROVE  ReadAt(b, k, paused, clock) = ReadAt(c, k, paused, clock)
    <3>1. e.times[k] = ReadAt(c, k, FALSE, clock) /\ e.times[k] \in Nat
      BY <2>1, ItemsRange DEF ScopeClock
    <3>2. CASE paused
      <4>1. c.start = 0 /\ c.times[k] \in Nat
        BY <3>2, ItemsRange DEF Steady, ScopeClock
      <4>2. ReadAt(c, k, FALSE, clock) = c.times[k] /\ ReadAt(c, k, paused, clock) = c.times[k]
        BY <4>1, StoppedReads
      <4>3. b.times[k] = e.times[k] /\ b.times[k] \in Nat
        BY <2>4, <3>1
      <4>4. ReadAt(b, k, paused, clock) = e.times[k]
        BY <4>3, <3>2, StoppedReads
      <4>5. QED
        BY <3>1, <4>2, <4>4
    <3>3. CASE ~paused
      <4>1. b.times[k] = e.times[k] /\ b.times[k] \in Nat /\ b.start = clock
        BY <2>3, <2>4, <3>1, <3>3
      <4>2. ReadAt(b, k, paused, clock) = b.times[k]
        BY <4>1, NothingSince
      <4>3. ReadAt(c, k, FALSE, clock) = ReadAt(c, k, paused, clock)
        BY <3>3 DEF ReadAt
      <4>4. QED
        BY <3>1, <4>1, <4>2, <4>3
    <3>4. QED
      BY <3>2, <3>3
  <2>7. QED
    BY <2>4, <2>5, <2>6 DEF b
<1>3. QED
  BY <1>1, <1>2

\* A clock that is started again, here with nothing to credit, shows the same.
LEMMA RunReads ==
    ASSUME TimeAssumption, ClockOK, NEW c \in ScopeClock, c.start = 0
    PROVE  /\ Run(c) \in ScopeClock
           /\ Run(c).id = c.id
           /\ Run(c).times = c.times
           /\ Steady(Run(c), FALSE)
           /\ c.id # None => Run(c).start # 0
           /\ \A k \in Items : ReadAt(Run(c), k, FALSE, clock) = c.times[k]
<1> DEFINE start == IF c.id # None THEN clock ELSE c.start
<1>1. start \in 0 .. ClockStart + Span /\ start \in {0, clock} /\ (c.id # None => start # 0)
  BY DEF ClockOK, TimeAssumption
<1>2. Run(c) = [c EXCEPT !.start = start]
  BY DEF Run
<1> HIDE DEF start
<1>3. Run(c) \in ScopeClock /\ Run(c).id = c.id /\ Run(c).start = start /\ Run(c).times = c.times
  BY <1>1, <1>2 DEF ScopeClock
<1>4. Steady(Run(c), FALSE) /\ (c.id # None => Run(c).start # 0)
  BY <1>1, <1>3 DEF Steady, ClockOK
<1>5. \A k \in Items : c.times[k] \in Nat
  BY ItemsRange DEF ScopeClock
<1>6. ASSUME NEW k \in Items
      PROVE  ReadAt(Run(c), k, FALSE, clock) = c.times[k]
  <2>1. /\ Run(c).times[k] = c.times[k] /\ Run(c).times[k] \in Nat
        /\ Run(c).start \in {0, clock}
    BY <1>1, <1>3, <1>5
  <2>2. QED
    BY <2>1 DEF ReadAt, ClockOK
<1>7. QED
  BY <1>3, <1>4, <1>6

-----------------------------------------------------------------------------
(* Operations of TimeManager.                                              *)

\* No clock of the manager runs in a pause, and no tick was in the future.
Sound(t) ==
    /\ t \in Manager
    /\ t.lastTickAt <= clock
    /\ \A s \in Scopes : Steady(t.scope[s], t.paused)

\* The manager knows the item shown, and the clocks of its scopes run unless
\* paused.
Showing(t, i) ==
    /\ t.active \in Items
    /\ \A s \in Scopes : /\ t.scope[s].id = Under(s, i)
                         /\ ~t.paused => t.scope[s].start # 0

Reads(t, s, k) == ReadAt(t.scope[s], k, t.paused, clock)

\* Two managers show the same times, of all scopes and in total.
SameTimes(t, u) ==
    /\ \A s \in Scopes, k \in Items : Reads(u, s, k) = Reads(t, s, k)
    /\ Total(u) = Total(t)

\* What an operation on the scopes leaves alone.
Alike(t, u) ==
    /\ u.paused = t.paused /\ u.timer = t.timer /\ u.expired = t.expired
    /\ u.warned = t.warned

LEMMA SoundFields ==
    ASSUME TimeAssumption, NEW t, Sound(t)
    PROVE  /\ t \in Manager /\ t.scope \in [Scopes -> ScopeClock] /\ t.paused \in BOOLEAN
           /\ t.timer \in BOOLEAN /\ t.lastTickAt \in Nat /\ t.total \in Nat
           /\ t.active \in 0 .. N /\ t.expired \subseteq Keys
           /\ t.lastTickAt <= clock /\ "item" \in Scopes
           /\ \A s \in Scopes : /\ t.scope[s] \in ScopeClock
                                /\ Steady(t.scope[s], t.paused)
                                /\ \A k \in Items : t.scope[s].times[k] \in Nat
<1>1. /\ t \in Manager /\ t.scope \in [Scopes -> ScopeClock]
      /\ t.lastTickAt \in Nat /\ t.total \in Nat /\ t.lastTickAt <= clock
      /\ t.active \in 0 .. N /\ t.expired \subseteq Keys
      /\ "item" \in Scopes /\ \A s \in Scopes : t.scope[s] \in ScopeClock
  BY DEF Sound, Manager, Scopes
<1>2. t.paused \in BOOLEAN /\ t.timer \in BOOLEAN
  BY DEF Sound, Manager
<1>3. \A s \in Scopes : Steady(t.scope[s], t.paused)
  BY <1>1 DEF Sound
<1>4. \A s \in Scopes, k \in Items : t.scope[s].times[k] \in Nat
  BY <1>1, ItemsRange DEF ScopeClock
<1>5. QED
  BY <1>1, <1>2, <1>3, <1>4

\* A total of ticks that is reckoned up to now, or stands, is what it was.
LEMMA TotalReads ==
    ASSUME ClockOK, NEW t \in Manager, NEW total \in Nat, t.total = total,
           t.paused \/ t.lastTickAt = clock
    PROVE  Total(t) = total
<1>1. CASE t.paused
  BY <1>1 DEF Total
<1>2. CASE t.lastTickAt = clock
  BY <1>2 DEF Total, Since, ClockOK
<1>3. QED
  BY <1>1, <1>2

\* Other clocks for the scopes.
LEMMA WithScope ==
    ASSUME NEW t \in Manager, NEW scope \in [Scopes -> ScopeClock]
    PROVE  LET u == [t EXCEPT !.scope = scope]
           IN  u \in Manager /\ u.scope = scope /\ u.active = t.active /\ Alike(t, u)
               /\ u.total = t.total /\ u.lastTickAt = t.lastTickAt /\ Total(u) = Total(t)
<1> DEFINE u == [t EXCEPT !.scope = scope]
<1>1. u \in Manager
  BY DEF Manager
<1>2. /\ u.scope = scope /\ u.active = t.active
      /\ u.total = t.total /\ u.lastTickAt = t.lastTickAt
  BY DEF Manager
<1>3. Alike(t, u)
  BY DEF Manager, Alike
<1> HIDE DEF u
<1>4. Total(u) = Total(t)
  BY <1>2, <1>3 DEF Total, Alike
<1>5. QED
  BY <1>1, <1>2, <1>3, <1>4 DEF u

LEMMA ActivateScopesReads ==
    ASSUME TimeAssumption, ClockOK, NEW t, Sound(t), NEW i \in Items
    PROVE  LET u == ActivateScopes(t, i)
           IN  /\ Sound(u) /\ Showing(u, i) /\ Alike(t, u) /\ SameTimes(t, u)
<1> DEFINE scope == [s \in Scopes |-> Begin(t.scope[s], Under(s, i), t.paused)]
           v == [t EXCEPT !.scope = scope]
           u == ActivateScopes(t, i)
<1>1. /\ t \in Manager /\ t.scope \in [Scopes -> ScopeClock] /\ t.paused \in BOOLEAN
      /\ "item" \in Scopes /\ Under("item", i) = i
  BY SoundFields, UnderType
<1>2. ASSUME NEW s \in Scopes
      PROVE  /\ Begin(t.scope[s], Under(s, i), t.paused) \in ScopeClock
             /\ Begin(t.scope[s], Under(s, i), t.paused).id = Under(s, i)
             /\ Steady(Begin(t.scope[s], Under(s, i), t.paused), t.paused)
             /\ ~t.paused => Begin(t.scope[s], Under(s, i), t.paused).start # 0
             /\ \A k \in Items :
                    ReadAt(Begin(t.scope[s], Under(s, i), t.paused), k, t.paused, clock)
                        = ReadAt(t.scope[s], k, t.paused, clock)
  <2>1. t.scope[s] \in ScopeClock /\ Under(s, i) \in Items /\ Steady(t.scope[s], t.paused)
    BY <1>1, UnderType DEF Sound
  <2>2. QED
    BY <1>1, <2>1, BeginReads
<1>3. scope \in [Scopes -> ScopeClock]
  BY <1>2
<1>4. /\ \A s \in Scopes : Steady(scope[s], t.paused)
      /\ \A s \in Scopes : scope[s].id = Under(s, i) /\ (~t.paused => scope[s].start # 0)
      /\ \A s \in Scopes, k \in Items : ReadAt(scope[s], k, t.paused, clock)
                                            = ReadAt(t.scope[s], k, t.paused, clock)
  BY <1>1, <1>2
<1>5. u = [t EXCEPT !.scope = scope, !.active = i]
  BY DEF ActivateScopes
<1> HIDE DEF scope, u
<1>6. /\ u \in Manager /\ u.scope = scope /\ u.active = i
      /\ u.total = t.total /\ u.lastTickAt = t.lastTickAt
  BY <1>1, <1>3, <1>5, ItemsRange DEF Manager
<1>7. Alike(t, u)
  BY <1>1, <1>5 DEF Manager, Alike
<1>8. Sound(u) /\ Showing(u, i)
  BY <1>4, <1>6, <1>7 DEF Sound, Showing, Alike
<1>9. SameTimes(t, u)
  BY <1>4, <1>6, <1>7 DEF SameTimes, Reads, Alike, Total
<1>10. QED
  BY <1>7, <1>8, <1>9 DEF u

\* Going to an item moves no time and lets its clock run.
LEMMA ShowReads ==
    ASSUME TimeAssumption, ClockOK, NEW t, Sound(t), NEW from \in 0 .. N, NEW to \in Items
    PROVE  LET u == Show(t, from, to)
           IN  /\ Sound(u) /\ Showing(u, to) /\ Alike(t, u) /\ SameTimes(t, u)
<1> DEFINE c == EndItem(t.scope["item"])
           scope == [t.scope EXCEPT !["item"] = c]
           v == [t EXCEPT !.scope = scope]
<1>1. CASE ~(from \notin {None, to})
  <2>1. Show(t, from, to) = ActivateScopes(t, to)
    BY <1>1 DEF Show
  <2>2. QED
    BY <2>1, ActivateScopesReads
<1>2. CASE from \notin {None, to}
  <2>1. /\ t \in Manager /\ t.scope \in [Scopes -> ScopeClock] /\ "item" \in Scopes
        /\ t.paused \in BOOLEAN /\ t.scope["item"] \in ScopeClock
        /\ Steady(t.scope["item"], t.paused)
    BY SoundFields
  <2>2. /\ c \in ScopeClock /\ c.start = 0
        /\ \A k \in Items : c.times[k] = ReadAt(t.scope["item"], k, FALSE, clock)
    BY <2>1, EndItemReads
  <2>3. [t EXCEPT !.scope["item"] = EndItem(@)] = v
    BY <2>1 DEF Manager
  <2>4. Show(t, from, to) = ActivateScopes(v, to)
    BY <1>2, <2>3 DEF Show
  <2> HIDE DEF c
  <2>5. scope \in [Scopes -> ScopeClock] /\ scope["item"] = c
        /\ \A s \in Scopes : s # "item" => scope[s] = t.scope[s]
    BY <2>1, <2>2
  <2> HIDE DEF scope
  <2>6. /\ v \in Manager /\ v.scope = scope /\ Alike(t, v) /\ v.lastTickAt = t.lastTickAt
        /\ Total(v) = Total(t)
    BY <2>1, <2>5, WithScope
  <2>7. Steady(c, t.paused)
    BY <2>2 DEF Steady, ClockOK
  <2>8. Sound(v)
    BY <2>1, <2>5, <2>6, <2>7 DEF Sound, Alike
  <2>9. ASSUME NEW k \in Items PROVE Reads(v, "item", k) = Reads(t, "item", k)
    <3>1. c.times[k] \in Nat /\ c.times[k] = ReadAt(t.scope["item"], k, FALSE, clock)
      BY <2>2, ItemsRange DEF ScopeClock
    <3>2. ReadAt(c, k, t.paused, clock) = c.times[k]
      BY <2>2, <3>1 DEF ReadAt
    <3>3. ReadAt(t.scope["item"], k, FALSE, clock) = ReadAt(t.scope["item"], k, t.paused, clock)
      BY <2>1, SteadyReads
    <3>4. Reads(v, "item", k) = ReadAt(c, k, t.paused, clock)
      BY <2>5, <2>6 DEF Reads, Alike
    <3>5. QED
      BY <3>1, <3>2, <3>3, <3>4 DEF Reads
  <2>13. SameTimes(t, v)
    BY <2>5, <2>6, <2>9 DEF SameTimes, Reads, Alike
  <2> HIDE DEF v
  <2>10. /\ Sound(ActivateScopes(v, to)) /\ Showing(ActivateScopes(v, to), to)
         /\ Alike(v, ActivateScopes(v, to)) /\ SameTimes(v, ActivateScopes(v, to))
    BY <2>8, ActivateScopesReads
  <2>11. Alike(t, ActivateScopes(v, to)) /\ SameTimes(t, ActivateScopes(v, to))
    BY <2>6, <2>10, <2>13 DEF Alike, SameTimes
  <2>12. QED
    BY <2>4, <2>10, <2>11
<1>3. QED
  BY <1>1, <1>2

\* What a checkpoint does: the clocks are credited, and run on or stand.
Checkpointed(t, u, runs) ==
    /\ u \in Manager /\ Alike(t, u) /\ u.active = t.active
    /\ u.total = t.total /\ u.lastTickAt = t.lastTickAt
    /\ \A s \in Scopes :
          /\ u.scope[s].id = t.scope[s].id
          /\ Steady(u.scope[s], FALSE)
          /\ ~runs => u.scope[s].start = 0
          /\ runs /\ u.scope[s].id # None => u.scope[s].start # 0
          /\ \A k \in Items : /\ u.scope[s].times[k] = Reads(t, s, k)
                              /\ ReadAt(u.scope[s], k, FALSE, clock) = Reads(t, s, k)

LEMMA CheckpointReads ==
    ASSUME TimeAssumption, ClockOK, NEW t, Sound(t), NEW restart \in BOOLEAN,
           NEW u, u = Checkpoint(t, restart)
    PROVE  Checkpointed(t, u, restart /\ ~t.paused)
<1> DEFINE runs == restart /\ ~t.paused
           after(c) == IF runs THEN Run(Credit(c)) ELSE Credit(c)
           scope == [s \in Scopes |-> after(t.scope[s])]
           v == [t EXCEPT !.scope = scope]
<1>1. /\ t \in Manager /\ t.scope \in [Scopes -> ScopeClock] /\ t.paused \in BOOLEAN
      /\ "item" \in Scopes
  BY SoundFields
<1>2. ASSUME NEW c \in ScopeClock
      PROVE  /\ after(c) \in ScopeClock /\ after(c).id = c.id /\ Steady(after(c), FALSE)
             /\ ~runs => after(c).start = 0
             /\ runs /\ c.id # None => after(c).start # 0
             /\ \A k \in Items : /\ after(c).times[k] = ReadAt(c, k, FALSE, clock)
                                 /\ ReadAt(after(c), k, FALSE, clock) = ReadAt(c, k, FALSE, clock)
  <2>1. /\ Credit(c) \in ScopeClock /\ Credit(c).start = 0 /\ Credit(c).id = c.id
        /\ \A k \in Items : /\ Credit(c).times[k] = ReadAt(c, k, FALSE, clock)
                            /\ Credit(c).times[k] \in Nat
    BY CreditReads, ItemsRange DEF ScopeClock
  <2>2. CASE runs
    <3> DEFINE e == Credit(c)
    <3>1. after(c) = Run(e)
      BY <2>2
    <3>2. e \in ScopeClock /\ e.start = 0 /\ e.id = c.id
          /\ \A k \in Items : e.times[k] = ReadAt(c, k, FALSE, clock)
      BY <2>1
    <3> HIDE DEF e
    <3>3. /\ Run(e) \in ScopeClock /\ Run(e).id = e.id /\ Steady(Run(e), FALSE)
          /\ e.id # None => Run(e).start # 0
          /\ \A k \in Items : ReadAt(Run(e), k, FALSE, clock) = e.times[k]
          /\ Run(e).times = e.times
      BY <3>2, RunReads
    <3>4. QED
      BY <2>2, <3>1, <3>2, <3>3
  <2>3. CASE ~runs
    <3> DEFINE e == Credit(c)
    <3>1. after(c) = e
      BY <2>3
    <3>2. \A k \in Items : ReadAt(e, k, FALSE, clock) = e.times[k]
      BY <2>1 DEF ReadAt
    <3>3. Steady(e, FALSE)
      BY <2>1 DEF Steady, ClockOK
    <3>4. QED
      BY <2>1, <2>3, <3>1, <3>2, <3>3
  <2>4. QED
    BY <2>2, <2>3
<1> HIDE DEF after
<1>3. scope \in [Scopes -> ScopeClock]
  BY <1>1, <1>2
<1>4. \A s \in Scopes : scope[s] = after(t.scope[s]) /\ t.scope[s] \in ScopeClock
  BY <1>1
<1>5. u = v
  BY DEF Checkpoint, after
<1> HIDE DEF scope
<1>6. /\ u \in Manager /\ u.scope = scope /\ Alike(t, u) /\ u.active = t.active
      /\ u.total = t.total /\ u.lastTickAt = t.lastTickAt
  BY <1>1, <1>3, <1>5, WithScope
<1>7. ASSUME NEW s \in Scopes, NEW k \in Items
      PROVE  ReadAt(t.scope[s], k, FALSE, clock) = Reads(t, s, k)
  BY <1>1, SoundFields, SteadyReads DEF Reads
<1> HIDE DEF runs
<1>8. ASSUME NEW s \in Scopes
      PROVE  Steady(u.scope[s], FALSE) /\ (~runs => u.scope[s].start = 0)
  <2>1. u.scope[s] = after(t.scope[s]) /\ t.scope[s] \in ScopeClock
    BY <1>4, <1>6
  <2>2. QED
    BY <1>2, <2>1
<1>9. ASSUME NEW s \in Scopes
      PROVE  /\ u.scope[s].id = t.scope[s].id
             /\ runs /\ u.scope[s].id # None => u.scope[s].start # 0
             /\ \A k \in Items : /\ u.scope[s].times[k] = ReadAt(t.scope[s], k, FALSE, clock)
                                 /\ ReadAt(u.scope[s], k, FALSE, clock)
                                        = ReadAt(t.scope[s], k, FALSE, clock)
  <2>1. u.scope[s] = after(t.scope[s]) /\ t.scope[s] \in ScopeClock
    BY <1>4, <1>6
  <2>2. QED
    BY <1>2, <2>1
<1>10. QED
  BY <1>6, <1>7, <1>8, <1>9 DEF runs, Checkpointed

\* The total and the tick in a manager are of no account for the scopes.
LEMMA WithTotal ==
    ASSUME NEW t \in Manager, NEW total \in Nat, NEW tick \in Nat
    PROVE  LET u == [t EXCEPT !.total = total, !.lastTickAt = tick]
           IN  /\ u \in Manager /\ u.scope = t.scope /\ u.active = t.active /\ Alike(t, u)
               /\ u.total = total /\ u.lastTickAt = tick
<1> DEFINE u == [t EXCEPT !.total = total, !.lastTickAt = tick]
<1>1. u \in Manager
  BY DEF Manager
<1>2. u.scope = t.scope /\ u.active = t.active /\ u.total = total /\ u.lastTickAt = tick
  BY DEF Manager
<1>3. Alike(t, u)
  BY DEF Manager, Alike
<1>4. QED
  BY <1>1, <1>2, <1>3

LEMMA TotalType ==
    ASSUME TimeAssumption, ClockOK, NEW t \in Manager
    PROVE  Total(t) \in Nat
<1>1. t.total \in Nat /\ t.lastTickAt \in Nat
  BY DEF Manager
<1>2. Since(t.lastTickAt) \in Nat
  BY <1>1, SinceType
<1>3. QED
  BY <1>1, <1>2 DEF Total

LEMMA PausedReads ==
    ASSUME TimeAssumption, ClockOK, NEW t, NEW i \in Items, Sound(t), Showing(t, i), ~t.paused
    PROVE  LET u == Paused(t)
           IN  /\ Sound(u) /\ Showing(u, i) /\ u.paused
               /\ u.timer = t.timer /\ u.expired = t.expired
               /\ SameTimes(t, u)
<1> DEFINE e == Checkpoint(t, FALSE)
           u == [e EXCEPT !.total = Total(t), !.lastTickAt = clock, !.paused = TRUE]
<1>1. Paused(t) = u
  BY DEF Paused
<1>0. e = Checkpoint(t, FALSE) /\ FALSE \in BOOLEAN
  OBVIOUS
<1> HIDE DEF e
<1>00. Checkpointed(t, e, FALSE /\ ~t.paused)
  BY <1>0, CheckpointReads
<1>2. /\ e \in Manager /\ Alike(t, e) /\ e.active = t.active
      /\ \A s \in Scopes : /\ e.scope[s].id = t.scope[s].id
                           /\ Steady(e.scope[s], FALSE)
                           /\ e.scope[s].start = 0
                           /\ \A k \in Items : e.scope[s].times[k] = Reads(t, s, k)
  BY <1>00 DEF Checkpointed
<1>3. Total(t) \in Nat /\ clock \in Nat /\ t \in Manager /\ "item" \in Scopes
  BY SoundFields, TotalType DEF ClockOK
<1>4. ASSUME NEW s \in Scopes, NEW k \in Items PROVE e.scope[s].times[k] \in Nat
  <2>1. e.scope[s] \in ScopeClock
    BY <1>2, <1>3 DEF Manager
  <2>2. QED
    BY <2>1, ItemsRange DEF ScopeClock
<1>5. u \in Manager /\ u.scope = e.scope /\ u.active = e.active /\ u.expired = e.expired
  BY <1>2, <1>3 DEF Manager
<1>6. u.paused = TRUE /\ u.timer = e.timer
  BY <1>2, <1>3 DEF Manager
<1>11. u.total = Total(t) /\ u.lastTickAt = clock
  BY <1>2, <1>3 DEF Manager
<1> HIDE DEF u
<1>7. Sound(u)
  BY <1>2, <1>3, <1>5, <1>6, <1>11 DEF Sound, Steady
<1>8. Showing(u, i)
  BY <1>2, <1>5, <1>6 DEF Showing
<1>9. ASSUME NEW s \in Scopes, NEW k \in Items PROVE Reads(u, s, k) = Reads(t, s, k)
  <2>1. Reads(u, s, k) = e.scope[s].times[k]
    <3>1. e.scope[s].start = 0 /\ e.scope[s].times[k] \in Nat
      BY <1>2, <1>4
    <3>2. Reads(u, s, k) = ReadAt(e.scope[s], k, u.paused, clock)
      BY <1>5 DEF Reads
    <3>3. QED
      BY <3>1, <3>2, StoppedReads
  <2>2. QED
    BY <1>2, <2>1
<1>12. Total(u) = Total(t)
  BY <1>3, <1>5, <1>11, TotalReads
<1>10. QED
  BY <1>1, <1>2, <1>5, <1>6, <1>7, <1>8, <1>9, <1>12 DEF Alike, SameTimes

LEMMA ResumedReads ==
    ASSUME TimeAssumption, ClockOK, NEW t, NEW i \in Items, Sound(t), Showing(t, i), t.paused
    PROVE  LET u == Resumed(t)
           IN  /\ Sound(u) /\ Showing(u, i) /\ ~u.paused
               /\ u.timer = t.timer /\ u.expired = t.expired
               /\ SameTimes(t, u)
<1> DEFINE scope == [s \in Scopes |-> Run(t.scope[s])]
           u == [t EXCEPT !.paused = FALSE, !.scope = scope, !.lastTickAt = clock]
<1>1. Resumed(t) = u
  BY DEF Resumed
<1>2. /\ t \in Manager /\ t.scope \in [Scopes -> ScopeClock] /\ t.total \in Nat
      /\ \A s \in Scopes, k \in Items : t.scope[s].times[k] \in Nat
  BY SoundFields
<1>3. \A s \in Scopes : t.scope[s] \in ScopeClock /\ t.scope[s].start = 0
  BY <1>2 DEF Sound, Steady
<1>4. \A s \in Scopes : /\ Run(t.scope[s]) \in ScopeClock
                        /\ Run(t.scope[s]).id = t.scope[s].id
                        /\ Steady(Run(t.scope[s]), FALSE)
                        /\ t.scope[s].id # None => Run(t.scope[s]).start # 0
                        /\ \A k \in Items : ReadAt(Run(t.scope[s]), k, FALSE, clock)
                                                = t.scope[s].times[k]
  BY <1>3, RunReads
<1>5. scope \in [Scopes -> ScopeClock] /\ \A s \in Scopes : scope[s] = Run(t.scope[s])
  BY <1>4
<1> HIDE DEF scope
<1>6. u \in Manager /\ u.scope = scope /\ u.active = t.active /\ u.expired = t.expired
  BY <1>2, <1>5 DEF Manager, ClockOK
<1>7. u.paused = FALSE /\ u.timer = t.timer
  BY <1>2 DEF Manager
<1>13. u.total = t.total /\ u.lastTickAt = clock /\ clock \in Nat
  BY <1>2 DEF Manager, ClockOK
<1> HIDE DEF u
<1>8. Sound(u)
  <2>1. u.lastTickAt <= clock
    BY <1>13
  <2>2. QED
    BY <1>4, <1>5, <1>6, <1>7, <2>1 DEF Sound
<1>9. Showing(u, i)
  <2>1. \A s \in Scopes : Under(s, i) # None
    BY UnderType, ItemsRange DEF None
  <2>2. QED
    BY <1>4, <1>5, <1>6, <2>1 DEF Showing
<1>10. \A s \in Scopes, k \in Items : Reads(u, s, k) = t.scope[s].times[k]
  BY <1>2, <1>4, <1>5, <1>6, <1>7 DEF Reads
<1>11. \A s \in Scopes, k \in Items : Reads(t, s, k) = t.scope[s].times[k]
  BY <1>2 DEF Reads, ReadAt
<1>14. Total(u) = t.total /\ Total(t) = t.total
  BY <1>2, <1>6, <1>13, TotalReads
<1>12. QED
  BY <1>1, <1>6, <1>7, <1>8, <1>9, <1>10, <1>11, <1>14 DEF SameTimes

\* Saving credits what has run and moves no time.
LEMMA GotReads ==
    ASSUME TimeAssumption, ClockOK, NEW t, NEW i \in Items, Sound(t), Showing(t, i)
    PROVE  LET u == Got(t)
           IN  /\ Sound(u) /\ Showing(u, i) /\ Alike(t, u) /\ SameTimes(t, u)
               /\ \A s \in Scopes, k \in Items : u.scope[s].times[k] = Reads(t, s, k)
               /\ u.total = Total(t)
<1> DEFINE e == Checkpoint(t, TRUE)
           tick == IF t.paused THEN e.lastTickAt ELSE clock
           total == Total(t)
           u == [e EXCEPT !.total = total, !.lastTickAt = tick]
<1>1. Got(t) = u
  BY DEF Got
<1>0. e = Checkpoint(t, TRUE) /\ TRUE \in BOOLEAN
  OBVIOUS
<1> HIDE DEF e
<1>00. Checkpointed(t, e, TRUE /\ ~t.paused)
  BY <1>0, CheckpointReads
<1>2. /\ e \in Manager /\ Alike(t, e) /\ e.active = t.active
      /\ e.lastTickAt = t.lastTickAt
      /\ \A s \in Scopes :
            /\ e.scope[s].id = t.scope[s].id
            /\ Steady(e.scope[s], FALSE)
            /\ t.paused => e.scope[s].start = 0
            /\ ~t.paused /\ e.scope[s].id # None => e.scope[s].start # 0
            /\ \A k \in Items : /\ e.scope[s].times[k] = Reads(t, s, k)
                                /\ ReadAt(e.scope[s], k, FALSE, clock) = Reads(t, s, k)
  BY <1>00 DEF Checkpointed
<1>3. total \in Nat /\ clock \in Nat /\ t \in Manager /\ t.lastTickAt <= clock
  BY SoundFields, TotalType DEF ClockOK
<1>4. t.paused \in BOOLEAN
  BY SoundFields
<1> HIDE DEF total
<1>5. tick \in Nat /\ tick <= clock /\ (~t.paused => tick = clock)
  BY <1>2, <1>3 DEF Manager
<1> HIDE DEF tick
<1>6. /\ u \in Manager /\ u.scope = e.scope /\ u.active = e.active /\ Alike(e, u)
      /\ u.total = total /\ u.lastTickAt = tick
  <2>1. u \in Manager
    BY <1>2, <1>3, <1>5 DEF Manager
  <2>2. /\ u.scope = e.scope /\ u.active = e.active
        /\ u.total = total /\ u.lastTickAt = tick
    BY <1>2, <1>3, <1>5 DEF Manager
  <2>3. Alike(e, u)
    BY <1>2, <1>3, <1>5 DEF Manager, Alike
  <2>4. QED
    BY <2>1, <2>2, <2>3
<1> HIDE DEF u
<1>7. Alike(t, u)
  BY <1>2, <1>6 DEF Alike
<1>8. Sound(u)
  BY <1>2, <1>5, <1>6, <1>7 DEF Sound, Alike, Steady
<1>9. Showing(u, i)
  <2>1. \A s \in Scopes : Under(s, i) # None
    BY UnderType, ItemsRange DEF None
  <2>2. ASSUME NEW s \in Scopes
        PROVE  u.scope[s].id = Under(s, i) /\ (~u.paused => u.scope[s].start # 0)
    <3>1. /\ e.scope[s].id = t.scope[s].id
          /\ ~t.paused /\ e.scope[s].id # None => e.scope[s].start # 0
      BY <1>2
    <3>2. t.scope[s].id = Under(s, i)
      BY DEF Showing
    <3>3. u.scope = e.scope /\ u.paused = t.paused
      BY <1>6, <1>7 DEF Alike
    <3>4. QED
      BY <2>1, <3>1, <3>2, <3>3
  <2>3. u.active \in Items
    BY <1>2, <1>6 DEF Showing
  <2>4. QED
    BY <2>2, <2>3 DEF Showing
<1>10. \A s \in Scopes : e.scope[s] \in ScopeClock /\ Steady(e.scope[s], t.paused)
  BY <1>2, <1>3 DEF Manager, Steady
<1>11. \A s \in Scopes, k \in Items : Reads(u, s, k) = ReadAt(e.scope[s], k, FALSE, clock)
  BY <1>4, <1>6, <1>7, <1>10, SteadyReads DEF Reads, Alike
<1>13. Total(u) = total
  <2>1. u.paused \/ u.lastTickAt = clock
    BY <1>4, <1>5, <1>6, <1>7 DEF Alike
  <2>2. QED
    BY <1>3, <1>6, <2>1, TotalReads
<1>12. QED
  BY <1>1, <1>2, <1>6, <1>7, <1>8, <1>9, <1>11, <1>13 DEF SameTimes, total

LEMMA TimingReads ==
    ASSUME TimeAssumption, NEW t \in Manager
    PROVE  /\ Timing(t) \in SavedTiming
           /\ \A s \in Scopes : Timing(t).times[s] = t.scope[s].times
           /\ Timing(t).total = t.total
<1>1. t.scope \in [Scopes -> ScopeClock] /\ t.total \in Nat /\ "item" \in Scopes
  BY DEF Manager, Scopes
<1>2. t.paused \in BOOLEAN
  BY DEF Manager
<1> DEFINE times == [s \in Scopes |-> t.scope[s].times]
           ids   == [s \in Scopes |-> t.scope[s].id]
<1>3. times \in [Scopes -> [0 .. N -> Nat]] /\ ids \in [Scopes -> 0 .. N]
      /\ \A s \in Scopes : times[s] = t.scope[s].times
  BY <1>1 DEF ScopeClock
<1>4. Timing(t) = [total |-> t.total, times |-> times, ids |-> ids, paused |-> t.paused]
  BY DEF Timing
<1> HIDE DEF times, ids
<1>5. QED
  BY <1>1, <1>2, <1>3, <1>4 DEF SavedTiming

LEMMA NewType ==
    ASSUME TimeAssumption, ClockOK
    PROVE  /\ Sound(New) /\ New.timer /\ ~New.paused /\ New.expired = {}
           /\ \A s \in Scopes : New.scope[s].times = [k \in 0 .. N |-> 0]
           /\ \A s \in Scopes, k \in Items : Reads(New, s, k) = 0
           /\ New.total = 0 /\ Total(New) = 0 /\ New.lastTickAt = clock
<1>1. /\ NewScope \in ScopeClock /\ NewScope.start = 0
      /\ NewScope.times = [k \in 0 .. N |-> 0]
  BY ItemsRange DEF NewScope, ScopeClock, ClockOK, TimeAssumption, None
<1> DEFINE scope == [s \in Scopes |-> NewScope]
<1>2. scope \in [Scopes -> ScopeClock] /\ \A s \in Scopes : scope[s] = NewScope
  BY <1>1
<1> HIDE DEF scope
<1>3. New = [total |-> 0, scope |-> scope, paused |-> FALSE, lastTickAt |-> clock,
             timer |-> TRUE, warned |-> {}, expired |-> {}, active |-> None]
  BY DEF New, scope
<1>4. New \in Manager
  BY <1>2, <1>3, ItemsRange DEF Manager, ClockOK, None
<1>5. New.scope = scope /\ New.expired = {} /\ New.total = 0 /\ New.lastTickAt = clock
  BY <1>3
<1>6. New.timer = TRUE /\ New.paused = FALSE
  BY <1>3
<1>7. \A s \in Scopes : Steady(New.scope[s], New.paused)
  BY <1>1, <1>2, <1>5 DEF Steady, ClockOK
<1>8. \A s \in Scopes : New.scope[s] = NewScope
  BY <1>2, <1>5
<1>9. \A s \in Scopes, k \in Items : Reads(New, s, k) = 0
  BY <1>1, <1>8, ItemsRange DEF Reads, ReadAt
<1>10. Total(New) = 0
  BY <1>4, <1>5, TotalReads
<1>11. New.lastTickAt <= clock
  BY <1>5 DEF ClockOK
<1>12. QED
  BY <1>1, <1>4, <1>5, <1>6, <1>7, <1>8, <1>9, <1>10, <1>11 DEF Sound

\* A timing that is restored is read as it was saved; the timer is set if it was.
LEMMA RestoredReads ==
    ASSUME TimeAssumption, ClockOK, NEW t, Sound(t), NEW timing \in SavedTiming
    PROVE  LET u == Restored(t, timing)
           IN  /\ Sound(u) /\ u.expired = t.expired /\ (t.timer => u.timer)
               /\ \A s \in Scopes, k \in Items : Reads(u, s, k) = timing.times[s][k]
               /\ Total(u) = timing.total
<1> DEFINE limit   == MaxTime[<<"assessment", 0>>]
           restart == ~t.timer /\ limit # 0 /\ timing.total < limit
           start(s) == IF timing.paused \/ timing.ids[s] = None THEN 0 ELSE clock
           clockOf(s) == [id |-> timing.ids[s], start |-> start(s), times |-> timing.times[s]]
           scope == [s \in Scopes |-> clockOf(s)]
           paused == timing.paused /\ ~restart
           tick == IF ~timing.paused \/ restart THEN clock ELSE t.lastTickAt
           timer == t.timer \/ restart
           u == [t EXCEPT !.total = timing.total, !.scope = scope, !.paused = paused,
                          !.lastTickAt = tick, !.timer = timer]
<1>1. Restored(t, timing) = u
  BY DEF Restored
<1>2. /\ t \in Manager /\ t.lastTickAt \in Nat /\ t.lastTickAt <= clock
      /\ timing.total \in Nat /\ timing.times \in [Scopes -> [0 .. N -> Nat]]
      /\ timing.ids \in [Scopes -> 0 .. N]
  BY SoundFields DEF SavedTiming
<1>3. timer \in BOOLEAN /\ (t.timer => timer)
  OBVIOUS
<1>4. paused \in BOOLEAN /\ (paused => timing.paused)
  OBVIOUS
<1>5. tick \in Nat /\ tick <= clock /\ (~paused => tick = clock)
  BY <1>2 DEF ClockOK
<1>6. \A s \in Scopes : /\ start(s) \in 0 .. ClockStart + Span /\ start(s) \in {0, clock}
                        /\ timing.paused => start(s) = 0
  BY DEF ClockOK, TimeAssumption
<1> HIDE DEF start
<1>7. \A s \in Scopes : /\ clockOf(s) \in ScopeClock /\ clockOf(s).start = start(s)
                        /\ clockOf(s).times = timing.times[s]
  BY <1>2, <1>6 DEF ScopeClock
<1> HIDE DEF clockOf
<1>8. scope \in [Scopes -> ScopeClock] /\ \A s \in Scopes : scope[s] = clockOf(s)
  BY <1>7
<1> HIDE DEF scope, paused, tick, timer
<1>9. /\ u \in Manager /\ u.scope = scope /\ u.expired = t.expired
      /\ u.total = timing.total /\ u.lastTickAt = tick
  BY <1>2, <1>3, <1>4, <1>5, <1>8 DEF Manager
<1>10. u.paused = paused /\ u.timer = timer
  BY <1>2 DEF Manager
<1> HIDE DEF u
<1>11. ASSUME NEW s \in Scopes PROVE Steady(u.scope[s], u.paused)
  <2>1. u.scope[s].start = start(s)
    BY <1>7, <1>8, <1>9
  <2>2. start(s) <= clock
    BY <1>6 DEF ClockOK
  <2>3. u.paused => start(s) = 0
    BY <1>4, <1>6, <1>10
  <2>4. QED
    BY <2>1, <2>2, <2>3 DEF Steady
<1>12. ASSUME NEW s \in Scopes, NEW k \in Items PROVE Reads(u, s, k) = timing.times[s][k]
  <2>1. /\ u.scope[s].start \in {0, clock}
        /\ u.scope[s].times[k] = timing.times[s][k]
    BY <1>2, <1>6, <1>7, <1>8, <1>9
  <2>2. timing.times[s][k] \in Nat
    BY <1>2, ItemsRange
  <2>3. QED
    BY <2>1, <2>2 DEF Reads, ReadAt, ClockOK
<1>14. Total(u) = timing.total
  <2>1. u.paused \/ u.lastTickAt = clock
    BY <1>5, <1>9, <1>10
  <2>2. QED
    BY <1>2, <1>9, <2>1, TotalReads
<1>13. QED
  BY <1>1, <1>3, <1>5, <1>9, <1>10, <1>11, <1>12, <1>14 DEF Sound

-----------------------------------------------------------------------------
(* The interval.                                                           *)

LEMMA KeyType ==
    ASSUME TimeAssumption, NEW l \in Levels, NEW i \in Items
    PROVE  KeyOf(l, i) \in Keys
<1>1. CASE l = "assessment"
  BY <1>1, ItemsRange DEF KeyOf, Keys
<1>2. CASE l \in Scopes
  <2>1. Under(l, i) \in 0 .. N
    BY <1>2, UnderType, ItemsRange
  <2>2. QED
    BY <1>2, <2>1 DEF KeyOf, Keys, Levels, Scopes
<1>3. QED
  BY <1>1, <1>2 DEF Levels

LEMMA ElapsedOfType ==
    ASSUME TimeAssumption, ClockOK, NEW t, Sound(t), NEW l \in Levels, NEW i \in Items
    PROVE  ElapsedOf(t, l, i) \in Nat /\ MaxTime[KeyOf(l, i)] \in Nat
<1>1. MaxTime[KeyOf(l, i)] \in Nat
  BY KeyType DEF TimeAssumption
<1>2. CASE l = "assessment"
  BY <1>1, <1>2, SoundFields, TotalType DEF ElapsedOf
<1>3. CASE l \in Scopes
  <2>1. t.scope[l] \in ScopeClock /\ Under(l, i) \in 0 .. N /\ l # "assessment"
    BY <1>3, SoundFields, UnderType, ItemsRange DEF Scopes
  <2>2. t.scope[l].times[Under(l, i)] \in Nat /\ t.scope[l].start \in Nat
    <3>1. ClockStart + Span \in Nat
      BY DEF TimeAssumption
    <3>2. t.scope[l].times \in [0 .. N -> Nat] /\ t.scope[l].start \in 0 .. ClockStart + Span
      BY <2>1 DEF ScopeClock
    <3>3. QED
      BY <2>1, <3>1, <3>2
  <2>3. Since(t.scope[l].start) \in Nat
    BY <2>2, SinceType
  <2>4. Elapsed(t, l, Under(l, i)) \in Nat
    BY <2>2, <2>3 DEF Elapsed
  <2>5. QED
    BY <1>1, <2>1, <2>4 DEF ElapsedOf
<1>4. QED
  BY <1>2, <1>3 DEF Levels

\* Among some levels one comes first, by a number of each and then by rank.
LEMMA FirstLevel ==
    ASSUME NEW C \in SUBSET Levels, C # {}, NEW R \in [Levels -> Int]
    PROVE  \E l \in C : \A m \in C \ {l} :
               R[l] < R[m] \/ (R[l] = R[m] /\ Rank(l) < Rank(m))
<1>1. /\ Levels = {"assessment", "testPart", "section", "item"}
      /\ Rank("assessment") = 1 /\ Rank("testPart") = 2
      /\ Rank("section") = 3 /\ Rank("item") = 4
  BY DEF Levels, Scopes, Rank
<1> DEFINE K == [l \in Levels |-> 4 * R[l] + Rank(l)]
           First(S) == (C \cap S = {}) \/ \E l \in C \cap S : \A m \in C \cap S : K[l] <= K[m]
<1>2. \A l \in Levels : R[l] \in Int /\ Rank(l) \in 1 .. 4 /\ K[l] = 4 * R[l] + Rank(l)
  BY <1>1
<1>3. K \in [Levels -> Int]
  BY <1>2
<1> HIDE DEF K
<1>4. First({"item"})
  BY <1>3
<1>5. First({"section", "item"})
  BY <1>1, <1>3, <1>4
<1>6. First({"testPart", "section", "item"})
  BY <1>1, <1>3, <1>5
<1>7. First(Levels)
  BY <1>1, <1>3, <1>6
<1>8. PICK l \in C : \A m \in C : K[l] <= K[m]
  BY <1>7
<1>9. ASSUME NEW m \in C \ {l}
      PROVE  R[l] < R[m] \/ (R[l] = R[m] /\ Rank(l) < Rank(m))
  <2>1. 4 * R[l] + Rank(l) <= 4 * R[m] + Rank(m)
    BY <1>2, <1>8
  <2>2. Rank(l) # Rank(m)
    BY <1>1
  <2>3. QED
    BY <1>2, <2>1, <2>2
<1>10. QED
  BY <1>9

\* A tick touches neither the clocks of the scopes nor the pause.  It marks the
\* levels found expired and stops the timer only for a hard one.
LEMMA TickedReads ==
    ASSUME TimeAssumption, ClockOK, NEW t, Sound(t), t.active \in Items
    PROVE  LET u == Ticked(t)
               e == [t EXCEPT !.total = Total(t), !.lastTickAt = clock]
           IN  /\ Sound(u) /\ u.scope = t.scope /\ u.active = t.active /\ u.paused = t.paused
               /\ SameTimes(t, u)
               /\ t.expired \subseteq u.expired
               /\ \A x \in u.expired \ t.expired :
                     ~t.paused /\ \E l \in Due(e) : x = KeyOf(l, t.active)
               /\ t.timer /\ ~u.timer => \E x \in u.expired : ~AllowLate[x]
<1> DEFINE total == Total(t)
           e == [t EXCEPT !.total = total, !.lastTickAt = clock]
           hard == {l \in Due(e) : Hard(e, l)}
           seen == {l \in Due(e) : \A h \in hard : Rank(l) <= Rank(h)}
           marks == {KeyOf(l, e.active) : l \in seen}
           expired == e.expired \cup marks
           timer == hard = {}
           warned == IF hard = {} THEN e.warned \cup Warned(e) ELSE e.warned
           w == [e EXCEPT !.expired = expired, !.timer = timer, !.warned = warned]
           p == [t EXCEPT !.lastTickAt = clock]
<1>1. /\ t \in Manager /\ total \in Nat /\ clock \in Nat /\ t.paused \in BOOLEAN
  BY SoundFields, TotalType DEF ClockOK
<1>2. Ticked(t) = IF t.paused THEN p ELSE w
  BY DEF Ticked
<1>3. CASE t.paused
  <2>1. /\ p \in Manager /\ p.scope = t.scope /\ p.active = t.active /\ p.expired = t.expired
        /\ p.total = t.total /\ p.lastTickAt = clock
    BY <1>1 DEF Manager
  <2>2. p.paused = t.paused /\ p.timer = t.timer
    BY <1>1 DEF Manager
  <2> HIDE DEF p
  <2>3. Sound(p)
    BY <1>1, <2>1, <2>2 DEF Sound
  <2>5. SameTimes(t, p)
    BY <1>3, <2>1, <2>2 DEF SameTimes, Reads, Total
  <2>4. QED
    BY <1>2, <1>3, <2>1, <2>2, <2>3, <2>5
<1>4. CASE ~t.paused
  <2> HIDE DEF total
  <2>1. /\ e \in Manager /\ e.scope = t.scope /\ e.active = t.active /\ e.expired = t.expired
        /\ e.total = total /\ e.lastTickAt = clock
    BY <1>1 DEF Manager
  <2>2. e.paused = t.paused /\ e.timer = t.timer
    BY <1>1 DEF Manager
  <2> HIDE DEF e
  <2>15. Sound(e)
    BY <1>1, <2>1, <2>2 DEF Sound
  <2>3. Due(e) \subseteq Levels
    BY DEF Due, Candidates
  <2>4. marks \subseteq Keys
    BY <2>1, <2>3, KeyType
  <2>5. Warned(e) \subseteq Keys
    <3>1. ASSUME Candidates(e) # {} PROVE Warned(e) \subseteq Keys
      <4>1. Warned(e) \subseteq {KeyOf(Nearest(e), e.active)}
        BY DEF Warned
      <4> DEFINE R == [l \in Levels |-> Remaining(e, l)]
      <4>2. R \in [Levels -> Int] /\ Candidates(e) \subseteq Levels
        BY <2>1, <2>15, ElapsedOfType DEF Remaining, Candidates
      <4>4. \E l \in Candidates(e) : \A m \in Candidates(e) \ {l} :
               R[l] < R[m] \/ (R[l] = R[m] /\ Rank(l) < Rank(m))
        BY <3>1, <4>2, FirstLevel
      <4>5. \E l \in Candidates(e) : \A m \in Candidates(e) \ {l} :
               \/ Remaining(e, l) < Remaining(e, m)
               \/ Remaining(e, l) = Remaining(e, m) /\ Rank(l) < Rank(m)
        BY <4>2, <4>4
      <4>6. Nearest(e) \in Levels
        BY <4>2, <4>5 DEF Nearest
      <4>7. QED
        BY <2>1, <4>1, <4>6, KeyType
    <3>2. QED
      BY <3>1 DEF Warned
  <2>6. warned \in SUBSET Keys /\ expired \in SUBSET Keys
    BY <2>1, <2>4, <2>5 DEF Manager
  <2>7. timer \in BOOLEAN
    OBVIOUS
  <2>8. ~timer => \E x \in expired : ~AllowLate[x]
    <3> SUFFICES ASSUME hard # {} PROVE \E x \in expired : ~AllowLate[x]
      OBVIOUS
    <3> DEFINE R == [l \in Levels |-> 0]
    <3>1. \A l \in Levels : Rank(l) \in Int
      BY DEF Rank, Levels, Scopes
    <3>2. hard \subseteq Levels
      BY <2>3
    <3>3. \E l \in hard : \A m \in hard \ {l} :
             R[l] < R[m] \/ (R[l] = R[m] /\ Rank(l) < Rank(m))
      <4>1. R \in [Levels -> Int]
        OBVIOUS
      <4> HIDE DEF R, hard
      <4>2. QED
        BY <3>2, <4>1, FirstLevel
    <3>4. PICK h \in hard : \A m \in hard \ {h} : Rank(h) < Rank(m)
      BY <3>2, <3>3
    <3>5. h \in Due(e) /\ Hard(e, h) /\ \A m \in hard : Rank(h) <= Rank(m)
      BY <3>1, <3>2, <3>4
    <3>6. KeyOf(h, e.active) \in expired
      BY <3>5
    <3>7. QED
      BY <3>5, <3>6 DEF Hard
  <2>9. expired \ t.expired \subseteq marks /\ t.expired \subseteq expired
    BY <2>1
  <2>10. \A x \in marks : \E l \in Due(e) : x = KeyOf(l, t.active)
    BY <2>1
  <2> HIDE DEF warned, expired, timer, marks
  <2>11. /\ w \in Manager /\ w.scope = e.scope /\ w.active = e.active /\ w.expired = expired
         /\ w.total = total /\ w.lastTickAt = clock
    BY <2>1, <2>6, <2>7 DEF Manager
  <2>12. w.paused = e.paused /\ w.timer = timer
    BY <2>1 DEF Manager
  <2> HIDE DEF w
  <2>13. Sound(w)
    BY <1>1, <2>1, <2>2, <2>11, <2>12 DEF Sound
  <2>16. Total(w) = total
    BY <1>1, <2>11, TotalReads
  <2>17. SameTimes(t, w)
    BY <2>1, <2>2, <2>11, <2>12, <2>16 DEF SameTimes, Reads, total
  <2>14. QED
    BY <1>2, <1>4, <2>1, <2>2, <2>8, <2>9, <2>10, <2>11, <2>12, <2>13, <2>17 DEF e, total
<1>5. QED
  BY <1>3, <1>4

-----------------------------------------------------------------------------
(* The invariant.                                                          *)

\* The clock of the item shown runs whenever tracking does; with the player
\* every clock and the timer end.
TimeInv ==
    /\ TypeOK
    /\ Sound(tm)
    /\ alive => Showing(tm, index)
    /\ ~alive => ~tm.timer /\ \A s \in Scopes : tm.scope[s].start = 0
    /\ StoppedByHardLimit

\* The times of all scopes as the manager shows them, and as a timing has them.
Shown == [s \in Scopes |-> [k \in Items |-> Reads(tm, s, k)]]
TimesOf(timing) == [s \in Scopes |-> [k \in Items |-> timing.times[s][k]]]

\* No time is shown that was not shown before.
Unmoved == Shown' = Shown /\ Total(tm)' = Total(tm)

\* The time of the items as the manager shows it, as it was saved, and as the
\* backend has it on file.
Spent == Shown["item"]
Kept == TimesOf(saved)["item"]
Filed == TimesOf(stored)["item"]

\* What is kept outside the page.
OutsideOK == saved \in SavedTiming /\ stored \in SavedTiming /\ touched \subseteq Copies
Untouched == saved' = saved /\ stored' = stored /\ touched' = touched

\* What the manager shows is what the code reads.
LEMMA ShownElapsed ==
    ASSUME NEW s \in Scopes, NEW k \in Items
    PROVE  Shown[s][k] = Elapsed(tm, s, k) /\ Shown'[s][k] = Elapsed(tm, s, k)'
  BY DEF Shown, Reads, ReadAt, Elapsed, Since

LEMMA SpentElapsed ==
    /\ Spent = [i \in Items |-> Elapsed(tm, "item", i)]
    /\ Spent' = [i \in Items |-> Elapsed(tm, "item", i)]'
  BY DEF Spent, Shown, Scopes, Reads, ReadAt, Elapsed, Since

LEMMA KeptTimes ==
    /\ Kept = [i \in Items |-> saved.times["item"][i]]
    /\ Kept' = [i \in Items |-> saved'.times["item"][i]]
    /\ Filed = [i \in Items |-> stored.times["item"][i]]
    /\ Filed' = [i \in Items |-> stored'.times["item"][i]]
  BY DEF Kept, Filed, TimesOf, Scopes

LEMMA UnmovedSpent == Unmoved => Spent' = Spent
  BY DEF Unmoved, Spent

LEMMA ManagerType ==
    ASSUME NEW t \in Manager, t.active \in Items
    PROVE  t \in [total : Nat, scope : [Scopes -> ScopeClock], paused : BOOLEAN,
                  lastTickAt : Nat, timer : BOOLEAN, warned : SUBSET Keys,
                  expired : SUBSET Keys, active : Items]
  BY DEF Manager

LEMMA InvFacts ==
    ASSUME TimeAssumption, TimeInv
    PROVE  /\ ClockOK /\ Sound(tm) /\ tm.active \in Items /\ index \in Items
           /\ OutsideOK /\ alive \in BOOLEAN
           /\ index \in 0 .. N
<1>1. ClockOK /\ Sound(tm) /\ index \in Items /\ alive \in BOOLEAN
  BY ClockFacts DEF TimeInv, TypeOK
<1>2. tm.active \in Items
  BY DEF TimeInv, TypeOK
<1>3. OutsideOK
  BY DEF TimeInv, TypeOK, SavedTiming, OutsideOK
<1>4. index \in 0 .. N
  BY <1>1, ItemsRange
<1>5. QED
  BY <1>1, <1>2, <1>3, <1>4

\* A step that leaves the clock and a sound manager keeps the types.
LEMMA StillSound ==
    ASSUME TimeAssumption, TimeInv, clock' = clock, NEW t, tm' = t, Sound(t),
           t.active \in Items, index' \in Items, alive' \in BOOLEAN, OutsideOK'
    PROVE  /\ TypeOK' /\ Sound(tm)'
           /\ Shown' = [s \in Scopes |-> [k \in Items |-> Reads(t, s, k)]]
           /\ Total(tm)' = Total(t)
           /\ SameTimes(tm, t) => Unmoved
<1>1. t \in Manager
  BY DEF Sound
<1>2. TypeOK'
  BY <1>1, ManagerType DEF TimeInv, TypeOK, SavedTiming, OutsideOK
<1>3. Sound(tm)'
  BY DEF Sound, Steady
<1>4. /\ Shown' = [s \in Scopes |-> [k \in Items |-> Reads(t, s, k)]]
      /\ Total(tm)' = Total(t)
  BY DEF Shown, Reads, Total, Since
<1>5. SameTimes(tm, t) => Unmoved
  BY <1>4 DEF SameTimes, Unmoved, Shown
<1>6. QED
  BY <1>2, <1>3, <1>4, <1>5

LEMMA AdvanceInv ==
    ASSUME TimeAssumption, TimeInv, Advance
    PROVE  /\ TimeInv'
           /\ alive /\ ~tm.paused =>
                 /\ Shown' = [s \in Scopes |-> [Shown[s] EXCEPT ![Under(s, index)] = @ + 1]]
                 /\ Total(tm)' = Total(tm) + 1
                 /\ Total(tm) \in Nat
           /\ ~(alive /\ ~tm.paused) => Shown' = Shown
           /\ tm.paused => Unmoved
           /\ \A s \in Scopes, k \in Items : Shown[s][k] \in Nat
<1>1. ClockOK /\ Sound(tm) /\ index \in Items
  BY InvFacts
<1>2. /\ tm' = tm /\ index' = index /\ alive' = alive /\ Untouched
      /\ clock' = clock + 1 /\ clock' \in ClockStart .. ClockStart + Span
  BY <1>1 DEF Advance, ClockOK, TimeAssumption, Untouched
<1>3. TypeOK'
  BY <1>2 DEF TimeInv, TypeOK, Untouched
<1>4. Sound(tm)'
  <2>1. ASSUME NEW s \in Scopes PROVE Steady(tm.scope[s], tm.paused)'
    <3>1. tm.scope[s].start \in Nat /\ Steady(tm.scope[s], tm.paused)
      BY <1>1, SoundFields DEF ScopeClock, Sound, TimeAssumption
    <3>2. QED
      BY <1>1, <1>2, <3>1 DEF Steady, ClockOK
  <2>2. tm.lastTickAt \in Nat /\ tm.lastTickAt <= clock
    BY <1>1, SoundFields
  <2>3. QED
    BY <1>1, <1>2, <2>1, <2>2 DEF Sound, ClockOK
<1>5. TimeInv'
  BY <1>2, <1>3, <1>4 DEF TimeInv, Showing, StoppedByHardLimit
<1> DEFINE now == clock + 1
<1>6. ASSUME NEW s \in Scopes, NEW k \in Items
      PROVE  /\ Shown[s][k] \in Nat
             /\ Shown'[s][k] = IF alive /\ ~tm.paused /\ k = Under(s, index)
                               THEN Shown[s][k] + 1 ELSE Shown[s][k]
  <2> DEFINE c == tm.scope[s]
  <2>1. c \in ScopeClock /\ Steady(c, tm.paused) /\ c.times[k] \in Nat
    BY <1>1, SoundFields
  <2>2. c.start \in Nat /\ clock \in Nat
    BY <1>1, <2>1 DEF ScopeClock, ClockOK, TimeAssumption
  <2>3. c.start <= clock /\ (tm.paused => c.start = 0)
    BY <2>1 DEF Steady
  <2>4. /\ alive => c.id = Under(s, index) /\ (~tm.paused => c.start # 0)
        /\ ~alive => c.start = 0
    BY DEF TimeInv, Showing
  <2>5. tm.paused \in BOOLEAN /\ alive \in BOOLEAN
    BY <1>1, SoundFields DEF TimeInv, TypeOK
  <2>6. /\ Shown[s][k] = ReadAt(c, k, tm.paused, clock)
        /\ Shown'[s][k] = ReadAt(c, k, tm.paused, now)
    BY <1>2 DEF Shown, Reads
  <2> HIDE DEF c
  <2>7. QED
    BY <2>1, <2>2, <2>3, <2>4, <2>5, <2>6 DEF ReadAt
<1>7. /\ Total(tm) \in Nat
      /\ Total(tm)' = IF tm.paused THEN Total(tm) ELSE Total(tm) + 1
  <2>1. /\ tm.lastTickAt \in Nat /\ tm.lastTickAt <= clock /\ tm.total \in Nat
        /\ clock \in Nat /\ tm \in Manager
    BY <1>1, SoundFields DEF ClockOK
  <2>2. QED
    BY <1>1, <1>2, <2>1, TotalType DEF Total, Since
<1>8. ASSUME alive, ~tm.paused
      PROVE  Shown' = [s \in Scopes |-> [Shown[s] EXCEPT ![Under(s, index)] = @ + 1]]
  <2>1. ASSUME NEW s \in Scopes, NEW k \in Items
        PROVE  Shown'[s][k] = [Shown[s] EXCEPT ![Under(s, index)] = @ + 1][k]
    <3>1. Shown[s] = [j \in Items |-> Reads(tm, s, j)]
      BY DEF Shown
    <3>2. QED
      BY <1>6, <1>8, <3>1
  <2>2. Shown' = [s \in Scopes |-> [k \in Items |-> Shown'[s][k]]]
    BY DEF Shown
  <2>3. ASSUME NEW s \in Scopes
        PROVE  [Shown[s] EXCEPT ![Under(s, index)] = @ + 1]
                  = [k \in Items |-> Shown'[s][k]]
    <3>1. Shown[s] = [j \in Items |-> Reads(tm, s, j)]
      BY DEF Shown
    <3>2. QED
      BY <2>1, <3>1
  <2>4. QED
    BY <2>2, <2>3
<1>9. ASSUME ~(alive /\ ~tm.paused) PROVE Shown' = Shown
  <2>1. \A s \in Scopes, k \in Items : Shown'[s][k] = Shown[s][k]
    BY <1>6, <1>9
  <2>2. /\ Shown' = [s \in Scopes |-> [k \in Items |-> Shown'[s][k]]]
        /\ Shown = [s \in Scopes |-> [k \in Items |-> Shown[s][k]]]
    BY DEF Shown
  <2>3. QED
    BY <2>1, <2>2
<1>10. QED
  BY <1>5, <1>6, <1>7, <1>8, <1>9 DEF Unmoved

\* For the items alone: a second is counted for the one shown.
LEMMA AdvanceSpends ==
    ASSUME TimeAssumption, TimeInv, Advance
    PROVE  Spent' = IF alive /\ ~tm.paused THEN [Spent EXCEPT ![index] = @ + 1] ELSE Spent
<1>1. "item" \in Scopes /\ Under("item", index) = index
  BY DEF Scopes, Under
<1>2. QED
  BY <1>1, AdvanceInv DEF Spent

LEMMA TickInv ==
    ASSUME TimeAssumption, TimeInv, Tick
    PROVE  TimeInv' /\ Unmoved /\ tm'.paused = tm.paused
<1> DEFINE u == Ticked(tm)
<1>1. ClockOK /\ Sound(tm) /\ tm.active \in Items /\ index \in Items /\ alive \in BOOLEAN
      /\ OutsideOK
  BY InvFacts
<1>2. /\ Sound(u) /\ u.scope = tm.scope /\ u.active = tm.active /\ u.paused = tm.paused
      /\ SameTimes(tm, u)
      /\ tm.expired \subseteq u.expired
      /\ tm.timer /\ ~u.timer => \E x \in u.expired : ~AllowLate[x]
  BY <1>1, TickedReads
<1>3. /\ tm.timer /\ tm' = u /\ clock' = clock /\ index' = index
      /\ alive' = alive /\ OutsideOK'
  BY <1>1 DEF Tick, OutsideOK
<1> HIDE DEF u
<1>4. TypeOK' /\ Sound(tm)' /\ Unmoved
  BY <1>1, <1>2, <1>3, StillSound
<1>5. alive /\ Showing(tm, index)
  BY <1>1, <1>3 DEF TimeInv
<1>6. TimeInv'
  BY <1>2, <1>3, <1>4, <1>5 DEF TimeInv, Showing, StoppedByHardLimit
<1>7. QED
  BY <1>2, <1>3, <1>4, <1>6

LEMMA NavigateInv ==
    ASSUME TimeAssumption, TimeInv, NEW i \in Items, Navigate(i)
    PROVE  TimeInv' /\ Unmoved /\ tm'.paused = tm.paused
<1> DEFINE u == Show(tm, index, i)
<1>1. ClockOK /\ Sound(tm) /\ index \in 0 .. N /\ alive \in BOOLEAN /\ OutsideOK
  BY InvFacts
<1>2. /\ Sound(u) /\ Showing(u, i) /\ Alike(tm, u) /\ SameTimes(tm, u)
  BY <1>1, ShowReads
<1>3. /\ alive /\ tm' = u /\ clock' = clock /\ index' = i /\ alive' = alive /\ OutsideOK'
  BY <1>1 DEF Navigate, OutsideOK
<1> HIDE DEF u
<1>4. TypeOK' /\ Sound(tm)' /\ Unmoved
  BY <1>1, <1>2, <1>3, StillSound DEF Showing
<1>5. TimeInv'
  BY <1>2, <1>3, <1>4 DEF TimeInv, Showing, StoppedByHardLimit, Alike
<1>6. QED
  BY <1>2, <1>3, <1>4, <1>5 DEF Alike

LEMMA PauseInv ==
    ASSUME TimeAssumption, TimeInv, Pause
    PROVE  TimeInv' /\ Unmoved /\ tm'.paused /\ ~tm.paused /\ alive
<1> DEFINE u == Paused(tm)
<1>1. ClockOK /\ Sound(tm) /\ index \in Items /\ alive \in BOOLEAN /\ OutsideOK
  BY InvFacts
<1>2. /\ alive /\ ~tm.paused /\ tm' = u /\ clock' = clock /\ index' = index
      /\ alive' = alive /\ OutsideOK'
  BY <1>1 DEF Pause, OutsideOK
<1>3. Showing(tm, index)
  BY <1>2 DEF TimeInv
<1>4. /\ Sound(u) /\ Showing(u, index) /\ u.paused
      /\ u.timer = tm.timer /\ u.expired = tm.expired
      /\ SameTimes(tm, u)
  BY <1>1, <1>2, <1>3, PausedReads
<1> HIDE DEF u
<1>5. TypeOK' /\ Sound(tm)' /\ Unmoved
  BY <1>1, <1>2, <1>4, StillSound DEF Showing
<1>6. TimeInv'
  BY <1>2, <1>4, <1>5 DEF TimeInv, Showing, StoppedByHardLimit
<1>7. QED
  BY <1>2, <1>4, <1>5, <1>6

LEMMA ResumeInv ==
    ASSUME TimeAssumption, TimeInv, Resume
    PROVE  TimeInv' /\ Unmoved /\ ~tm'.paused /\ tm.paused /\ alive
<1> DEFINE u == Resumed(tm)
<1>1. ClockOK /\ Sound(tm) /\ index \in Items /\ alive \in BOOLEAN /\ OutsideOK
  BY InvFacts
<1>2. /\ alive /\ tm.paused /\ tm' = u /\ clock' = clock /\ index' = index
      /\ alive' = alive /\ OutsideOK'
  BY <1>1 DEF Resume, OutsideOK
<1>3. Showing(tm, index)
  BY <1>2 DEF TimeInv
<1>4. /\ Sound(u) /\ Showing(u, index) /\ ~u.paused
      /\ u.timer = tm.timer /\ u.expired = tm.expired
      /\ SameTimes(tm, u)
  BY <1>1, <1>2, <1>3, ResumedReads
<1> HIDE DEF u
<1>5. TypeOK' /\ Sound(tm)' /\ Unmoved
  BY <1>1, <1>2, <1>4, StillSound DEF Showing
<1>6. TimeInv'
  BY <1>2, <1>4, <1>5 DEF TimeInv, Showing, StoppedByHardLimit
<1>7. QED
  BY <1>2, <1>4, <1>5, <1>6

LEMMA SaveInv ==
    ASSUME TimeAssumption, TimeInv, Save
    PROVE  /\ TimeInv' /\ Unmoved /\ tm'.paused = tm.paused /\ alive
           /\ TimesOf(saved') = Shown /\ saved'.total = Total(tm) /\ stored' = saved'
           /\ "page" \in touched' <=> "page" \in touched
           /\ "saved" \in touched' <=> "page" \in touched
           /\ "stored" \in touched' <=> "page" \in touched
<1> DEFINE u == Got(tm)
<1>1. ClockOK /\ Sound(tm) /\ index \in Items /\ alive \in BOOLEAN
  BY InvFacts
<1>2. /\ alive /\ tm' = u /\ clock' = clock /\ index' = index
      /\ alive' = alive /\ saved' = Timing(u) /\ stored' = saved'
      /\ CopiedTo({"saved", "stored"}, "page")
  BY DEF Save
<1>3. Showing(tm, index)
  BY <1>2 DEF TimeInv
<1>4. /\ Sound(u) /\ Showing(u, index) /\ Alike(tm, u) /\ SameTimes(tm, u)
      /\ \A s \in Scopes, k \in Items : u.scope[s].times[k] = Reads(tm, s, k)
      /\ u.total = Total(tm)
  BY <1>1, <1>3, GotReads
<1> HIDE DEF u
<1>5. /\ saved' \in SavedTiming /\ saved'.total = u.total
      /\ \A s \in Scopes : saved'.times[s] = u.scope[s].times
  BY <1>2, <1>4, TimingReads DEF Sound
<1>10. /\ touched' \subseteq Copies
       /\ "page" \in touched' <=> "page" \in touched
       /\ "saved" \in touched' <=> "page" \in touched
       /\ "stored" \in touched' <=> "page" \in touched
  BY <1>2 DEF CopiedTo, Copies
<1>11. OutsideOK'
  BY <1>2, <1>5, <1>10 DEF OutsideOK
<1>6. TypeOK' /\ Sound(tm)' /\ Unmoved
  BY <1>1, <1>2, <1>4, <1>11, StillSound DEF Showing
<1>7. TimeInv'
  BY <1>2, <1>4, <1>6 DEF TimeInv, Showing, StoppedByHardLimit, Alike
<1>8. TimesOf(saved') = Shown
  BY <1>4, <1>5 DEF TimesOf, Shown
<1>9. QED
  BY <1>2, <1>4, <1>5, <1>6, <1>7, <1>8, <1>10 DEF Alike

\* A session that is gone back to shows the times as they were saved.
LEMMA RestoreStateInv ==
    ASSUME TimeAssumption, TimeInv, RestoreState
    PROVE  /\ TimeInv' /\ Shown' = TimesOf(saved) /\ Total(tm)' = saved.total
           /\ saved' = saved /\ stored' = stored
           /\ "page" \in touched' <=> "saved" \in touched
           /\ "saved" \in touched' <=> "saved" \in touched
           /\ "stored" \in touched' <=> "stored" \in touched
<1> DEFINE to == IF saved.ids["item"] = None THEN 1 ELSE saved.ids["item"]
           r == Restored(tm, saved)
           u == Show(r, index, to)
<1>1. ClockOK /\ Sound(tm) /\ index \in 0 .. N /\ alive \in BOOLEAN /\ OutsideOK
  BY InvFacts
<1>10. saved \in SavedTiming
  BY <1>1 DEF OutsideOK
<1>11. /\ touched' \subseteq Copies
       /\ "page" \in touched' <=> "saved" \in touched
       /\ "saved" \in touched' <=> "saved" \in touched
       /\ "stored" \in touched' <=> "stored" \in touched
  BY DEF RestoreState, CopiedTo, Copies
<1>2. to \in Items
  BY <1>10, ItemsRange DEF SavedTiming, Scopes, None
<1>3. /\ alive /\ tm' = u /\ index' = to /\ clock' = clock /\ alive' = alive /\ OutsideOK'
  BY <1>1, <1>11 DEF RestoreState, OutsideOK
<1>4. /\ Sound(r) /\ r.expired = tm.expired /\ (tm.timer => r.timer)
      /\ \A s \in Scopes, k \in Items : Reads(r, s, k) = saved.times[s][k]
      /\ Total(r) = saved.total
  BY <1>1, <1>10, RestoredReads
<1> HIDE DEF to, r
<1>5. /\ Sound(u) /\ Showing(u, to) /\ Alike(r, u) /\ SameTimes(r, u)
  BY <1>1, <1>2, <1>4, ShowReads
<1> HIDE DEF u
<1>6. /\ TypeOK' /\ Sound(tm)' /\ Total(tm)' = Total(u)
      /\ Shown' = [s \in Scopes |-> [k \in Items |-> Reads(u, s, k)]]
  BY <1>1, <1>2, <1>3, <1>5, StillSound DEF Showing
<1>7. TimeInv'
  BY <1>3, <1>4, <1>5, <1>6 DEF TimeInv, Showing, StoppedByHardLimit, Alike
<1>9. Shown' = TimesOf(saved) /\ Total(tm)' = saved.total
  BY <1>4, <1>5, <1>6, <1>7 DEF SameTimes, TimesOf
<1>8. QED
  BY <1>4, <1>5, <1>6, <1>7, <1>9, <1>11 DEF RestoreState

LEMMA ReloadInv ==
    ASSUME TimeAssumption, TimeInv, Reload
    PROVE  /\ TimeInv' /\ Shown' = TimesOf(stored) /\ Total(tm)' = stored.total
           /\ saved' = saved /\ stored' = stored
           /\ "page" \in touched' <=> "stored" \in touched
           /\ "saved" \in touched' <=> "saved" \in touched
           /\ "stored" \in touched' <=> "stored" \in touched
<1> DEFINE to == IF stored.ids["item"] = None THEN 1 ELSE stored.ids["item"]
           r == Restored(New, stored)
           u == Show(r, None, to)
<1>1. ClockOK /\ OutsideOK
  BY InvFacts
<1>11. stored \in SavedTiming
  BY <1>1 DEF OutsideOK
<1>12. /\ touched' \subseteq Copies
       /\ "page" \in touched' <=> "stored" \in touched
       /\ "saved" \in touched' <=> "saved" \in touched
       /\ "stored" \in touched' <=> "stored" \in touched
  BY DEF Reload, CopiedTo, Copies
<1>2. to \in Items
  BY <1>11, ItemsRange DEF SavedTiming, Scopes, None
<1>3. /\ tm' = u /\ index' = to /\ clock' = clock /\ alive' = TRUE /\ OutsideOK'
  BY <1>1, <1>12 DEF Reload, OutsideOK
<1>4. Sound(New) /\ New.timer
  BY <1>1, NewType
<1>5. /\ Sound(r) /\ r.timer
      /\ \A s \in Scopes, k \in Items : Reads(r, s, k) = stored.times[s][k]
      /\ Total(r) = stored.total
  BY <1>1, <1>4, <1>11, RestoredReads
<1> HIDE DEF to, r
<1>6. /\ Sound(u) /\ Showing(u, to) /\ Alike(r, u) /\ SameTimes(r, u)
  BY <1>1, <1>2, <1>5, ShowReads, ItemsRange DEF None
<1> HIDE DEF u
<1>7. /\ TypeOK' /\ Sound(tm)' /\ Total(tm)' = Total(u)
      /\ Shown' = [s \in Scopes |-> [k \in Items |-> Reads(u, s, k)]]
  BY <1>1, <1>2, <1>3, <1>6, StillSound DEF Showing
<1>8. TimeInv'
  BY <1>3, <1>5, <1>6, <1>7 DEF TimeInv, Showing, StoppedByHardLimit, Alike
<1>10. Shown' = TimesOf(stored) /\ Total(tm)' = stored.total
  BY <1>5, <1>6, <1>7, <1>8 DEF SameTimes, TimesOf
<1>9. QED
  BY <1>5, <1>6, <1>7, <1>8, <1>10, <1>12 DEF Reload

\* A submission adds its time to the item on file, and to no other scope.
LEMMA SubmissionInv ==
    ASSUME TimeAssumption, TimeInv, NEW i \in Items, SubmissionAccepted(i)
    PROVE  /\ TimeInv' /\ Unmoved /\ tm'.paused = tm.paused
           /\ saved' = saved /\ stored'.total = stored.total
           /\ \A s \in Scopes \ {"item"} : TimesOf(stored')[s] = TimesOf(stored)[s]
           /\ Filed'[i] \in Nat /\ Filed' = [Filed EXCEPT ![i] = Filed'[i]]
           /\ touched' = touched \cup {"stored"}
<1>1. ClockOK /\ Sound(tm) /\ tm.active \in Items /\ index \in Items /\ OutsideOK /\ alive \in BOOLEAN
  BY InvFacts
<1>2. PICK seconds \in 1 .. clock - ClockStart :
          stored' = [stored EXCEPT !.times["item"][i] = seconds]
  BY DEF SubmissionAccepted
<1>3. /\ tm' = tm /\ clock' = clock /\ index' = index /\ alive' = alive /\ saved' = saved
      /\ touched' = touched \cup {"stored"}
  BY DEF SubmissionAccepted
<1>4. seconds \in Nat
  BY <1>1, <1>2 DEF ClockOK, TimeAssumption
<1> DEFINE old == stored.times
           times == [old EXCEPT !["item"] = [old["item"] EXCEPT ![i] = seconds]]
<1>5. stored \in SavedTiming /\ old \in [Scopes -> [0 .. N -> Nat]] /\ i \in 0 .. N
      /\ "item" \in Scopes
  BY <1>1, ItemsRange DEF OutsideOK, SavedTiming, Scopes
<1>6. stored' = [stored EXCEPT !.times = times]
  BY <1>2
<1>7. /\ times \in [Scopes -> [0 .. N -> Nat]]
      /\ \A s \in Scopes \ {"item"} : times[s] = old[s]
      /\ \A k \in Items : times["item"][k] = IF k = i THEN seconds ELSE old["item"][k]
  BY <1>4, <1>5, ItemsRange
<1> HIDE DEF times, old
<1>8. stored' \in SavedTiming /\ stored'.times = times /\ stored'.total = stored.total
  BY <1>5, <1>6, <1>7 DEF SavedTiming
<1>9. OutsideOK'
  BY <1>1, <1>3, <1>8 DEF OutsideOK, Copies
<1>10. TypeOK' /\ Sound(tm)' /\ Unmoved
  BY <1>1, <1>3, <1>9, StillSound DEF SameTimes
<1>11. TimeInv'
  BY <1>3, <1>10 DEF TimeInv, Showing, StoppedByHardLimit
<1>12. \A s \in Scopes \ {"item"} : TimesOf(stored')[s] = TimesOf(stored)[s]
  BY <1>7, <1>8 DEF TimesOf, old
<1>13. /\ Filed = [k \in Items |-> old["item"][k]]
       /\ Filed' = [k \in Items |-> times["item"][k]]
  BY <1>8, KeptTimes DEF old
<1>14. Filed'[i] \in Nat /\ Filed' = [Filed EXCEPT ![i] = Filed'[i]]
  BY <1>4, <1>7, <1>13
<1>15. QED
  BY <1>3, <1>8, <1>10, <1>11, <1>12, <1>14

LEMMA DestroyInv ==
    ASSUME TimeAssumption, TimeInv, Destroy
    PROVE  TimeInv' /\ Shown' = Shown /\ tm'.paused = tm.paused /\ alive
<1> DEFINE e == Checkpoint(tm, FALSE)
           u == [e EXCEPT !.timer = FALSE]
<1>1. ClockOK /\ Sound(tm) /\ index \in Items /\ OutsideOK /\ tm.active \in Items
  BY InvFacts
<1>2. /\ alive /\ tm' = u /\ clock' = clock /\ index' = index
      /\ alive' = FALSE /\ OutsideOK'
  BY <1>1 DEF Destroy, OutsideOK
<1>0. e = Checkpoint(tm, FALSE) /\ FALSE \in BOOLEAN
  OBVIOUS
<1> HIDE DEF e
<1>00. Checkpointed(tm, e, FALSE /\ ~tm.paused)
  BY <1>0, <1>1, CheckpointReads
<1>3. /\ e \in Manager /\ Alike(tm, e) /\ e.active = tm.active
      /\ \A s \in Scopes : e.scope[s].start = 0
      /\ \A s \in Scopes, k \in Items : e.scope[s].times[k] = Reads(tm, s, k)
      /\ e.lastTickAt = tm.lastTickAt
  BY <1>00 DEF Checkpointed
<1>4. \A s \in Scopes : e.scope[s] \in ScopeClock
  BY <1>3 DEF Manager
<1>5. u \in Manager /\ u.scope = e.scope /\ u.active = tm.active /\ u.lastTickAt = tm.lastTickAt
  BY <1>3 DEF Manager
<1>6. u.paused = tm.paused /\ u.timer = FALSE
  BY <1>3 DEF Manager, Alike
<1> HIDE DEF u
<1>7. Sound(u)
  BY <1>1, <1>3, <1>5, <1>6 DEF Sound, Steady, ClockOK
<1>8. /\ TypeOK' /\ Sound(tm)'
      /\ Shown' = [s \in Scopes |-> [k \in Items |-> Reads(u, s, k)]]
  BY <1>1, <1>2, <1>5, <1>7, StillSound
<1>9. TimeInv'
  BY <1>2, <1>3, <1>5, <1>6, <1>8 DEF TimeInv, StoppedByHardLimit
<1>10. ASSUME NEW s \in Scopes, NEW k \in Items PROVE Reads(u, s, k) = Reads(tm, s, k)
  <2>1. e.scope[s].times[k] \in Nat /\ e.scope[s].start = 0
    BY <1>3, <1>4, ItemsRange DEF ScopeClock
  <2>2. QED
    BY <1>3, <1>5, <2>1 DEF Reads, ReadAt
<1>11. Shown' = Shown
  BY <1>8, <1>10 DEF Shown
<1>12. QED
  BY <1>2, <1>6, <1>9, <1>11

LEMMA InitInv ==
    ASSUME TimeAssumption, Init
    PROVE  /\ TimeInv /\ ~tm.paused
           /\ Shown = [s \in Scopes |-> [k \in Items |-> 0]] /\ Total(tm) = 0
           /\ TimesOf(saved) = Shown /\ saved.total = 0
           /\ stored = saved /\ touched = {}
<1> DEFINE u == Show(New, None, 1)
<1>1. clock \in ClockStart .. ClockStart + Span /\ ClockOK
  BY DEF Init, TimeAssumption, ClockOK
<1>2. /\ Sound(New) /\ New.timer /\ ~New.paused
      /\ \A s \in Scopes : New.scope[s].times = [k \in 0 .. N |-> 0]
      /\ \A s \in Scopes, k \in Items : Reads(New, s, k) = 0
      /\ New.total = 0 /\ Total(New) = 0
  BY <1>1, NewType
<1>3. /\ Sound(u) /\ Showing(u, 1) /\ Alike(New, u) /\ SameTimes(New, u)
  BY <1>1, <1>2, ShowReads, ItemsRange DEF None
<1>4. /\ tm = u /\ index = 1 /\ alive = TRUE /\ saved = Timing(New)
      /\ stored = saved /\ touched = {}
  BY DEF Init
<1> HIDE DEF u
<1>5. /\ saved \in SavedTiming /\ saved.total = 0
      /\ \A s \in Scopes : saved.times[s] = [k \in 0 .. N |-> 0]
  BY <1>2, <1>4, TimingReads DEF Sound
<1>6. u \in Manager /\ u.active \in Items
  BY <1>3 DEF Sound, Showing
<1>7. TypeOK
  BY <1>1, <1>4, <1>5, <1>6, ManagerType, ItemsRange DEF TypeOK, SavedTiming, Copies
<1>8. TimeInv
  BY <1>2, <1>3, <1>4, <1>7 DEF TimeInv, StoppedByHardLimit, Alike
<1>9. Shown = [s \in Scopes |-> [k \in Items |-> 0]] /\ Total(tm) = 0
  BY <1>2, <1>3, <1>4 DEF Shown, SameTimes
<1>10. TimesOf(saved) = [s \in Scopes |-> [k \in Items |-> 0]]
  BY <1>5, ItemsRange DEF TimesOf
<1>11. QED
  BY <1>2, <1>3, <1>4, <1>5, <1>8, <1>9, <1>10 DEF Alike

-----------------------------------------------------------------------------
(* Sums of the times of items.                                             *)

\* A set of natural numbers has a least one: the intervals up to its members
\* are finite sets, and these are well founded.
LEMMA Least ==
    ASSUME NEW T, T \subseteq Nat, T # {}
    PROVE  \E x \in T : \A y \in T : x <= y
<1> DEFINE F == FiniteSubsetsOf(Nat)
           R == StrictSubsetOrdering(Nat)
           Z == {0 .. n : n \in T}
<1>1. IsWellFoundedOn(R, F)
  BY FS_StrictSubsetOrderingWellFounded
<1>2. Z \subseteq F
  <2>1. ASSUME NEW n \in T PROVE (0 .. n) \in F
    <3>1. n \in Nat
      OBVIOUS
    <3>2. IsFiniteSet(0 .. n)
      BY <3>1, FS_Interval
    <3>3. QED
      BY <3>1, <3>2 DEF FiniteSubsetsOf
  <2>2. QED
    BY <2>1
<1>3. Z # {}
  OBVIOUS
<1> HIDE DEF F, R, Z
<1>4. PICK z \in Z : \A y \in Z : ~(<<y, z>> \in R)
  BY <1>1, <1>2, <1>3, WFMin
<1>5. PICK x \in T : z = 0 .. x
  BY DEF Z
<1>6. ASSUME NEW y \in T, y < x PROVE FALSE
  <2>1. (0 .. y) \in Z
    BY DEF Z
  <2>2. 0 .. y \subseteq 0 .. x /\ 0 .. y # 0 .. x
    BY <1>6
  <2>3. QED
    BY <1>2, <1>4, <1>5, <2>1, <2>2 DEF R, F, StrictSubsetOrdering, FiniteSubsetsOf
<1>7. QED
  BY <1>6

\* g runs through the sums of f over the instances in S, as TimeOf forms them.
Sums(S, f, g) ==
    /\ g \in [0 .. N -> Nat]
    /\ g[0] = 0
    /\ \A k \in Items : g[k] = g[k - 1] + (IF k \in S THEN f[k] ELSE 0)

AddsUpTo(f, S, n) == \E g : Sums(S, f, g) /\ g[N] = n

\* TimeOf is the sum: no other function satisfies its recursion, or there
\* would be a first instance at which the two differ.
LEMMA TimeOfIs ==
    ASSUME TimeAssumption, NEW s \in Scopes, NEW S, NEW n, AddsUpTo(Shown[s], S, n)
    PROVE  TimeOf(s, S) = n
<1> DEFINE Step(h, k) == IF k = 0 THEN 0
                         ELSE h[k - 1] + (IF k \in S THEN Elapsed(tm, s, k) ELSE 0)
           sum == CHOOSE h : h = [k \in 0 .. N |-> Step(h, k)]
<1>1. PICK g : Sums(S, Shown[s], g) /\ g[N] = n
  BY DEF AddsUpTo
<1>2. N \in Nat \ {0} /\ \A k \in 0 .. N : k # 0 => k \in Items
  BY ItemsRange
<1>3. \A k \in Items : Shown[s][k] = Elapsed(tm, s, k)
  BY ShownElapsed
<1>4. g = [k \in 0 .. N |-> Step(g, k)]
  BY <1>1, <1>2, <1>3 DEF Sums
<1>5. sum = [k \in 0 .. N |-> Step(sum, k)]
  BY <1>4
<1>6. TimeOf(s, S) = sum[N]
  BY DEF TimeOf
<1> HIDE DEF sum
<1> DEFINE T == {k \in 0 .. N : sum[k] # g[k]}
<1>7. ASSUME T # {} PROVE FALSE
  <2>1. T \subseteq Nat
    BY <1>2
  <2> HIDE DEF T
  <2>2. PICK m \in T : \A k \in T : m <= k
    BY <1>7, <2>1, Least
  <2> USE DEF T
  <2>3. m \in 0 .. N /\ sum[m] = Step(sum, m) /\ g[m] = Step(g, m)
    BY <1>4, <1>5
  <2>4. m # 0
    BY <2>3
  <2>5. (m - 1) \in 0 .. N /\ (m - 1) \notin T
    BY <1>2, <2>2, <2>3, <2>4
  <2>6. QED
    BY <2>3, <2>4, <2>5
<1>8. sum[N] = g[N]
  BY <1>2, <1>7
<1>9. QED
  BY <1>1, <1>6, <1>8

\* Of no time, the sum is nothing.
LEMMA NothingAddsUp ==
    ASSUME TimeAssumption, NEW S, NEW f, \A k \in Items : f[k] = 0
    PROVE  AddsUpTo(f, S, 0)
<1> DEFINE g == [k \in 0 .. N |-> 0]
<1>1. N \in Nat \ {0} /\ Items = 1 .. N
  BY ItemsRange DEF Items
<1>2. g \in [0 .. N -> Nat] /\ \A k \in 0 .. N : g[k] = 0
  OBVIOUS
<1> HIDE DEF g
<1>3. ASSUME NEW k \in Items PROVE g[k] = g[k - 1] + (IF k \in S THEN f[k] ELSE 0)
  <2>1. k \in 0 .. N /\ k - 1 \in 0 .. N
    BY <1>1
  <2>2. g[k] = 0 /\ g[k - 1] = 0 /\ f[k] = 0
    BY <1>2, <2>1
  <2>3. QED
    BY <2>2
<1>4. g[0] = 0 /\ g[N] = 0
  BY <1>1, <1>2
<1>5. QED
  BY <1>2, <1>3, <1>4 DEF Sums, AddsUpTo

\* A second more for one item is one more in every sum that it is part of.
LEMMA SecondAddsUp ==
    ASSUME TimeAssumption, NEW S, NEW f \in [Items -> Nat], NEW n \in Nat, AddsUpTo(f, S, n),
           NEW i \in Items
    PROVE  AddsUpTo([f EXCEPT ![i] = @ + 1], S, IF i \in S THEN n + 1 ELSE n)
<1>1. PICK g : Sums(S, f, g) /\ g[N] = n
  BY DEF AddsUpTo
<1>2. N \in Nat \ {0} /\ i \in Nat \ {0} /\ i <= N /\ Items = 1 .. N
  BY ItemsRange DEF Items
<1> DEFINE e == [f EXCEPT ![i] = @ + 1]
           h == [k \in 0 .. N |-> IF i \in S /\ k >= i THEN g[k] + 1 ELSE g[k]]
<1>3. g \in [0 .. N -> Nat] /\ g[0] = 0 /\ \A k \in 0 .. N : g[k] \in Nat
  BY <1>1 DEF Sums
<1>4. \A k \in 0 .. N : h[k] = IF i \in S /\ k >= i THEN g[k] + 1 ELSE g[k]
  OBVIOUS
<1>5. h \in [0 .. N -> Nat]
  BY <1>3
<1>6. \A k \in Items : e[k] = IF k = i THEN f[k] + 1 ELSE f[k]
  OBVIOUS
<1> HIDE DEF e, h
<1>7. 0 \in 0 .. N /\ N \in 0 .. N /\ N >= i /\ ~(0 >= i)
  BY <1>2
<1>8. h[0] = 0 /\ h[N] = IF i \in S THEN n + 1 ELSE n
  BY <1>1, <1>3, <1>4, <1>7
<1>9. ASSUME NEW k \in Items PROVE h[k] = h[k - 1] + (IF k \in S THEN e[k] ELSE 0)
  <2> k \in 1 .. N
    BY <1>2
  <2>0. f[k] \in Nat
    OBVIOUS
  <2>1. k \in Nat \ {0} /\ k \in 0 .. N /\ k - 1 \in 0 .. N /\ f[k] \in Nat
    BY <1>2, <2>0
  <2>2. g[k] \in Nat /\ g[k - 1] \in Nat
    BY <1>3, <2>1
  <2>3. g[k] = g[k - 1] + (IF k \in S THEN f[k] ELSE 0)
    BY <1>1 DEF Sums
  <2>4. /\ h[k] = IF i \in S /\ k >= i THEN g[k] + 1 ELSE g[k]
        /\ h[k - 1] = IF i \in S /\ k - 1 >= i THEN g[k - 1] + 1 ELSE g[k - 1]
    BY <1>4, <2>1
  <2>5. e[k] = IF k = i THEN f[k] + 1 ELSE f[k]
    BY <1>6
  <2>6. CASE k = i
    <3>1. k >= i /\ ~(k - 1 >= i)
      BY <1>2, <2>1, <2>6
    <3>2. QED
      BY <2>1, <2>2, <2>3, <2>4, <2>5, <2>6, <3>1
  <2>7. CASE k # i
    <3>1. CASE k > i
      <4>1. k >= i /\ k - 1 >= i
        BY <1>2, <2>1, <3>1
      <4>2. QED
        BY <2>1, <2>2, <2>3, <2>4, <2>5, <2>7, <4>1
    <3>2. CASE k < i
      <4>1. ~(k >= i) /\ ~(k - 1 >= i)
        BY <1>2, <2>1, <3>2
      <4>2. QED
        BY <2>1, <2>2, <2>3, <2>4, <2>5, <2>7, <4>1
    <3>3. QED
      BY <1>2, <2>1, <2>7, <3>1, <3>2
  <2>8. QED
    BY <2>6, <2>7
<1>10. QED
  BY <1>5, <1>8, <1>9 DEF AddsUpTo, Sums, e

-----------------------------------------------------------------------------
(* The accounts of the scopes agree.                                       *)

Members(s, i) == {j \in Items : Under(s, j) = Under(s, i)}

\* The total is what all sections, and what all testParts, have run for.
Whole(times, total) ==
    \A s \in Scopes \ {"item"} : AddsUpTo(times[s], Items, total)

\* The sections and testParts, and the total, have the times of their items.
Balanced(times, total) ==
    /\ \A s \in Scopes \ {"item"}, i \in Items :
          AddsUpTo(times["item"], Members(s, i), times[s][Under(s, i)])
    /\ AddsUpTo(times["item"], Items, total)

Account(copy, times, total) ==
    /\ Whole(times, total)
    /\ copy \notin touched => Balanced(times, total)

\* So they do in what a live page shows, in what the host has saved and in what
\* the backend has, but for the items where a submission's time has come in.
BalanceInv ==
    /\ alive => Account("page", Shown, Total(tm))
    /\ Account("saved", TimesOf(saved), saved.total)
    /\ Account("stored", TimesOf(stored), stored.total)

LEMMA PrimedBalance ==
    BalanceInv' <=>
        /\ alive' => /\ Whole(Shown', Total(tm)')
                     /\ "page" \notin touched' => Balanced(Shown', Total(tm)')
        /\ Whole(TimesOf(saved'), saved'.total)
        /\ "saved" \notin touched' => Balanced(TimesOf(saved'), saved'.total)
        /\ Whole(TimesOf(stored'), stored'.total)
        /\ "stored" \notin touched' => Balanced(TimesOf(stored'), stored'.total)
  BY DEF BalanceInv, Account, Whole, Balanced, AddsUpTo, Sums, Members, Under, TimesOf

LEMMA AdvanceBalances ==
    ASSUME TimeAssumption, TimeInv, BalanceInv, Advance
    PROVE  BalanceInv'
<1>1. index \in Items /\ alive' = alive /\ Untouched
  BY InvFacts DEF Advance, Untouched
<1>2. ASSUME alive
      PROVE  /\ Whole(Shown', Total(tm)')
             /\ "page" \notin touched => Balanced(Shown', Total(tm)')
  <2>1. Account("page", Shown, Total(tm))
    BY <1>2 DEF BalanceInv
  <2>2. CASE tm.paused
    <3>1. Shown' = Shown /\ Total(tm)' = Total(tm)
      BY <2>2, AdvanceInv DEF Unmoved
    <3>2. QED
      BY <2>1, <3>1 DEF Account
  <2>3. CASE ~tm.paused
    <3> DEFINE f(s) == Shown[s]
               e(s) == [f(s) EXCEPT ![Under(s, index)] = @ + 1]
    <3>1. /\ Shown' = [s \in Scopes |-> [Shown[s] EXCEPT ![Under(s, index)] = @ + 1]]
          /\ Total(tm)' = Total(tm) + 1 /\ Total(tm) \in Nat
          /\ \A s \in Scopes, k \in Items : Shown[s][k] \in Nat
      BY <1>2, <2>3, AdvanceInv
    <3>2. ASSUME NEW s \in Scopes
          PROVE  f(s) \in [Items -> Nat] /\ Under(s, index) \in Items /\ Shown'[s] = e(s)
      BY <1>1, <3>1, UnderType DEF Shown
    <3>3. "item" \in Scopes /\ Under("item", index) = index
      BY DEF Scopes, Under
    <3>4. ASSUME NEW s \in Scopes, AddsUpTo(f(s), Items, Total(tm))
          PROVE  AddsUpTo(Shown'[s], Items, Total(tm)')
      <4> HIDE DEF f
      <4>1. AddsUpTo(e(s), Items, IF Under(s, index) \in Items THEN Total(tm) + 1 ELSE Total(tm))
        BY <3>1, <3>2, <3>4, SecondAddsUp
      <4> HIDE DEF e
      <4>2. QED
        BY <3>1, <3>2, <4>1
    <3>5. ASSUME NEW s \in Scopes \ {"item"}, NEW i \in Items,
                 AddsUpTo(f("item"), Members(s, i), Shown[s][Under(s, i)])
          PROVE  AddsUpTo(Shown'["item"], Members(s, i), Shown'[s][Under(s, i)])
      <4> DEFINE n == Shown[s][Under(s, i)]
      <4>1. Under(s, i) \in Items /\ Under(s, index) \in Items
        BY <1>1, UnderType
      <4>2. n \in Nat
        BY <3>1, <4>1
      <4>3. AddsUpTo(f("item"), Members(s, i), n)
        BY <3>5
      <4>4. Shown'[s][Under(s, i)] = IF Under(s, index) = Under(s, i) THEN n + 1 ELSE n
        <5>1. Shown[s] = [k \in Items |-> Reads(tm, s, k)]
          BY DEF Shown
        <5>2. Shown'[s] = [Shown[s] EXCEPT ![Under(s, index)] = @ + 1]
          BY <3>1
        <5>3. QED
          BY <4>1, <5>1, <5>2
      <4> HIDE DEF n
      <4>5. index \in Members(s, i) <=> Under(s, index) = Under(s, i)
        BY <1>1 DEF Members
      <4>6. f("item") \in [Items -> Nat] /\ Shown'["item"] = [f("item") EXCEPT ![index] = @ + 1]
        BY <3>2, <3>3
      <4> HIDE DEF f
      <4>7. AddsUpTo([f("item") EXCEPT ![index] = @ + 1], Members(s, i),
                     IF index \in Members(s, i) THEN n + 1 ELSE n)
        BY <1>1, <4>2, <4>3, <4>6, SecondAddsUp
      <4>8. QED
        BY <4>4, <4>5, <4>6, <4>7
    <3>6. Whole(Shown', Total(tm)')
      BY <2>1, <3>4 DEF Account, Whole
    <3>7. ASSUME "page" \notin touched PROVE Balanced(Shown', Total(tm)')
      <4>1. Balanced(Shown, Total(tm))
        BY <2>1, <3>7 DEF Account
      <4>2. AddsUpTo(Shown'["item"], Items, Total(tm)')
        BY <3>3, <3>4, <4>1 DEF Balanced
      <4>3. \A s \in Scopes \ {"item"}, i \in Items :
                AddsUpTo(Shown'["item"], Members(s, i), Shown'[s][Under(s, i)])
        BY <3>5, <4>1 DEF Balanced
      <4>4. QED
        BY <4>2, <4>3 DEF Balanced
    <3>8. QED
      BY <3>6, <3>7
  <2>4. QED
    BY <2>2, <2>3
<1>3. QED
  BY <1>1, <1>2, PrimedBalance DEF BalanceInv, Account, Untouched

\* A step keeps the accounts of the timings that are what one of them was, with
\* what submissions had put into it; the backend's changes in its items only.
LEMMA StepBalances ==
    ASSUME BalanceInv,
           \/ /\ alive' => alive /\ Unmoved
              /\ "page" \in touched => "page" \in touched'
           \/ /\ Shown' = TimesOf(saved) /\ Total(tm)' = saved.total
              /\ "saved" \in touched => "page" \in touched'
           \/ /\ Shown' = TimesOf(stored) /\ Total(tm)' = stored.total
              /\ "stored" \in touched => "page" \in touched',
           \/ saved' = saved /\ ("saved" \in touched => "saved" \in touched')
           \/ /\ alive /\ TimesOf(saved') = Shown /\ saved'.total = Total(tm)
              /\ "page" \in touched => "saved" \in touched',
           \/ stored' = stored /\ ("stored" \in touched => "stored" \in touched')
           \/ /\ alive /\ TimesOf(stored') = Shown /\ stored'.total = Total(tm)
              /\ "page" \in touched => "stored" \in touched'
           \/ /\ "stored" \in touched' /\ stored'.total = stored.total
              /\ \A s \in Scopes \ {"item"} : TimesOf(stored')[s] = TimesOf(stored)[s]
    PROVE  BalanceInv'
<1>1. ASSUME alive'
      PROVE  /\ Whole(Shown', Total(tm)')
             /\ "page" \notin touched' => Balanced(Shown', Total(tm)')
  BY <1>1 DEF BalanceInv, Account, Unmoved
<1>2. /\ Whole(TimesOf(saved'), saved'.total)
      /\ "saved" \notin touched' => Balanced(TimesOf(saved'), saved'.total)
  BY DEF BalanceInv, Account
<1>3. /\ Whole(TimesOf(stored'), stored'.total)
      /\ "stored" \notin touched' => Balanced(TimesOf(stored'), stored'.total)
  <2>1. CASE /\ "stored" \in touched' /\ stored'.total = stored.total
             /\ \A s \in Scopes \ {"item"} : TimesOf(stored')[s] = TimesOf(stored)[s]
    BY <2>1 DEF BalanceInv, Account, Whole
  <2>2. QED
    BY <2>1 DEF BalanceInv, Account
<1>4. QED
  BY <1>1, <1>2, <1>3, PrimedBalance

-----------------------------------------------------------------------------
(* Theorems.                                                               *)

\* Every reachable state of the page is one whose clocks are in order.
THEOREM TimeInvariant == Spec => []TimeInv
<1>1. TimeAssumption
  BY TimeAssumption
<1>2. Init => TimeInv
  BY <1>1, InitInv
<1>3. TimeInv /\ [Next]_vars => TimeInv'
  <2> SUFFICES ASSUME TimeInv, [Next]_vars PROVE TimeInv'
    OBVIOUS
  <2>1. CASE Advance
    BY <1>1, <2>1, AdvanceInv
  <2>2. CASE Tick
    BY <1>1, <2>2, TickInv
  <2>3. CASE \E i \in Items : Navigate(i)
    BY <1>1, <2>3, NavigateInv
  <2>4. CASE Pause
    BY <1>1, <2>4, PauseInv
  <2>5. CASE Resume
    BY <1>1, <2>5, ResumeInv
  <2>6. CASE Save
    BY <1>1, <2>6, SaveInv
  <2>7. CASE RestoreState
    BY <1>1, <2>7, RestoreStateInv
  <2>8. CASE Reload
    BY <1>1, <2>8, ReloadInv
  <2>9. CASE \E i \in Items : SubmissionAccepted(i)
    BY <1>1, <2>9, SubmissionInv
  <2>10. CASE Destroy
    BY <1>1, <2>10, DestroyInv
  <2>11. CASE UNCHANGED vars
    BY <2>11 DEF vars, TimeInv, TypeOK, Sound, Steady, Showing, StoppedByHardLimit
  <2>12. QED
    BY <2>1, <2>2, <2>3, <2>4, <2>5, <2>6, <2>7, <2>8, <2>9, <2>10, <2>11 DEF Next
<1>4. QED
  BY <1>2, <1>3, PTL DEF Spec

\* The manager and what the host saves have the types the code declares.
THEOREM TimeTypeCorrect == Spec => []TypeOK
<1>1. TimeInv => TypeOK
  BY DEF TimeInv
<1>2. QED
  BY <1>1, TimeInvariant, PTL

\* The interval of a live page ends only for a limit that allows nothing late.
THEOREM StoppedByHardLimitCorrect == Spec => []StoppedByHardLimit
<1>1. TimeInv => StoppedByHardLimit
  BY DEF TimeInv
<1>2. QED
  BY <1>1, TimeInvariant, PTL

LEMMA BalanceStep ==
    ASSUME TimeAssumption, TimeInv, BalanceInv, [Next]_vars
    PROVE  BalanceInv'
<1>1. CASE Advance
  BY <1>1, AdvanceBalances
<1>2. CASE Tick
  BY <1>2, TickInv, StepBalances DEF Tick
<1>3. CASE \E i \in Items : Navigate(i)
  BY <1>3, NavigateInv, StepBalances DEF Navigate
<1>4. CASE Pause
  BY <1>4, PauseInv, StepBalances DEF Pause
<1>5. CASE Resume
  BY <1>5, ResumeInv, StepBalances DEF Resume
<1>6. CASE Save
  BY <1>6, SaveInv, StepBalances
<1>7. CASE RestoreState
  BY <1>7, RestoreStateInv, StepBalances
<1>8. CASE Reload
  BY <1>8, ReloadInv, StepBalances
<1>9. CASE \E i \in Items : SubmissionAccepted(i)
  <2>1. /\ alive' = alive /\ Unmoved /\ saved' = saved /\ stored'.total = stored.total
        /\ \A s \in Scopes \ {"item"} : TimesOf(stored')[s] = TimesOf(stored)[s]
        /\ touched' = touched \cup {"stored"}
    <3>1. PICK i \in Items : SubmissionAccepted(i)
      BY <1>9
    <3>2. alive' = alive
      BY <3>1 DEF SubmissionAccepted
    <3>3. QED
      BY <3>1, <3>2, SubmissionInv
  <2>2. QED
    BY <2>1, StepBalances
<1>10. CASE Destroy
  BY <1>10, StepBalances DEF Destroy
<1>11. CASE UNCHANGED vars
  <2>1. Unmoved /\ Untouched /\ alive' = alive
    BY <1>11 DEF vars, Unmoved, Untouched, Shown, Reads, Total, Since
  <2>2. QED
    BY <2>1, StepBalances DEF Untouched
<1>12. QED
  BY <1>1, <1>2, <1>3, <1>4, <1>5, <1>6, <1>7, <1>8, <1>9, <1>10, <1>11 DEF Next

\* The separate accounts agree, for every test, pace of the interval, pause and
\* saved state: the total, which ticks keep, is what all sections and what all
\* testParts have run for, also in a session that is opened again after a
\* submission; and these have run for as long as their items, unless the time
\* that a submission filed of an item has come into the page.
THEOREM ScopesAddUpCorrect == Spec => []ScopesAddUp
<1>1. Init => BalanceInv
  <2> SUFFICES ASSUME Init PROVE BalanceInv
    OBVIOUS
  <2>1. /\ Shown = [s \in Scopes |-> [k \in Items |-> 0]] /\ Total(tm) = 0
        /\ TimesOf(saved) = Shown /\ saved.total = 0 /\ stored = saved
    BY TimeAssumption, InitInv
  <2>2. \A s \in Scopes, k \in Items : Shown[s][k] = 0
    BY <2>1
  <2>3. \A s \in Scopes : \A S : AddsUpTo(Shown[s], S, 0)
    BY <2>2, TimeAssumption, NothingAddsUp
  <2>4. \A s \in Scopes, i \in Items : Shown[s][Under(s, i)] = 0
    BY <2>1, TimeAssumption, UnderType
  <2>5. Whole(Shown, 0) /\ Balanced(Shown, 0)
    BY <2>3, <2>4 DEF Whole, Balanced, Scopes
  <2>6. QED
    BY <2>1, <2>5 DEF BalanceInv, Account
<1>2. TimeInv /\ BalanceInv /\ [Next]_vars => BalanceInv'
  BY TimeAssumption, BalanceStep
<1>3. BalanceInv => ScopesAddUp
  <2> SUFFICES ASSUME BalanceInv, alive
               PROVE  /\ \A s \in Scopes \ {"item"} : Total(tm) = TimeOf(s, Items)
                      /\ "page" \notin touched =>
                             /\ \A i \in Items, s \in Scopes \ {"item"} :
                                   Elapsed(tm, s, Under(s, i)) = TimeOf("item", Members(s, i))
                             /\ Total(tm) = TimeOf("item", Items)
    BY DEF ScopesAddUp, Members
  <2>1. /\ Whole(Shown, Total(tm))
        /\ "page" \notin touched => Balanced(Shown, Total(tm))
        /\ "item" \in Scopes
    BY DEF BalanceInv, Account, Scopes
  <2>2. ASSUME NEW s \in Scopes \ {"item"} PROVE Total(tm) = TimeOf(s, Items)
    BY <2>1, TimeAssumption, TimeOfIs DEF Whole
  <2>3. ASSUME "page" \notin touched, NEW i \in Items, NEW s \in Scopes \ {"item"}
        PROVE  Elapsed(tm, s, Under(s, i)) = TimeOf("item", Members(s, i))
    <3>1. Under(s, i) \in Items
      BY TimeAssumption, UnderType
    <3>2. AddsUpTo(Shown["item"], Members(s, i), Shown[s][Under(s, i)])
      BY <2>1, <2>3 DEF Balanced
    <3>3. Shown[s][Under(s, i)] = Elapsed(tm, s, Under(s, i))
      BY <3>1, ShownElapsed
    <3>4. QED
      BY <2>1, <3>2, <3>3, TimeAssumption, TimeOfIs
  <2>4. ASSUME "page" \notin touched PROVE Total(tm) = TimeOf("item", Items)
    <3>1. AddsUpTo(Shown["item"], Items, Total(tm))
      BY <2>1, <2>4 DEF Balanced
    <3>2. QED
      BY <2>1, <3>1, TimeAssumption, TimeOfIs
  <2>5. QED
    BY <2>2, <2>3, <2>4
<1>4. QED
  BY <1>1, <1>2, <1>3, TimeInvariant, PTL DEF Spec

\* The name of a scope instance tells the level and the instance, so that the
\* time of one item's scope is that of every item in it.
LEMMA SameKey ==
    ASSUME NEW t, NEW l \in Levels, NEW m \in Levels, NEW i, NEW j, KeyOf(l, i) = KeyOf(m, j)
    PROVE  ElapsedOf(t, l, i) = ElapsedOf(t, m, j)
<1>1. l = m /\ (l # "assessment" => Under(l, i) = Under(m, j))
  BY DEF KeyOf
<1>2. QED
  BY <1>1 DEF ElapsedOf

\* A tick marks a level only when its limit has passed.
LEMMA TickMarks ==
    ASSUME TimeAssumption, TimeInv, Tick, NEW l \in Levels, NEW i \in Items,
           KeyOf(l, i) \in tm'.expired \ tm.expired
    PROVE  MaxTime[KeyOf(l, i)] # 0 /\ ElapsedOf(tm, l, i) >= MaxTime[KeyOf(l, i)]
<1> DEFINE total == Total(tm)
           e == [tm EXCEPT !.total = total, !.lastTickAt = clock]
           a == tm.active
<1>1. ClockOK /\ Sound(tm) /\ a \in Items
  BY InvFacts
<1>2. tm' = Ticked(tm)
  BY DEF Tick
<1>3. ~tm.paused /\ \E m \in Due(e) : KeyOf(l, i) = KeyOf(m, a)
  BY <1>1, <1>2, TickedReads
<1>4. PICK m \in Due(e) : KeyOf(l, i) = KeyOf(m, a)
  BY <1>3
<1>5. total \in Nat /\ tm \in Manager /\ clock \in Nat
  BY <1>1, SoundFields, TotalType DEF ClockOK
<1>6. Since(clock) = 0
  BY <1>1, <1>5, SinceType
<1> HIDE DEF total
<1>7. /\ e \in Manager /\ e.scope = tm.scope /\ e.active = a
      /\ e.total = total /\ e.lastTickAt = clock
  BY <1>5 DEF Manager
<1>8. e.paused = tm.paused
  BY <1>5 DEF Manager
<1> HIDE DEF e
<1>9. m \in Levels /\ MaxTime[KeyOf(m, a)] # 0 /\ Remaining(e, m) <= 0
  BY <1>4, <1>7 DEF Due, Candidates
<1>10. ElapsedOf(e, m, a) = ElapsedOf(tm, m, a)
  <2>1. CASE m = "assessment"
    <3>1. ElapsedOf(e, m, a) = Total(e) /\ ElapsedOf(tm, m, a) = total
      BY <2>1 DEF ElapsedOf, total
    <3>2. Total(e) = total
      BY <1>5, <1>6, <1>7 DEF Total
    <3>3. QED
      BY <3>1, <3>2
  <2>2. CASE m # "assessment"
    BY <1>7, <1>8, <2>2 DEF ElapsedOf, Elapsed
  <2>3. QED
    BY <2>1, <2>2
<1>11. ElapsedOf(tm, m, a) \in Nat /\ MaxTime[KeyOf(m, a)] \in Nat
  BY <1>1, <1>9, ElapsedOfType
<1>12. ElapsedOf(tm, m, a) >= MaxTime[KeyOf(m, a)]
  BY <1>7, <1>9, <1>10, <1>11 DEF Remaining
<1>13. ElapsedOf(tm, l, i) = ElapsedOf(tm, m, a)
  BY <1>4, <1>9, SameKey
<1>14. QED
  BY <1>4, <1>9, <1>12, <1>13

\* Only the interval marks a scope expired.
LEMMA OnlyTicksMark ==
    ASSUME TimeAssumption, TimeInv, [Next]_vars, ~Tick
    PROVE  tm'.expired \subseteq tm.expired
<1>1. /\ ClockOK /\ Sound(tm) /\ tm.active \in Items /\ index \in Items
      /\ saved \in SavedTiming /\ stored \in SavedTiming /\ index \in 0 .. N
  BY InvFacts DEF OutsideOK
<1>2. alive => Showing(tm, index)
  BY DEF TimeInv
<1>3. CASE Advance \/ UNCHANGED vars \/ \E i \in Items : SubmissionAccepted(i)
  BY <1>3 DEF Advance, vars, SubmissionAccepted
<1>4. CASE \E i \in Items : Navigate(i)
  BY <1>1, <1>4, ShowReads DEF Navigate, Alike
<1>5. CASE Pause
  BY <1>1, <1>2, <1>5, PausedReads DEF Pause
<1>6. CASE Resume
  BY <1>1, <1>2, <1>6, ResumedReads DEF Resume
<1>7. CASE Save
  BY <1>1, <1>2, <1>7, GotReads DEF Save, Alike
<1>8. ASSUME NEW t, Sound(t), NEW from \in 0 .. N, NEW to \in Items,
             NEW timing \in SavedTiming, tm' = Show(Restored(t, timing), from, to)
      PROVE  tm'.expired = t.expired
  <2> DEFINE r == Restored(t, timing)
  <2>1. Sound(r) /\ r.expired = t.expired
    BY <1>1, <1>8, RestoredReads
  <2> HIDE DEF r
  <2>2. Show(r, from, to).expired = r.expired
    BY <1>1, <1>8, <2>1, ShowReads DEF Alike
  <2>3. QED
    BY <1>8, <2>1, <2>2 DEF r
<1> DEFINE to(timing) == IF timing.ids["item"] = None THEN 1 ELSE timing.ids["item"]
<1>9. to(saved) \in Items /\ to(stored) \in Items
  BY <1>1, ItemsRange DEF SavedTiming, Scopes, None
<1>10. CASE RestoreState
  BY <1>1, <1>8, <1>9, <1>10 DEF RestoreState
<1>11. CASE Reload
  BY <1>1, <1>8, <1>9, <1>11, NewType, ItemsRange DEF Reload, None
<1>12. CASE Destroy
  <2> DEFINE e == Checkpoint(tm, FALSE)
  <2>0. e = Checkpoint(tm, FALSE) /\ FALSE \in BOOLEAN
    OBVIOUS
  <2>1. e \in Manager /\ Alike(tm, e)
    BY <1>1, <2>0, CheckpointReads DEF Checkpointed
  <2>2. tm' = [e EXCEPT !.timer = FALSE]
    BY <1>12 DEF Destroy
  <2> HIDE DEF e
  <2>3. QED
    BY <2>1, <2>2 DEF Manager, Alike
<1>13. QED
  BY <1>3, <1>4, <1>5, <1>6, <1>7, <1>10, <1>11, <1>12 DEF Next

\* A scope is marked expired only in a tick that finds its limit passed.
THEOREM MarkedWhenPassedCorrect == Spec => MarkedWhenPassed
<1> DEFINE A == \A l \in Levels, i \in Items :
                    KeyOf(l, i) \in tm'.expired \ tm.expired
                        => /\ MaxTime[KeyOf(l, i)] # 0
                           /\ ElapsedOf(tm, l, i) >= MaxTime[KeyOf(l, i)]
<1>1. TimeInv /\ [Next]_vars => A
  <2>1. ASSUME TimeInv, Tick PROVE A
    BY <2>1, TimeAssumption, TickMarks
  <2>2. ASSUME TimeInv, [Next]_vars, ~Tick PROVE A
    BY <2>2, TimeAssumption, OnlyTicksMark
  <2>3. QED
    BY <2>1, <2>2
<1>2. MarkedWhenPassed <=> [][A]_vars
  BY DEF MarkedWhenPassed
<1> HIDE DEF A
<1>3. QED
  BY <1>1, <1>2, TimeInvariant, PTL DEF Spec

\* Time tracking implements the stopwatch: each second is counted for the item
\* shown, once, and only while tracking runs; a state that is gone back to brings
\* back the times it was saved with, and a session that is opened again those
\* that the backend has on file, where submissions have noted theirs.
THEOREM KeepsStopwatchCorrect == Spec => KeepsStopwatch
<1>1. Init => Watch!Init
  <2> SUFFICES ASSUME Init PROVE Watch!Init
    OBVIOUS
  <2>1. Spent = [i \in Items |-> 0] /\ Kept = Spent /\ Filed = Spent /\ ~tm.paused
    BY TimeAssumption, InitInv DEF Spent, Kept, Filed, Scopes
  <2>2. alive = TRUE /\ index \in Items
    BY TimeAssumption, ItemsRange DEF Init
  <2>3. (alive /\ ~tm.paused) = TRUE
    BY <2>1, <2>2
  <2>4. QED
    BY <2>1, <2>2, <2>3, SpentElapsed, KeptTimes DEF Watch!Init
<1>2. TimeInv /\ [Next]_vars => [Watch!Next]_(Watch!vars)
  <2> SUFFICES ASSUME TimeInv, [Next]_vars PROVE [Watch!Next]_(Watch!vars)
    OBVIOUS
  <2>1. index \in Items /\ alive \in BOOLEAN
    BY TimeAssumption, InvFacts
  <2>2. CASE Advance
    <3>1. /\ Spent' = IF alive /\ ~tm.paused THEN [Spent EXCEPT ![index] = @ + 1] ELSE Spent
          /\ Kept' = Kept /\ Filed' = Filed /\ index' = index /\ (alive /\ ~tm.paused)' = (alive /\ ~tm.paused)
      BY <2>2, TimeAssumption, AdvanceSpends DEF Advance, Kept, Filed
    <3>2. Watch!Elapse
      BY <3>1, SpentElapsed, KeptTimes DEF Watch!Elapse
    <3>3. QED
      BY <3>2 DEF Watch!Next
  <2>3. CASE Tick \/ UNCHANGED vars
    <3>1. /\ Spent' = Spent /\ Kept' = Kept /\ Filed' = Filed /\ index' = index
          /\ (alive /\ ~tm.paused)' = (alive /\ ~tm.paused)
      <4>1. CASE Tick
        BY <4>1, TimeAssumption, TickInv, UnmovedSpent DEF Tick, Kept, Filed
      <4>2. CASE UNCHANGED vars
        BY <4>2 DEF Kept, Filed, vars, Spent, Shown, Reads
      <4>3. QED
        BY <2>3, <4>1, <4>2
    <3>2. QED
      BY <3>1, SpentElapsed, KeptTimes DEF Watch!vars
  <2>4. CASE \E i \in Items : Navigate(i)
    <3>1. /\ Spent' = Spent /\ Kept' = Kept /\ Filed' = Filed /\ index' \in Items
          /\ (alive /\ ~tm.paused)' = (alive /\ ~tm.paused)
      BY <2>4, TimeAssumption, NavigateInv, UnmovedSpent DEF Navigate, Kept, Filed
    <3>2. Watch!Show
      BY <3>1, SpentElapsed, KeptTimes DEF Watch!Show
    <3>3. QED
      BY <3>2 DEF Watch!Next
  <2>5. CASE Pause
    <3>1. /\ Spent' = Spent /\ Kept' = Kept /\ Filed' = Filed /\ index' = index
          /\ (alive /\ ~tm.paused) /\ ~(alive /\ ~tm.paused)'
      BY <2>5, TimeAssumption, PauseInv, UnmovedSpent DEF Pause, Kept, Filed
    <3>2. Watch!Toggle
      BY <3>1, SpentElapsed, KeptTimes DEF Watch!Toggle
    <3>3. QED
      BY <3>2 DEF Watch!Next
  <2>6. CASE Resume
    <3>1. /\ Spent' = Spent /\ Kept' = Kept /\ Filed' = Filed /\ index' = index
          /\ ~(alive /\ ~tm.paused) /\ (alive /\ ~tm.paused)'
      BY <2>6, TimeAssumption, ResumeInv, UnmovedSpent DEF Resume, Kept, Filed
    <3>2. Watch!Toggle
      BY <3>1, SpentElapsed, KeptTimes DEF Watch!Toggle
    <3>3. QED
      BY <3>2 DEF Watch!Next
  <2>7. CASE Save
    <3>1. /\ Spent' = Spent /\ Kept' = Spent /\ Filed' = Spent /\ index' = index
          /\ (alive /\ ~tm.paused)' = (alive /\ ~tm.paused)
      BY <2>7, TimeAssumption, SaveInv, UnmovedSpent DEF Save, Spent, Kept, Filed
    <3>2. Watch!Keep
      BY <3>1, SpentElapsed, KeptTimes DEF Watch!Keep
    <3>3. QED
      BY <3>2 DEF Watch!Next
  <2>8. CASE RestoreState \/ Reload
    <3>1. /\ TimeInv' /\ Spent' \in {Kept, Filed} /\ saved' = saved /\ stored' = stored
      BY <2>8, TimeAssumption, RestoreStateInv, ReloadInv DEF Spent, Kept, Filed
    <3>2. index' \in Items /\ Kept' = Kept /\ Filed' = Filed
      BY <3>1 DEF TimeInv, TypeOK, Kept, Filed
    <3>3. (alive /\ ~tm.paused)' \in BOOLEAN
      OBVIOUS
    <3>4. Watch!Return
      BY <3>1, <3>2, <3>3, SpentElapsed, KeptTimes DEF Watch!Return
    <3>5. QED
      BY <3>4 DEF Watch!Next
  <2>9. CASE Destroy
    <3>1. /\ Spent' = Spent /\ Kept' = Kept /\ Filed' = Filed /\ index' = index
          /\ ~alive' /\ alive
      BY <2>9, TimeAssumption, DestroyInv DEF Destroy, Spent, Kept, Filed
    <3>2. CASE tm.paused
      <4>1. (alive /\ ~tm.paused)' = (alive /\ ~tm.paused)
        BY <3>1, <3>2
      <4>2. QED
        BY <3>1, <4>1, SpentElapsed, KeptTimes DEF Watch!vars
    <3>3. CASE ~tm.paused
      <4>1. Watch!Toggle
        BY <3>1, <3>3, SpentElapsed, KeptTimes DEF Watch!Toggle
      <4>2. QED
        BY <4>1 DEF Watch!Next
    <3>4. QED
      BY <3>2, <3>3
  <2>10. CASE \E i \in Items : SubmissionAccepted(i)
    <3>1. PICK i \in Items : SubmissionAccepted(i)
      BY <2>10
    <3>2. /\ Spent' = Spent /\ Kept' = Kept /\ index' = index
          /\ Filed'[i] \in Nat /\ Filed' = [Filed EXCEPT ![i] = Filed'[i]]
          /\ (alive /\ ~tm.paused)' = (alive /\ ~tm.paused)
      BY <3>1, TimeAssumption, SubmissionInv, UnmovedSpent DEF SubmissionAccepted, Kept
    <3>3. Watch!Note
      BY <3>2, SpentElapsed, KeptTimes DEF Watch!Note
    <3>4. QED
      BY <3>3 DEF Watch!Next
  <2>11. QED
    BY <2>2, <2>3, <2>4, <2>5, <2>6, <2>7, <2>8, <2>9, <2>10 DEF Next
<1>3. QED
  BY <1>1, <1>2, TimeInvariant, PTL DEF Spec, KeepsStopwatch, Watch!Spec
=============================================================================
