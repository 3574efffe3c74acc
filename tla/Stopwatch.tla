----------------------------- MODULE Stopwatch -----------------------------
(***************************************************************************)
(* What time tracking promises: the clock runs for the item that is shown, *)
(* and for no other, while the tracking is neither paused nor ended; one   *)
(* may go back to the times that were kept, or to those on file, in which  *)
(* submissions note their own, and nothing else changes the times.         *)
(***************************************************************************)
EXTENDS Naturals

CONSTANT Shown   \* the items

VARIABLES spent, \* time spent on each item
          kept,  \* the times as they were last saved
          filed, \* these, but for what submissions have noted since
          item,  \* the item shown
          runs   \* whether the clock runs

vars == <<spent, kept, filed, item, runs>>

Init ==
    /\ spent = [i \in Shown |-> 0]
    /\ kept = spent
    /\ filed = spent
    /\ item \in Shown
    /\ runs = TRUE

Elapse ==
    /\ spent' = IF runs THEN [spent EXCEPT ![item] = @ + 1] ELSE spent
    /\ UNCHANGED <<kept, filed, item, runs>>

Show ==
    /\ item' \in Shown
    /\ UNCHANGED <<spent, kept, filed, runs>>

Toggle ==
    /\ runs' = ~runs
    /\ UNCHANGED <<spent, kept, filed, item>>

Keep ==
    /\ kept' = spent
    /\ filed' = spent
    /\ UNCHANGED <<spent, item, runs>>

Note ==
    /\ \E i \in Shown : filed'[i] \in Nat /\ filed' = [filed EXCEPT ![i] = filed'[i]]
    /\ UNCHANGED <<spent, kept, item, runs>>

Return ==
    /\ spent' \in {kept, filed}
    /\ item' \in Shown
    /\ runs' \in BOOLEAN
    /\ UNCHANGED <<kept, filed>>

Next == Elapse \/ Show \/ Toggle \/ Keep \/ Note \/ Return

Spec == Init /\ [][Next]_vars
=============================================================================
