-------------------------- MODULE AssessmentLedger --------------------------
(***************************************************************************)
(* What an assessment session promises about submissions, whatever the     *)
(* candidate, the network and the order of events do: a ledger of the      *)
(* items whose answers the backend accepted, which only grows until the    *)
(* session is finalized and never after; what the client believes accepted *)
(* is a part of it; and a test submitted as a whole is finalized only when *)
(* every item has been accepted.                                           *)
(***************************************************************************)
CONSTANTS
    Items,      \* the items of the test
    Complete    \* the test is submitted as a whole

VARIABLES
    accepted,   \* the items the backend has accepted an answer for
    known,      \* the items the client believes it has accepted
    closed      \* whether the session is finalized

ledger == <<accepted, known, closed>>

Init == accepted = {} /\ known = {} /\ closed = FALSE

Accept(i) ==
    /\ ~closed
    /\ accepted' = accepted \cup {i}
    /\ UNCHANGED <<known, closed>>

Learn ==
    /\ known' \in SUBSET accepted
    /\ UNCHANGED <<accepted, closed>>

Close ==
    /\ Complete => accepted = Items
    /\ closed' = TRUE
    /\ UNCHANGED <<accepted, known>>

Next == (\E i \in Items : Accept(i)) \/ Learn \/ Close

Spec == Init /\ [][Next]_ledger
=============================================================================
