------------------------- MODULE MCAssessmentOverlap -------------------------
(* A nonlinear test of one part submitted as a whole, in a host that does  *)
(* not wait for an operation before it starts the next: two operations at  *)
(* a time, with navigation and typing while they are in flight.            *)
EXTENDS AssessmentPlayer, TLC

MCPartOf == [i \in Items |-> 1]
MCNavigationMode == [i \in Items |-> "nonlinear"]
MCSubmissionMode == [i \in Items |-> "simultaneous"]
MCControl == [i \in Items |-> NoControl]
MCBranches == [i \in Items |-> {[kind |-> "none", to |-> 1]}]

Symmetry == Permutations(Calls)
=============================================================================
