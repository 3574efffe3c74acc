---------------------- MODULE MCAssessmentSimultaneous ----------------------
(* A nonlinear test of one part submitted as a whole; its last item is     *)
(* adaptive.  Sections and branches do not matter here.                    *)
EXTENDS AssessmentPlayer

MCPartOf == [i \in Items |-> 1]
MCNavigationMode == [i \in Items |-> "nonlinear"]
MCSubmissionMode == [i \in Items |-> "simultaneous"]
MCControl == [i \in Items |-> NoControl]
MCBranches == [i \in Items |-> {[kind |-> "none", to |-> 1]}]
=============================================================================
