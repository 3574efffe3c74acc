----------------------- MODULE MCAssessmentMixedParts -----------------------
(* A test of two nonlinear parts, the first submitted item by item and the *)
(* second as a whole: assessment.submissionMode is that of the first part. *)
EXTENDS AssessmentPlayer

MCPartOf == <<1, 2, 2>>
MCNavigationMode == [i \in Items |-> "nonlinear"]
MCSubmissionMode == <<"individual", "simultaneous", "simultaneous">>
MCControl == [i \in Items |-> NoControl]
MCBranches == [i \in Items |-> {[kind |-> "none", to |-> 1]}]
=============================================================================
