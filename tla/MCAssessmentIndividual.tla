----------------------- MODULE MCAssessmentIndividual -----------------------
(* A test submitted item by item: a linear part of two sections, of which  *)
(* the first may not be skipped and validates responses, then a second     *)
(* part.  The second item is adaptive, and the backend branches.           *)
EXTENDS AssessmentPlayer

MCPartOf == <<1, 1, 2>>
MCSectionOf == <<1, 2, 3>>
MCNavigationMode == <<"linear", "linear", "nonlinear">>
MCSubmissionMode == <<"individual", "individual", "individual">>
MCPartControl ==
    LET first == [allowReview |-> "no", allowSkipping |-> "unset", validateResponses |-> "unset"]
    IN  <<first, first, NoControl>>
MCSectionControl ==
    LET strict == [allowReview |-> "unset", allowSkipping |-> "no", validateResponses |-> "yes"]
    IN  <<strict, NoControl, NoControl>>
MCBranches ==
    LET To(kind, i) == [kind |-> kind, to |-> i]
    IN  <<{To("none", 1), To("section", 1), To("testPart", 1)},
          {To("none", 1), To("item", 3), To("test", 1)},
          {To("none", 1), To("section", 1)}>>
=============================================================================
