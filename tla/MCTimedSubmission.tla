-------------------------- MODULE MCTimedSubmission ------------------------
(***************************************************************************)
(* Two items in one section; the section has a hard limit of three seconds *)
(* and its first item one of two that allows late submission.              *)
(***************************************************************************)
EXTENDS TimedSubmission

MCSectionOf == <<1, 1>>
MCPartOf == <<1, 1>>

MCMaxTime ==
    [k \in Keys |-> CASE k = <<"section", 1>> -> 3
                      [] k = <<"item", 1>>    -> 2
                      [] OTHER                -> 0]

MCMinTime == [k \in Keys |-> 0]
MCAllowLate == [k \in Keys |-> k = <<"item", 1>>]
=============================================================================
