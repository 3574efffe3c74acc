--------------------------- MODULE MCTimeManager ---------------------------
(***************************************************************************)
(* Three items, the first two in one section and testPart.  The test and   *)
(* the first section have hard limits, the first item one that allows late *)
(* submission, the last item a hard one; the first item has a minimum.  No *)
(* warnings are given: no clock depends on them, and to remember which     *)
(* have been given makes nine times as many states.                        *)
(***************************************************************************)
EXTENDS TimeManager

MCSectionOf == <<1, 1, 2>>
MCPartOf == <<1, 1, 2>>

MCMaxTime ==
    [k \in Keys |-> CASE k = <<"assessment", 0>> -> 3
                      [] k = <<"section", 1>>    -> 2
                      [] k = <<"item", 1>>       -> 1
                      [] k = <<"item", 3>>       -> 1
                      [] OTHER                   -> 0]

MCMinTime == [k \in Keys |-> IF k = <<"item", 1>> THEN 1 ELSE 0]
\* A submission of the first item reports two seconds.
MCSubmitted == {<<1, 2>>}

MCAllowLate == [k \in Keys |-> k = <<"item", 1>>]
=============================================================================
