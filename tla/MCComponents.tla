---------------------------- MODULE MCComponents ----------------------------
(***************************************************************************)
(* The components that keep state of their own and do not call each other, *)
(* explored one at a time: part names the one that runs, and the others    *)
(* stay as they begin.                                                     *)
(***************************************************************************)
EXTENDS PciSession, StatePersistence, IFrameHandshake, InMemoryOrchestrator, AssessmentElement,
        ResourceResolver, QtiProcessing, QtiEvaluation, QtiLaws, ProcessedItems, PackageLaws,
        SelectionLaws, PairResponses

VARIABLE part

\* A label of one use, one of two and one without limit; two groups.
PairMatchMax == [label \in {"l1", "l2", "l3"} |->
                    CASE label = "l1" -> 1 [] label = "l2" -> 2 [] OTHER -> 0]
PairGroups == [x \in {"l1", "l2", "l3", "g1", "g2", "g3"} |->
                    CASE x \in {"l1", "g1"} -> {"A"}
                      [] x = "l2" -> {"B"}
                      [] x = "g3" -> {"A", "B"}
                      [] OTHER -> {}]

\* A text of one word of its own, and one that begins with a label's.
PairBeginnings == [text \in {"t1", "t2"} |-> IF text = "t2" THEN {"l2"} ELSE {}]

Parts_ == {"pci", "save", "frame", "workflows", "element", "resources", "processing", "pairs"}

partVars ==
    <<part, pciVars, saveVars, frameVars, orcVars, elementVars, resolverVars, qtiVars,
      pairVars>>

\* The components other than the one that runs do nothing.
Idle(others) ==
    /\ "pci" \in others => UNCHANGED pciVars
    /\ "save" \in others => UNCHANGED saveVars
    /\ "frame" \in others => UNCHANGED frameVars
    /\ "workflows" \in others => UNCHANGED orcVars
    /\ "element" \in others => UNCHANGED elementVars
    /\ "resources" \in others => UNCHANGED resolverVars
    /\ "processing" \in others => UNCHANGED qtiVars
    /\ "pairs" \in others => UNCHANGED pairVars

Init ==
    /\ part \in Parts_
    /\ PciInit /\ SaveInit /\ FrameInit /\ OrcInit /\ ElementInit /\ ResolverInit /\ QtiInit
    /\ PairInit
    /\ part # "pci" => item = 1
    /\ part # "save" => backed
    /\ part # "processing" => defined = 3
    /\ part # "pairs" => kind = "match"

Next ==
    /\ UNCHANGED part
    /\ Idle(Parts_ \ {part})
    /\ \/ part = "pci" /\ PciNext
       \/ part = "save" /\ SaveNext
       \/ part = "frame" /\ FrameNext
       \/ part = "workflows" /\ OrcNext
       \/ part = "element" /\ ElementNext
       \/ part = "resources" /\ ResolverNext
       \/ part = "processing" /\ QtiNext
       \/ part = "pairs" /\ PairNext

Spec ==
    /\ Init
    /\ [][Next]_partVars
    /\ PciFairness
    /\ OrcFairness
    /\ QtiFairness

\* The component that runs is well typed.
TypesOK ==
    CASE part = "pci" -> PciTypeOK
      [] part = "save" -> SaveTypeOK
      [] part = "frame" -> FrameTypeOK
      [] part = "workflows" -> OrcTypeOK
      [] part = "element" -> ElementTypeOK
      [] part = "resources" -> ResolverTypeOK
      [] part = "processing" -> QtiTypeOK
      [] part = "pairs" -> PairTypeOK
=============================================================================
