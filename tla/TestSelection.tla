--------------------------- MODULE TestSelection ---------------------------
(***************************************************************************)
(* flattenItems: the items of a test in the order they are delivered,      *)
(* after selection and shuffling.                                          *)
(*                                                                         *)
(* A child of a section has a name, is required, fixed, and has children   *)
(* of its own if it is a section.  A section has its children in source    *)
(* order, how many are selected (or Unselected), and whether they are      *)
(* shuffled.  Each operator yields the set of outcomes over the draws of   *)
(* the random generator.                                                   *)
(***************************************************************************)
EXTENDS Integers, Sequences, FiniteSets, SequencesExt, FiniteSetsExt

Unselected == -1

\* shuffleArray, with the draws of its random generator: draws[i] is the place
\* the element at i changes with.
Swapped(s, i, j) == [s EXCEPT ![i] = s[j], ![j] = s[i]]

ShuffleArray(s, draws) ==
    FoldLeft(LAMBDA out, i : Swapped(out, i, draws[i]), s, Reverse([i \in DOMAIN s |-> i]))

Draws(n) == {d \in [1 .. n -> 1 .. n] : \A i \in 1 .. n : d[i] <= i}

\* The places of the children that are selected, for each draw; none if the
\* section cannot be delivered.
SelectedPlaces(section) ==
    LET places == DOMAIN section.children
        count == section.select
        required == {k \in places : section.children[k].required}
        optional == SetToSortSeq(places \ required, <)
    IN  IF count = Unselected THEN {places}
        ELSE IF count < Cardinality(required) \/ count > Cardinality(places) THEN {}
        ELSE {required \cup {ShuffleArray(optional, draws)[k] : k \in 1 .. count - Cardinality(required)} :
                 draws \in Draws(Len(optional))}

InSourceOrder(section, places) ==
    LET order == SetToSortSeq(places, <) IN [k \in DOMAIN order |-> section.children[order[k]]]

\* shuffleSectionComponents: the children that are not fixed change places.
ShuffledSectionComponents(components) ==
    LET movable == SetToSortSeq({k \in DOMAIN components : ~components[k].fixed}, <)
        Outcome(draws) ==
            LET shuffled == ShuffleArray(movable, draws)
            IN  [k \in DOMAIN components |->
                    IF components[k].fixed THEN components[k]
                    ELSE components[shuffled[CHOOSE j \in DOMAIN movable : movable[j] = k]]]
    IN  {Outcome(draws) : draws \in Draws(Len(movable))}

\* The children of a section as they are delivered.
SectionComponents(section) ==
    UNION {LET components == InSourceOrder(section, places)
           IN  IF section.shuffle THEN ShuffledSectionComponents(components) ELSE {components} :
              places \in SelectedPlaces(section)}

\* visitSection: the items of a section and of the sections in it.
RECURSIVE VisitSection(_)
VisitSection(section) ==
    LET Delivered(child) ==
            IF child.section = <<>> THEN {<<child.name>>}
            ELSE VisitSection(child.section[1])
        Joined(components) ==
            FoldLeft(LAMBDA outs, child : {out \o items : out \in outs, items \in Delivered(child)},
                     {<<>>}, components)
    IN  UNION {Joined(components) : components \in SectionComponents(section)}
=============================================================================
