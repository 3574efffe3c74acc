--------------------------- MODULE SelectionLaws ---------------------------
(***************************************************************************)
(* What the selection and the shuffling of a test's items promise, over    *)
(* small sections.  TLC evaluates each law before it explores a state.     *)
(***************************************************************************)
EXTENDS TestSelection

\* Every order comes out, and each of one sequence of draws only: with fair
\* draws the orders are equally likely.
ASSUME ShuffleIsFair ==
    \A n \in 0 .. 5 :
        LET sorted == [k \in 1 .. n |-> k]
            orders == {ShuffleArray(sorted, draws) : draws \in Draws(n)}
        IN  /\ Cardinality(orders) = Cardinality(Draws(n))
            /\ \A order \in orders : ToSet(order) = 1 .. n

LawChild(name, required, fixed) ==
    [name |-> name, required |-> required, fixed |-> fixed, section |-> <<>>]

LawSections ==
    {[children |-> [k \in 1 .. 4 |-> LawChild(k, k \in required, k \in fixed)],
      select |-> select, shuffle |-> shuffle] :
        required, fixed \in SUBSET (1 .. 4), select \in Unselected .. 5, shuffle \in BOOLEAN}

Names(components) == [k \in DOMAIN components |-> components[k].name]

\* A section is delivered with as many children as it selects, the required
\* ones among them, no child twice, in source order unless it is shuffled; it
\* cannot be delivered only if the required ones are too many, or all too few.
ASSUME SelectionKeepsRequired ==
    \A section \in LawSections :
        LET required == {k \in 1 .. 4 : section.children[k].required}
            count == IF section.select = Unselected THEN 4 ELSE section.select
        IN  /\ (SectionComponents(section) = {}) = (count < Cardinality(required) \/ count > 4)
            /\ \A components \in SectionComponents(section) :
                   LET names == Names(components)
                   IN  /\ Len(names) = count /\ Cardinality(ToSet(names)) = count
                       /\ required \subseteq ToSet(names)
                       /\ section.shuffle \/ \A j, k \in 1 .. count : j < k => names[j] < names[k]

\* A fixed child stays where it is among the selected ones, and each of the
\* others can come to each of the places of the others.
ASSUME FixedStay ==
    \A section \in {s \in LawSections : s.shuffle} :
        LET all == SectionComponents(section)
            Before(n, components) == {c \in ToSet(components) : c.name < n}
        IN  /\ \A components \in all : \A k \in DOMAIN components :
                   components[k].fixed =>
                       Cardinality(Before(components[k].name, components)) = k - 1
            /\ section.select = Unselected => \A j, k \in 1 .. 4 :
                   ~section.children[j].fixed /\ ~section.children[k].fixed =>
                       \E components \in all : components[k].name = j

\* The items of a section within a section stay together, however the
\* sections are shuffled, and no item is delivered twice.
ASSUME SectionsStayTogether ==
    LET inner == [children |-> <<LawChild(11, FALSE, FALSE), LawChild(12, FALSE, FALSE),
                                 LawChild(13, TRUE, FALSE)>>, select |-> 2, shuffle |-> TRUE]
        nested == [LawChild(10, FALSE, FALSE) EXCEPT !.section = <<inner>>]
        outer == [children |-> <<LawChild(1, FALSE, TRUE), nested, LawChild(2, FALSE, FALSE)>>,
                  select |-> Unselected, shuffle |-> TRUE]
    IN  \A items \in VisitSection(outer) :
            /\ Len(items) = 4 /\ Cardinality(ToSet(items)) = 4 /\ items[1] = 1
            /\ 13 \in ToSet(items)
            /\ \E k \in 2 .. 3 : items[k] > 10 /\ items[k + 1] > 10
=============================================================================
