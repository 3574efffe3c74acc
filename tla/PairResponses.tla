--------------------------- MODULE PairResponses ---------------------------
(***************************************************************************)
(* The answers a candidate makes by putting labels into gaps, by dragging  *)
(* or with the keys: gapMatch (words into blanks), graphicGapMatch (labels *)
(* onto hotspots) and match (sources to targets).                          *)
(*                                                                         *)
(* The array of pairs is a set here: no component adds a pair twice.  A    *)
(* drag is one step, since the keys are dead while one lasts; a label      *)
(* picked up with the keys stays in hand until it is put down.  Rendering, *)
(* announcements and the disabled component, which does nothing, are left  *)
(* out.                                                                    *)
(*                                                                         *)
(* The blanks of gapMatch take any text that is dropped on them, of the    *)
(* page or of another application, as if it were a word.  A pair is a text *)
(* in the code, "word gap", and the pairs of a word are those that begin   *)
(* with it and a space: those of a text with that first word are among     *)
(* them.  A text that begins with a space is left out.                     *)
(***************************************************************************)
EXTENDS Integers, FiniteSets

CONSTANTS
    Kinds,             \* of the interactions explored
    Labels,            \* words, labels or sources
    Gaps,              \* blanks, hotspots or targets
    Foreign,           \* texts that are no label, dragged from elsewhere
    Beginnings,        \* the labels and texts a foreign text begins with
    MatchMax,          \* how often a label may be used, 0 without limit
    MatchGroup,        \* the match groups of each label and each gap
    MaxAssociations,   \* of a match interaction, 0 without limit
    NoLabel            \* no label is picked up

Texts == Labels \cup Foreign

ASSUME PairAssumption ==
    /\ Kinds \subseteq {"gapMatch", "graphicGapMatch", "match"}
    /\ IsFiniteSet(Gaps)
    /\ Texts \cap Gaps = {}
    /\ Labels \cap Foreign = {}
    /\ Beginnings \in [Foreign -> SUBSET Texts]
    /\ MatchMax \in [Labels -> Nat]
    /\ NoLabel \notin Labels

VARIABLES
    kind,
    pairs,
    pickedUp,     \* pickedUpWord, pickedUpLabel or keyboardSelectedSourceId
    follows       \* the response given from outside is still taken over

pairVars == <<kind, pairs, pickedUp, follows>>

\* Pairs are made of labels and gaps, but that a blank may hold a foreign text.
PairTypeOK ==
    /\ kind \in Kinds
    /\ pairs \subseteq (IF kind = "gapMatch" THEN Texts ELSE Labels) \X Gaps
    /\ pickedUp \in Labels \cup {NoLabel}
    /\ follows \in BOOLEAN

PairInit == kind \in Kinds /\ pairs = {} /\ pickedUp = NoLabel /\ follows = TRUE

\* A pair of this text begins with the label: startsWith(`${label} `).
BeginsWith(text, label) == text = label \/ (text \in Foreign /\ label \in Beginnings[text])

AtGap(ps, gap) == {p \in ps : p[2] = gap}
OfLabel(ps, label) == {p \in ps : BeginsWith(p[1], label)}
GapsOf(ps, label) == {g \in Gaps : AtGap(OfLabel(ps, label), g) # {}}
Uses(ps, label) == Cardinality(GapsOf(ps, label))
GroupOf(text) == UNION {MatchGroup[label] : label \in {l \in Labels : BeginsWith(text, l)}}

\* getMatchMax, which knows no limit of a foreign text.
MaxOf(text) == IF text \in Labels THEN MatchMax[text] ELSE 1

\* isWordUsed, and a matched hotspot of a label.
Used(label) ==
    CASE kind = "gapMatch"        -> MatchMax[label] > 0 /\ Uses(pairs, label) >= MatchMax[label]
      [] kind = "graphicGapMatch" -> OfLabel(pairs, label) # {}
      [] OTHER                    -> Uses(pairs, label) >= MatchMax[label]

\* unavailableWords and unavailableLabels.
Unavailable(label) ==
    /\ OfLabel(pairs, label) = {}
    /\ \E p \in pairs : GroupOf(p[1]) \cap MatchGroup[label] # {}

\* isCompatibleMatchGroup.
Compatible(label, gap) ==
    \/ MatchGroup[label] = {} \/ MatchGroup[gap] = {}
    \/ MatchGroup[label] \cap MatchGroup[gap] # {}

\* Variant: a word at its limit stays in its other blanks.
GapChangedAdded(text, gap) == (pairs \ AtGap(pairs, gap)) \cup {<<text, gap>>}

\* handleGapChange with a word: the blank loses its word, and a word at its
\* limit loses all its other blanks.
GapChanged(text, gap) ==
    LET rest == pairs \ AtGap(pairs, gap)
        full == MaxOf(text) = 1 \/ (MaxOf(text) > 0 /\ Uses(rest, text) >= MaxOf(text))
    IN  (IF full THEN rest \ OfLabel(rest, text) ELSE rest) \cup {<<text, gap>>}

\* handleHotspotDrop and placePickedUpLabelOnHotspot.
HotspotChanged(label, gap) ==
    (pairs \ (OfLabel(pairs, label) \cup AtGap(pairs, gap))) \cup {<<label, gap>>}

\* createOrUpdatePair.
CreateOrUpdatePair(label, gap) == (pairs \ AtGap(pairs, gap)) \cup {<<label, gap>>}

Placed(label, gap) ==
    IF kind = "gapMatch" THEN GapChanged(label, gap)
    ELSE IF kind = "graphicGapMatch" THEN HotspotChanged(label, gap)
    ELSE CreateOrUpdatePair(label, gap)

\* What handleDrop and handleTargetKeyDown ask before they match.
MayMatch(label, gap) ==
    kind = "match" =>
        /\ Compatible(label, gap)
        /\ \/ OfLabel(pairs, label) # {}
           \/ MaxAssociations = 0 \/ Cardinality(pairs) < MaxAssociations

\* The effect of graphicGapMatch that takes over the response skips the change
\* the candidate made, does not read the response in that run, and is therefore
\* not run for later ones: Svelte runs an effect for what it read last.
Changes(ps) ==
    /\ pairs' = ps
    /\ follows' = (follows /\ kind # "graphicGapMatch")

\* A label is dragged to a gap.  The groups keep no source from being dragged.
\* A blank takes whatever is dropped on it, for any word of the interaction or
\* none, be it used up or unavailable.
Drop(text, gap) ==
    /\ kind # "gapMatch" => text \in Labels /\ ~Used(text)
    /\ kind = "graphicGapMatch" => ~Unavailable(text)
    /\ MayMatch(text, gap)
    /\ Changes(Placed(text, gap))
    /\ UNCHANGED <<kind, pickedUp>>

\* A label is picked up with the keys, or put back where it was.  Unlike the
\* mouse the keys take an unavailable label too, and any source of a match.
PickUp(label) ==
    /\ kind # "match" => ~Used(label)
    /\ pickedUp' = IF pickedUp = label THEN NoLabel ELSE label
    /\ UNCHANGED <<kind, pairs, follows>>

Escape == pickedUp # NoLabel /\ pickedUp' = NoLabel /\ UNCHANGED <<kind, pairs, follows>>

\* What is in hand is put into a gap; it may be used up by a drag meanwhile.
PutDown(gap) ==
    /\ pickedUp # NoLabel
    /\ MayMatch(pickedUp, gap)
    /\ Changes(Placed(pickedUp, gap))
    /\ pickedUp' = NoLabel
    /\ UNCHANGED kind

\* A match that would be one too many: what is in hand is let go.
Refuse(gap) ==
    /\ pickedUp # NoLabel
    /\ kind = "match" /\ Compatible(pickedUp, gap) /\ ~MayMatch(pickedUp, gap)
    /\ pickedUp' = NoLabel
    /\ UNCHANGED <<kind, pairs, follows>>

\* A click on a filled blank with nothing in hand.
ClearGap(gap) ==
    /\ kind = "gapMatch" /\ pickedUp = NoLabel
    /\ AtGap(pairs, gap) # {}
    /\ Changes(pairs \ AtGap(pairs, gap))
    /\ UNCHANGED <<kind, pickedUp>>

\* clearWord, whose button is there for a used word only, and clearMatch.
ClearLabel(label) ==
    /\ IF kind = "match" THEN OfLabel(pairs, label) # {} ELSE Used(label)
    /\ Changes(pairs \ OfLabel(pairs, label))
    /\ UNCHANGED <<kind, pickedUp>>

\* The response is taken back from outside, by a template or a new attempt.  A
\* graphicGapMatch in which a label has been placed keeps showing its pairs.
ResetPairs ==
    /\ follows
    /\ pairs' = {}
    /\ UNCHANGED <<kind, pickedUp, follows>>

PairNext ==
    \/ \E text \in Texts, gap \in Gaps : Drop(text, gap)
    \/ \E label \in Labels : PickUp(label) \/ ClearLabel(label)
    \/ \E gap \in Gaps : PutDown(gap) \/ Refuse(gap) \/ ClearGap(gap)
    \/ Escape
    \/ ResetPairs

PairSpec == PairInit /\ [][PairNext]_pairVars

(***************************************************************************)
(* Properties                                                              *)
(***************************************************************************)

\* A gap never holds two labels or texts, however dragging and keys alternate.
OneLabelPerGap ==
    \A gap \in Gaps, a, b \in Texts : <<a, gap>> \in pairs /\ <<b, gap>> \in pairs => a = b

\* The blanks that hold a word, and not a text that begins with it.
Holding(label) == {g \in Gaps : <<label, g>> \in pairs}

\* No word is in more blanks than it may be, also one that was picked up when
\* it was free and put down when it was used up, or that is dropped once more
\* from elsewhere; no label is on two hotspots.
UsesWithinLimits ==
    \A label \in Labels :
        /\ kind = "gapMatch" /\ MatchMax[label] > 0 =>
               Cardinality(Holding(label)) <= MatchMax[label]
        /\ kind = "graphicGapMatch" => \A g, h \in Holding(label) : g = h

\* A source is matched only with a target that shares one of its groups, or
\* has none, or with any if it has none itself.
MatchesCompatible ==
    kind = "match" => \A p \in pairs : Compatible(p[1], p[2])
=============================================================================
