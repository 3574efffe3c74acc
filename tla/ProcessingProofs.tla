-------------------------- MODULE ProcessingProofs --------------------------
(***************************************************************************)
(* Theorems of QtiProcessing, for every item, every number of processing   *)
(* runs and every evaluation of expressions that meets the hypotheses a    *)
(* theorem names.                                                          *)
(*                                                                         *)
(* Located, Shaped and TodoCovered say where a program is, what its state  *)
(* looks like and what the statements it has still to do are made of; the  *)
(* others rest on them.  PassedOrDefaults is what a template program has   *)
(* achieved at each of its statements.  That two runs come to the same     *)
(* outcomes is shown by seeing a program that draws nothing as a function  *)
(* from configurations to configurations, StepOf: a processing run is an   *)
(* iteration of it from a start that the inputs determine, ScoringsRun,    *)
(* and two such iterations that end, end alike.                            *)
(*                                                                         *)
(* The last section proves for all numbers what QtiLaws checks on small    *)
(* ones.                                                                   *)
(***************************************************************************)
EXTENDS QtiProcessing, FiniteSetTheorems, SequenceTheorems, WellFoundedInduction, TLAPS

-----------------------------------------------------------------------------
(* Lemmas about numbers and sequences                                      *)

\* A set of natural numbers has a least one: the intervals up to its members
\* are finite sets, and these are well founded.
LEMMA LeastNumber ==
    ASSUME NEW T, T \subseteq Nat, T # {}
    PROVE  \E x \in T : \A y \in T : x <= y
<1> DEFINE F == FiniteSubsetsOf(Nat)
           R == StrictSubsetOrdering(Nat)
           Z == {0 .. n : n \in T}
<1>1. IsWellFoundedOn(R, F)
  BY FS_StrictSubsetOrderingWellFounded
<1>2. Z \subseteq F
  <2>1. ASSUME NEW n \in T PROVE (0 .. n) \in F
    <3>1. n \in Nat
      OBVIOUS
    <3>2. IsFiniteSet(0 .. n)
      BY <3>1, FS_Interval
    <3>3. QED
      BY <3>1, <3>2 DEF FiniteSubsetsOf
  <2>2. QED
    BY <2>1
<1>3. Z # {}
  OBVIOUS
<1> HIDE DEF F, R, Z
<1>4. PICK z \in Z : \A y \in Z : ~(<<y, z>> \in R)
  BY <1>1, <1>2, <1>3, WFMin
<1>5. PICK x \in T : z = 0 .. x
  BY DEF Z
<1>6. ASSUME NEW y \in T, y < x PROVE FALSE
  <2>1. (0 .. y) \in Z
    BY DEF Z
  <2>2. 0 .. y \subseteq 0 .. x /\ 0 .. y # 0 .. x
    BY <1>6
  <2>3. QED
    BY <1>2, <1>4, <1>5, <2>1, <2>2 DEF R, F, StrictSubsetOrdering, FiniteSubsetsOf
<1>7. QED
  BY <1>6

\* A sequence, of whatever it holds.
IsSequence(s) == \E S : s \in Seq(S)

LEMMA AppendIs ==
    ASSUME NEW s, IsSequence(s), NEW e
    PROVE  /\ IsSequence(Append(s, e))
           /\ Len(s) \in Nat /\ Len(Append(s, e)) = Len(s) + 1
           /\ \A k \in 1 .. Len(s) : Append(s, e)[k] = s[k]
           /\ Append(s, e)[Len(s) + 1] = e
<1>1. PICK S : s \in Seq(S)
  BY DEF IsSequence
<1>2. s \in Seq(S \cup {e})
  BY <1>1, SeqMonotonic
<1>3. e \in S \cup {e}
  OBVIOUS
<1>. HIDE <1>1
<1>. QED
  BY <1>2, <1>3 DEF IsSequence

LEMMA ExceptIs ==
    ASSUME NEW s, IsSequence(s), NEW n \in 1 .. Len(s), NEW e
    PROVE  /\ IsSequence([s EXCEPT ![n] = e])
           /\ Len([s EXCEPT ![n] = e]) = Len(s)
           /\ \A k \in 1 .. Len(s) : [s EXCEPT ![n] = e][k] = IF k = n THEN e ELSE s[k]
<1>1. PICK S : s \in Seq(S)
  BY DEF IsSequence
<1>2. s \in Seq(S \cup {e})
  BY <1>1, SeqMonotonic
<1>. QED
  BY <1>2, ExceptSeq DEF IsSequence

-----------------------------------------------------------------------------
(* The program counter                                                     *)

\* Where a program is: between processing runs at its beginning, and inside a
\* statement only if that is a condition, which stands for others.
Located ==
    /\ defined \in DOMAIN ItemDefs
    /\ program \in ProgramNames \cup {"none"}
    /\ program = "none" => at = 1 /\ todo = <<>>
    /\ program # "none" => at \in 1 .. Len(Statements(program)) + 1
    /\ todo # <<>> => Running /\ Statements(program)[at].does = "condition"

LEMMA StatementsAreSequences ==
    ASSUME defined \in DOMAIN ItemDefs, NEW name \in ProgramNames
    PROVE  /\ Len(Statements(name)) \in Nat
           /\ DOMAIN Statements(name) = 1 .. Len(Statements(name))
  BY ProcessingAssumption DEF Statements, Definition

\* A statement that is done or replaced leaves the program where it is or at the
\* next statement.
LEMMA ProceedLocated ==
    ASSUME Located, Running, NEW rest, Proceed(rest),
           rest # <<>> => Statements(program)[at].does = "condition"
    PROVE  Located'
<1>1. program \in ProgramNames /\ at \in 1 .. Len(Statements(program))
  BY StatementsAreSequences DEF Located, Running
<1>2. Len(Statements(program)) \in Nat
  BY <1>1, StatementsAreSequences DEF Located
<1>3. /\ defined' = defined /\ program' = program
      /\ Statements(program)' = Statements(program)
      /\ todo' = rest /\ at' = IF rest = <<>> THEN at + 1 ELSE at
  BY DEF Proceed, Statements, Definition
<1>. QED
  BY <1>1, <1>2, <1>3 DEF Located, Running, ProgramNames

\* What is left of a condition is left only inside a condition.
LEMMA RestOfCondition ==
    ASSUME Located, Running
    PROVE  Rest # <<>> => Statements(program)[at].does = "condition"
  BY DEF Located, Rest

LEMMA EndLocated ==
    ASSUME Located, EndProgram
    PROVE  Located'
<1>1. defined' \in DOMAIN ItemDefs /\ program' \in ProgramNames \cup {"none"}
  BY DEF Located, EndProgram, ProgramNames
<1>2. program' # "none" => Len(Statements(program)') \in Nat
  BY <1>1, ProcessingAssumption DEF Statements, Definition
<1>. QED
  BY <1>1, <1>2 DEF Located, EndProgram

LEMMA LocatedPreserved ==
    ASSUME Located, [QtiNext]_qtiVars
    PROVE  Located'
<1>1. CASE SetValue \/ SetCorrectResponse \/ SetDefaultValue \/ LookupOutcomeValue \/ ConstraintHolds
  <2>1. Running /\ Proceed(Rest)
    BY <1>1 DEF SetValue, SetCorrectResponse, SetDefaultValue, LookupOutcomeValue, ConstraintHolds
  <2>. QED
    BY <2>1, RestOfCondition, ProceedLocated
<1>2. CASE Condition
  <2>1. Running /\ Statements(program)[at].does = "condition" /\ \E rest : Proceed(rest)
    BY <1>2 DEF Condition, Statement, Located
  <2>. QED
    BY <2>1, ProceedLocated
<1>3. CASE ConstraintFails
  <2>1. /\ defined' = defined /\ program' = program /\ todo' = <<>>
        /\ at' \in {1, at + 1} /\ Running
    BY <1>3 DEF ConstraintFails
  <2>2. program \in ProgramNames
    BY <2>1 DEF Located, Running
  <2>3. Len(Statements(program)) \in Nat /\ Statements(program)' = Statements(program)
    BY <2>1, <2>2, StatementsAreSequences DEF Located, Statements, Definition
  <2>. QED
    BY <2>1, <2>2, <2>3 DEF Located, Running
<1>4. CASE Exit \/ End
  BY <1>4, EndLocated DEF Exit, End
<1>5. ASSUME NEW id, NEW v, Respond(id, v)
      PROVE  Located'
  BY <1>5 DEF Respond, Located
<1>6. CASE RunResponseProcessing
  <2>1. /\ program' \in ProgramNames /\ at' = 1 /\ todo' = <<>>
        /\ defined' \in DOMAIN ItemDefs
    BY <1>6 DEF RunResponseProcessing, Located, ProgramNames
  <2>2. Len(Statements(program)') \in Nat
    BY <2>1, ProcessingAssumption DEF Statements, Definition
  <2>. QED
    BY <2>1, <2>2 DEF Located, ProgramNames
<1>7. ASSUME NEW resetResponses \in BOOLEAN, RunNewTemplate(resetResponses)
      PROVE  Located'
  <2>1. /\ program' = "template" /\ at' = 1 /\ todo' = <<>>
        /\ defined' \in DOMAIN ItemDefs
    BY <1>7 DEF RunNewTemplate, Located
  <2>2. Len(Statements(program)') \in Nat
    BY <2>1, ProcessingAssumption DEF Statements, Definition, ProgramNames
  <2>. QED
    BY <2>1, <2>2 DEF Located, ProgramNames
<1>8. CASE UNCHANGED qtiVars
  BY <1>8 DEF qtiVars, Located, Running, Statements, Definition
<1>. QED
  BY <1>1, <1>2, <1>3, <1>4, <1>5, <1>6, <1>7, <1>8 DEF QtiNext, Execute

LEMMA InitLocated == QtiInit => Located
<1>. SUFFICES ASSUME QtiInit PROVE Located
  OBVIOUS
<1>1. /\ defined \in DOMAIN ItemDefs /\ program \in {"none", "template"}
      /\ at = 1 /\ todo = <<>>
  BY DEF QtiInit
<1>2. Len(Statements("template")) \in Nat
  BY <1>1, StatementsAreSequences DEF ProgramNames
<1>. QED
  BY <1>1, <1>2 DEF Located, ProgramNames

LEMMA LocatedCorrect == QtiSpec => []Located
  BY InitLocated, LocatedPreserved, PTL DEF QtiSpec

-----------------------------------------------------------------------------
(* The shape of the state                                                  *)

Scoring == program \in {"response", "outcome"}

\* The processing runs are counted, every variable has a value, and constraints
\* are counted from none whenever a program begins.
Shaped ==
    /\ IsSequence(scorings) /\ Len(scorings) <= MaxScorings
    /\ Scoring => scorings # <<>>
    /\ DOMAIN values = Variables
    /\ DOMAIN attempts = Constraints(Definition)
    /\ program = "none" => attempts = [c \in Constraints(Definition) |-> 0]

LEMMA DefinitionStays == [QtiNext]_qtiVars => Definition' = Definition
  BY DEF QtiNext, Execute, qtiVars, SetValue, SetCorrectResponse, SetDefaultValue,
         LookupOutcomeValue, Condition, ConstraintHolds, ConstraintFails, Exit, End, EndProgram,
         Proceed, Respond, RunResponseProcessing, RunNewTemplate, Definition

LEMMA ScoringsCounted ==
    ASSUME Shaped
    PROVE  Len(scorings) \in Nat /\ (scorings # <<>> => Len(scorings) \in 1 .. Len(scorings))
<1>1. PICK S : scorings \in Seq(S)
  BY DEF Shaped, IsSequence
<1>2. Len(scorings) \in Nat /\ (scorings # <<>> => Len(scorings) \in Nat \ {0})
  BY <1>1, EmptySeq, LenProperties
<1>. QED
  BY <1>2

\* How a step changes the processing runs: a run begins, ends, or goes on.
LEMMA ScoringsStep ==
    ASSUME Shaped, [QtiNext]_qtiVars
    PROVE  \/ scorings' = scorings /\ (Scoring <=> Scoring')
           \/ /\ RunResponseProcessing /\ ~Scoring /\ Scoring'
              /\ IsSequence(scorings') /\ Len(scorings') = Len(scorings) + 1
              /\ \A k \in 1 .. Len(scorings) : scorings'[k] = scorings[k]
              /\ scorings'[Len(scorings) + 1] = Inputs
           \/ /\ EndProgram /\ Execute /\ program = "outcome" /\ program' = "none"
              /\ IsSequence(scorings') /\ Len(scorings') = Len(scorings)
              /\ \A k \in 1 .. Len(scorings) :
                    scorings'[k] = IF k = Len(scorings)
                                   THEN [scorings[k] EXCEPT !.set = [id \in OfKind("outcome") |-> values[id]]]
                                   ELSE scorings[k]
<1>. DEFINE n == Len(scorings)
            finished == [scorings[n] EXCEPT !.set = [id \in OfKind("outcome") |-> values[id]]]
            after == [scorings EXCEPT ![n] = finished]
<1>1. CASE RunResponseProcessing
  <2>1. /\ program = "none" /\ program' \in {"response", "outcome"}
        /\ scorings' = Append(scorings, Inputs)
    BY <1>1 DEF RunResponseProcessing
  <2>. QED
    BY <1>1, <2>1, AppendIs DEF Shaped, Scoring
<1>2. CASE EndProgram /\ Execute /\ program = "outcome"
  <2>1. scorings' = after /\ program' = "none"
    BY <1>2 DEF EndProgram
  <2>2. n \in 1 .. Len(scorings) /\ IsSequence(scorings)
    BY <1>2, ScoringsCounted DEF Shaped, Scoring
  <2>3. /\ IsSequence(after) /\ Len(after) = n
        /\ \A k \in 1 .. n : after[k] = IF k = n THEN finished ELSE scorings[k]
    <3>. HIDE DEF finished
    <3>. QED
      BY <2>2, ExceptIs
  <2>. QED
    BY <1>2, <2>1, <2>3
<1>3. CASE EndProgram /\ program # "outcome"
  BY <1>3 DEF EndProgram, Scoring
<1>4. CASE scorings' = scorings /\ (program' = program \/ (~Scoring /\ ~Scoring'))
  BY <1>4 DEF Scoring
<1>5. \/ RunResponseProcessing
      \/ EndProgram /\ Execute
      \/ scorings' = scorings /\ (program' = program \/ (~Scoring /\ ~Scoring'))
  BY DEF QtiNext, Execute, qtiVars, SetValue, SetCorrectResponse, SetDefaultValue,
         LookupOutcomeValue, Condition, ConstraintHolds, ConstraintFails, Exit, End, Proceed,
         Respond, RunNewTemplate, Scoring
<1>. QED
  BY <1>1, <1>2, <1>3, <1>4, <1>5

LEMMA ShapedPreserved ==
    ASSUME Located, Shaped, [QtiNext]_qtiVars
    PROVE  Shaped'
<1>1. Definition' = Definition
  BY DefinitionStays
<1>2. DOMAIN values' = Variables
  BY <1>1 DEF Shaped, QtiNext, Execute, qtiVars, SetValue, SetCorrectResponse, SetDefaultValue,
         LookupOutcomeValue, Condition, ConstraintHolds, ConstraintFails, Exit, End, EndProgram,
         Respond, RunResponseProcessing, RunNewTemplate, Stored, Defaulted, Begun, Variables
<1>3. /\ DOMAIN attempts' = Constraints(Definition)
      /\ program' = "none" => attempts' = [c \in Constraints(Definition) |-> 0]
  <2>1. CASE EndProgram
    BY <1>1, <2>1 DEF EndProgram, Shaped
  <2>2. CASE ConstraintFails
    BY <1>1, <2>2 DEF ConstraintFails, Running, Shaped
  <2>3. CASE attempts' = attempts /\ (program' = program \/ program' # "none")
    BY <1>1, <2>3 DEF Shaped
  <2>4. EndProgram \/ ConstraintFails \/ (attempts' = attempts /\ (program' = program \/ program' # "none"))
    BY DEF QtiNext, Execute, qtiVars, SetValue, SetCorrectResponse, SetDefaultValue,
           LookupOutcomeValue, Condition, ConstraintHolds, Exit, End, Proceed, Respond,
           RunResponseProcessing, RunNewTemplate
  <2>. QED
    BY <2>1, <2>2, <2>3, <2>4
<1>4. IsSequence(scorings') /\ Len(scorings') <= MaxScorings /\ (Scoring' => scorings' # <<>>)
  <2>1. CASE scorings' = scorings /\ (Scoring <=> Scoring')
    BY <2>1 DEF Shaped
  <2>2. CASE RunResponseProcessing /\ IsSequence(scorings') /\ Len(scorings') = Len(scorings) + 1
    <3>1. Len(scorings) < MaxScorings /\ MaxScorings \in Nat /\ Len(scorings) \in Nat
      BY <2>2, ScoringsCounted, ProcessingAssumption DEF RunResponseProcessing
    <3>2. scorings' # <<>>
      BY <2>2, <3>1, EmptySeq
    <3>. QED
      BY <2>2, <3>1, <3>2
  <2>3. CASE IsSequence(scorings') /\ Len(scorings') = Len(scorings) /\ program' = "none"
    BY <2>3 DEF Shaped, Scoring
  <2>. QED
    BY <2>1, <2>2, <2>3, ScoringsStep
<1>. QED
  BY <1>1, <1>2, <1>3, <1>4 DEF Shaped, Variables

LEMMA InitShaped == QtiInit => Shaped
<1>. SUFFICES ASSUME QtiInit PROVE Shaped
  OBVIOUS
<1>1. IsSequence(scorings) /\ Len(scorings) = 0 /\ MaxScorings \in Nat
  BY EmptySeq, ProcessingAssumption DEF QtiInit, IsSequence
<1>. QED
  BY <1>1 DEF QtiInit, Shaped, Scoring

LEMMA ShapedCorrect == QtiSpec => []Shaped
  BY InitShaped, ShapedPreserved, LocatedCorrect, PTL DEF QtiSpec

-----------------------------------------------------------------------------
(* What template constraints leave behind                                  *)

\* The environment of a configuration c, and the records among environments.
EnvIn(def, c) ==
    [values |-> c.values, correct |-> c.correct, draw |-> 0,
     defaults |-> [id \in DOMAIN def.decls |-> def.decls[id].default],
     base |-> [id \in DOMAIN def.decls |-> def.decls[id].base],
     mapping |-> def.mapping, areas |-> def.areas]

IsRecord(env) == env = [field \in DOMAIN env |-> env[field]]

LEMMA EnvIsRecord ==
    /\ IsRecord(Env(0))
    /\ \A def, c : IsRecord(EnvIn(def, c))
<1>1. \A a, b, c, d, e, f, g :
          IsRecord([values |-> a, correct |-> b, draw |-> c, defaults |-> d, base |-> e,
                    mapping |-> f, areas |-> g])
  BY DEF IsRecord
<1>. QED
  BY <1>1 DEF Env, EnvIn

\* An expression without the operator correct: no correct response changes it.
ReadsNoCorrect(e) ==
    \A env, changed :
        IsRecord(env) => Evaluate([env EXCEPT !.correct = changed], e) = Evaluate(env, e)

\* A template constraint is about the variables.  One about a correct response
\* may be refused by a later setCorrectResponse, which no code looks at again.
ConstraintsReadNoCorrect ==
    \A k \in DOMAIN ItemDefs :
        LET statements == ItemDefs[k].programs["template"]
        IN  \A j \in DOMAIN statements :
                statements[j].does = "constraint" => ReadsNoCorrect(statements[j].expr)

Final(k) ==
    /\ Statements("template")[k].does = "constraint"
    /\ \A j \in k + 1 .. Len(Statements("template")) :
          Statements("template")[j].does \in {"constraint", "correct"}

Met(k) == Holds(Evaluate(Env(0), Statements("template")[k].expr))

AllDefaults == \A id \in OfKind("template") : values[id] = Definition.decls[id].default

\* The final constraints that have been passed hold, or one of them was given up.
PassedOrDefaults ==
    program = "template" =>
        \/ \A k \in 1 .. at - 1 : Final(k) => Met(k)
        \/ AllDefaults

\* Behind a statement that is no constraint and no setCorrectResponse no
\* constraint that was passed is final.
LEMMA NoneFinal ==
    ASSUME Located, Running, program = "template",
           Statements("template")[at].does \notin {"constraint", "correct"}
    PROVE  \A k \in 1 .. at : ~Final(k)
<1>1. at \in 1 .. Len(Statements("template")) /\ Len(Statements("template")) \in Nat
  BY StatementsAreSequences DEF Located, Running, ProgramNames
<1>. SUFFICES ASSUME NEW k \in 1 .. at, Final(k) PROVE FALSE
  OBVIOUS
<1>2. CASE k = at
  BY <1>2 DEF Final
<1>3. CASE k # at
  <2>1. at \in k + 1 .. Len(Statements("template"))
    BY <1>1, <1>3
  <2>. QED
    BY <2>1 DEF Final
<1>. QED
  BY <1>2, <1>3

\* A record is the same but for the field that is replaced.
LEMMA FieldReplaced ==
    ASSUME NEW a, NEW b, NEW c, NEW d, NEW e, NEW f, NEW g, NEW h
    PROVE  [[values |-> a, correct |-> b, draw |-> c, defaults |-> d, base |-> e, mapping |-> f,
             areas |-> g] EXCEPT !.correct = h]
           = [values |-> a, correct |-> h, draw |-> c, defaults |-> d, base |-> e, mapping |-> f,
              areas |-> g]
  OBVIOUS

LEMMA CorrectReplaced ==
    ASSUME defined' = defined, values' = values
    PROVE  Env(0)' = [Env(0) EXCEPT !.correct = correct']
<1>. DEFINE defaults == [id \in Variables |-> Definition.decls[id].default]
            base == [id \in Variables |-> Definition.decls[id].base]
<1>1. Definition' = Definition
  BY DEF Definition
<1>2. defaults' = defaults /\ base' = base
  BY <1>1 DEF Variables
<1>3. Env(0) = [values |-> values, correct |-> correct, draw |-> 0, defaults |-> defaults,
                base |-> base, mapping |-> Definition.mapping, areas |-> Definition.areas]
  BY DEF Env
<1>4. Env(0)' = [values |-> values, correct |-> correct', draw |-> 0, defaults |-> defaults,
                 base |-> base, mapping |-> Definition.mapping, areas |-> Definition.areas]
  BY <1>1, <1>2 DEF Env
<1>. HIDE DEF defaults, base
<1>. QED
  BY <1>3, <1>4, FieldReplaced

LEMMA PassedPreserved ==
    ASSUME ConstraintsReadNoCorrect, Located, PassedOrDefaults, [QtiNext]_qtiVars
    PROVE  PassedOrDefaults'
<1>. SUFFICES ASSUME program' = "template"
              PROVE  \/ \A k \in 1 .. at' - 1 : Final(k)' => Met(k)'
                     \/ AllDefaults'
  BY DEF PassedOrDefaults
<1>0. /\ "template" \in ProgramNames
      /\ defined' = defined
      /\ Statements("template")' = Statements("template")
  BY DEF ProgramNames, QtiNext, Execute, qtiVars, SetValue, SetCorrectResponse, SetDefaultValue,
         LookupOutcomeValue, Condition, ConstraintHolds, ConstraintFails, Exit, End, EndProgram,
         Proceed, Respond, RunResponseProcessing, RunNewTemplate, Statements, Definition
<1>a. \A k : Final(k)' <=> Final(k)
  BY <1>0 DEF Final
<1>. DEFINE does == Statements("template")[at].does
\* A statement inside a condition, or one that is neither: nothing is final.
<1>1. ASSUME Running, program = "template", does \notin {"constraint", "correct"},
             at' \in {at, at + 1}
      PROVE  \A k \in 1 .. at' - 1 : ~Final(k)'
  <2>1. at \in Nat
    BY <1>1 DEF Located
  <2>2. \A k \in 1 .. at : ~Final(k)
    BY <1>1, NoneFinal
  <2>3. \A k \in 1 .. at' - 1 : k \in 1 .. at
    <3>1. at' = at \/ at' = at + 1
      BY <1>1
    <3>. QED
      BY <2>1, <3>1
  <2>. QED
    BY <2>2, <2>3, <1>a
<1>2. ASSUME Running, program = "template", Proceed(Rest), todo = <<>>
      PROVE  at' = at + 1 /\ Statement = Statements("template")[at] /\ at \in Nat
  BY <1>2 DEF Proceed, Rest, Statement, Located
<1>3. ASSUME Running, program = "template", todo # <<>>
      PROVE  does = "condition"
  BY <1>3 DEF Located
<1>4. CASE SetValue \/ SetDefaultValue \/ LookupOutcomeValue \/ Condition
  <2>1. /\ Running /\ program = "template" /\ at' \in {at, at + 1}
        /\ Statement.does \notin {"constraint", "correct"}
    BY <1>4 DEF SetValue, SetDefaultValue, LookupOutcomeValue, Condition, Proceed
  <2>2. does \notin {"constraint", "correct"}
    BY <2>1, <1>3 DEF Statement
  <2>. QED
    BY <2>1, <2>2, <1>1
<1>5. CASE SetCorrectResponse \/ ConstraintHolds
  <2>1. Running /\ program = "template" /\ Proceed(Rest) /\ values' = values
    BY <1>5 DEF SetCorrectResponse, ConstraintHolds, Proceed
  <2>2. CASE todo # <<>>
    BY <2>1, <2>2, <1>1, <1>3 DEF Proceed
  <2>3. CASE todo = <<>> /\ AllDefaults
    BY <2>1, <2>3, <1>0 DEF AllDefaults, OfKind, Variables, Definition
  <2>4. CASE todo = <<>> /\ ~AllDefaults
    <3>1. at' = at + 1 /\ Statement = Statements("template")[at] /\ at \in Nat
      BY <2>1, <2>4, <1>2
    <3>2. ASSUME NEW k \in 1 .. at' - 1, Final(k)
          PROVE  Met(k)
      <4>1. CASE k \in 1 .. at - 1
        BY <4>1, <3>2, <2>1, <2>4 DEF PassedOrDefaults
      <4>2. CASE k = at
        BY <4>2, <3>1, <3>2, <1>5 DEF Final, Met, SetCorrectResponse, ConstraintHolds
      <4>. QED
        BY <3>1, <4>1, <4>2
    <3>3. ASSUME NEW k \in 1 .. at' - 1, Final(k)
          PROVE  Met(k)'
      <4>1. Env(0)' = [Env(0) EXCEPT !.correct = correct']
        BY <2>1, <1>0, CorrectReplaced
      <4>2. k \in DOMAIN Statements("template")
        BY <3>1, <2>1, <1>0, StatementsAreSequences DEF Located, Running
      <4>3. ReadsNoCorrect(Statements("template")[k].expr)
        BY <3>3, <4>2 DEF ConstraintsReadNoCorrect, Final, Statements, Definition, Located
      <4>4. Evaluate(Env(0)', Statements("template")[k].expr)
              = Evaluate(Env(0), Statements("template")[k].expr)
        BY <4>1, <4>3, EnvIsRecord DEF ReadsNoCorrect
      <4>. QED
        BY <3>2, <3>3, <4>4, <1>0 DEF Met
    <3>. QED
      BY <3>3, <1>a
  <2>. QED
    BY <2>2, <2>3, <2>4
<1>6. CASE ConstraintFails
  <2>1. AllDefaults'
    BY <1>6, <1>0 DEF ConstraintFails, AllDefaults, Defaulted, OfKind, Variables, Definition
  <2>. QED
    BY <2>1
<1>7. CASE Exit \/ End
  BY <1>7 DEF Exit, End, EndProgram
<1>8. ASSUME NEW id, NEW v, Respond(id, v)
      PROVE  FALSE
  BY <1>8 DEF Respond
<1>9. CASE RunResponseProcessing
  BY <1>9 DEF RunResponseProcessing
<1>10. ASSUME NEW resetResponses \in BOOLEAN, RunNewTemplate(resetResponses)
       PROVE  at' = 1
  BY <1>10 DEF RunNewTemplate, Located
<1>11. CASE UNCHANGED qtiVars
  BY <1>11 DEF qtiVars, PassedOrDefaults, Met, Final, AllDefaults, Env, OfKind, Variables,
               Statements, Definition
<1>. QED
  BY <1>4, <1>5, <1>6, <1>7, <1>8, <1>9, <1>10, <1>11 DEF QtiNext, Execute

\* When a template program has run, its final constraints hold or all template
\* variables have their defaults: for every item whose constraints read no
\* correct response, and every evaluation of expressions.
THEOREM ConstraintsHoldOrDefaultsCorrect ==
    ASSUME ConstraintsReadNoCorrect
    PROVE  QtiSpec => []ConstraintsHoldOrDefaults
<1>1. QtiInit => PassedOrDefaults
  BY DEF QtiInit, PassedOrDefaults
<1>2. Located /\ PassedOrDefaults /\ [QtiNext]_qtiVars => PassedOrDefaults'
  BY PassedPreserved
<1>3. Located /\ PassedOrDefaults => ConstraintsHoldOrDefaults
  <2>. SUFFICES ASSUME Located, PassedOrDefaults, program = "template",
                       at > Len(Statements("template"))
                PROVE  \/ \A k \in DOMAIN Statements("template") : Final(k) => Met(k)
                       \/ AllDefaults
    BY DEF ConstraintsHoldOrDefaults, Final, Met, AllDefaults
  <2>1. DOMAIN Statements("template") \subseteq 1 .. at - 1
    BY StatementsAreSequences DEF Located, ProgramNames
  <2>. QED
    BY <2>1 DEF PassedOrDefaults
<1>. QED
  BY <1>1, <1>2, <1>3, LocatedCorrect, PTL DEF QtiSpec

-----------------------------------------------------------------------------
(* Programs as functions                                                   *)

\* A set of statements that a program is made of: it holds the program's own
\* and those in the branches of its conditions.
Covers(S, statements) ==
    /\ \A k \in DOMAIN statements : statements[k] \in S
    /\ \A s \in S : s.does = "condition" =>
          /\ s.otherwise \in Seq(S)
          /\ DOMAIN s.branches \subseteq Nat
          /\ \A b \in DOMAIN s.branches : s.branches[b].statements \in Seq(S)

\* What is left of a statement is made of statements of its program.
TodoCovered ==
    \A S : program # "none" /\ Covers(S, Statements(program)) => todo \in Seq(S)

LEMMA StatementCovered ==
    ASSUME Located, Running, TodoCovered, NEW S, Covers(S, Statements(program))
    PROVE  Statement \in S /\ Rest \in Seq(S)
<1>1. todo \in Seq(S) /\ program \in ProgramNames
  BY DEF TodoCovered, Running, Located
<1>2. at \in DOMAIN Statements(program)
  BY <1>1, StatementsAreSequences DEF Located, Running
<1>3. CASE todo = <<>>
  BY <1>2, <1>3, EmptySeq DEF Statement, Rest, Covers
<1>4. CASE todo # <<>>
  BY <1>1, <1>4, HeadTailProperties DEF Statement, Rest
<1>. QED
  BY <1>3, <1>4

\* The branch that is taken is one of the branches.
LEMMA FirstBranch ==
    ASSUME NEW T, T \subseteq Nat, T # {}
    PROVE  Min(T) \in T
  BY LeastNumber DEF Min

\* The statements that a condition is replaced by.
Taken ==
    LET holding == {b \in DOMAIN Statement.branches :
                       Holds(Evaluate(Env(0), Statement.branches[b].when))}
    IN  IF holding = {} THEN Statement.otherwise ELSE Statement.branches[Min(holding)].statements

LEMMA TakenCovered ==
    ASSUME NEW S, Statement \in S, Statement.does = "condition",
           NEW statements, Covers(S, statements)
    PROVE  Taken \in Seq(S)
<1>. DEFINE holding == {b \in DOMAIN Statement.branches :
                           Holds(Evaluate(Env(0), Statement.branches[b].when))}
<1>1. /\ Statement.otherwise \in Seq(S)
      /\ DOMAIN Statement.branches \subseteq Nat
      /\ \A b \in DOMAIN Statement.branches : Statement.branches[b].statements \in Seq(S)
  BY DEF Covers
<1>2. holding \subseteq DOMAIN Statement.branches
  OBVIOUS
<1>3. CASE holding # {}
  <2>. HIDE DEF holding
  <2>1. Min(holding) \in DOMAIN Statement.branches
    BY <1>1, <1>2, <1>3, FirstBranch
  <2>. QED
    BY <1>1, <1>3, <2>1 DEF Taken, holding
<1>. QED
  BY <1>1, <1>3 DEF Taken

LEMMA TodoCoveredPreserved ==
    ASSUME Located, TodoCovered, [QtiNext]_qtiVars
    PROVE  TodoCovered'
<1>. SUFFICES ASSUME NEW S, program' # "none", Covers(S, Statements(program)')
              PROVE  todo' \in Seq(S)
  BY DEF TodoCovered, Covers
<1>1. ASSUME Running, Proceed(Rest) PROVE todo' \in Seq(S)
  <2>1. Covers(S, Statements(program))
    BY <1>1 DEF Proceed, Statements, Definition
  <2>. QED
    BY <1>1, <2>1, StatementCovered DEF Proceed
<1>2. CASE SetValue \/ SetCorrectResponse \/ SetDefaultValue \/ LookupOutcomeValue \/ ConstraintHolds
  BY <1>1, <1>2 DEF SetValue, SetCorrectResponse, SetDefaultValue, LookupOutcomeValue, ConstraintHolds
<1>3. CASE Condition
  <2>1. Running /\ Statement.does = "condition" /\ Proceed(Taken \o Rest)
    BY <1>3 DEF Condition, Taken
  <2>2. Covers(S, Statements(program))
    BY <2>1 DEF Proceed, Statements, Definition
  <2>3. Taken \in Seq(S) /\ Rest \in Seq(S)
    BY <2>1, <2>2, StatementCovered, TakenCovered
  <2>. QED
    BY <2>1, <2>3, ConcatProperties DEF Proceed
<1>4. CASE ConstraintFails \/ Exit \/ End
  <2>1. todo' = <<>>
    BY <1>4 DEF ConstraintFails, Exit, End, EndProgram
  <2>. QED
    BY <2>1, EmptySeq
<1>5. ASSUME NEW id, NEW v, Respond(id, v) PROVE FALSE
  BY <1>5 DEF Respond
<1>6. ASSUME RunResponseProcessing \/ \E resetResponses \in BOOLEAN : RunNewTemplate(resetResponses)
      PROVE  todo' \in Seq(S)
  <2>1. todo' = <<>>
    BY <1>6 DEF RunResponseProcessing, RunNewTemplate, Located
  <2>. QED
    BY <2>1, EmptySeq
<1>7. CASE UNCHANGED qtiVars
  BY <1>7 DEF qtiVars, TodoCovered, Statements, Definition
<1>. QED
  BY <1>2, <1>3, <1>4, <1>5, <1>6, <1>7 DEF QtiNext, Execute

LEMMA InitCovered == QtiInit => TodoCovered
  BY EmptySeq DEF QtiInit, TodoCovered

LEMMA TodoCoveredCorrect == QtiSpec => []TodoCovered
  BY InitCovered, TodoCoveredPreserved, LocatedCorrect, PTL DEF QtiSpec

-----------------------------------------------------------------------------
(* The same score again                                                    *)

\* All that a program goes by.
Config ==
    [values |-> values, correct |-> correct, program |-> program, at |-> at, todo |-> todo,
     attempts |-> attempts]

\* What a program goes on with after a statement.
Continued(c, vals, corr, rest) ==
    [values |-> vals, correct |-> corr, program |-> c.program,
     at |-> IF rest = <<>> THEN c.at + 1 ELSE c.at, todo |-> rest, attempts |-> c.attempts]

Ended(c) ==
    [values |-> c.values, correct |-> c.correct,
     program |-> IF c.program = "response" THEN "outcome" ELSE "none",
     at |-> 1, todo |-> <<>>, attempts |-> [a \in DOMAIN c.attempts |-> 0]]

DefaultsOf(def, vals, kind) ==
    [id \in DOMAIN def.decls |->
        IF def.decls[id].kind = kind THEN def.decls[id].default ELSE vals[id]]

Refused(def, c, s) ==
    LET attempted == [c.attempts EXCEPT ![s.id] = @ + 1]
    IN  [values |-> DefaultsOf(def, c.values, "template"), correct |-> c.correct,
         program |-> c.program,
         at |-> IF attempted[s.id] >= MaxIterations THEN c.at + 1 ELSE 1,
         todo |-> <<>>, attempts |-> attempted]

\* What a statement makes of a configuration, if it draws nothing: a function.
Effect(def, c, s, rest) ==
    LET Amount == Evaluate(EnvIn(def, c), s.expr)
        Put(v) == [c.values EXCEPT ![s.id] = Conform(def.decls[s.id].base, v)]
        holding == {b \in DOMAIN s.branches : Holds(Evaluate(EnvIn(def, c), s.branches[b].when))}
    IN  CASE s.does = "set"      -> Continued(c, Put(Amount), c.correct, rest)
          [] s.does = "correct"  -> Continued(c, c.values, [c.correct EXCEPT ![s.id] = Amount], rest)
          [] s.does = "default"  ->
                Continued(c, [id \in DOMAIN def.decls |->
                                 IF id \in {s.id} THEN def.decls[id].default ELSE c.values[id]],
                          c.correct, rest)
          [] s.does = "lookup"   ->
                Continued(c, Put(IF s.id \in DOMAIN def.tables THEN LookUp(Amount, def.tables[s.id])
                                 ELSE InvalidValue),
                          c.correct, rest)
          [] s.does = "condition" ->
                Continued(c, c.values, c.correct,
                          (IF holding = {} THEN s.otherwise
                           ELSE s.branches[Min(holding)].statements) \o rest)
          [] s.does = "constraint" ->
                IF Holds(Amount) THEN Continued(c, c.values, c.correct, rest) ELSE Refused(def, c, s)
          [] s.does = "exit"     -> Ended(c)

StepOf(def, c) ==
    IF c.at > Len(def.programs[c.program]) THEN Ended(c)
    ELSE IF c.todo = <<>> THEN Effect(def, c, def.programs[c.program][c.at], <<>>)
    ELSE Effect(def, c, Head(c.todo), Tail(c.todo))

\* An expression without random operators: no draw changes it.
DrawsNothing(e) ==
    \A env, draw :
        IsRecord(env) => Evaluate([env EXCEPT !.draw = draw], e) = Evaluate(env, e)

LEMMA DrawReplaced ==
    ASSUME NEW draw
    PROVE  Env(draw) = [EnvIn(Definition, Config) EXCEPT !.draw = draw]
<1>. DEFINE defaults == [id \in Variables |-> Definition.decls[id].default]
            base == [id \in Variables |-> Definition.decls[id].base]
<1>1. Env(draw) = [values |-> values, correct |-> correct, draw |-> draw, defaults |-> defaults,
                   base |-> base, mapping |-> Definition.mapping, areas |-> Definition.areas]
  BY DEF Env
<1>2. EnvIn(Definition, Config) =
          [values |-> values, correct |-> correct, draw |-> 0, defaults |-> defaults,
           base |-> base, mapping |-> Definition.mapping, areas |-> Definition.areas]
  BY DEF EnvIn, Config, Variables
<1>. HIDE DEF defaults, base
<1>. QED
  BY <1>1, <1>2

LEMMA EnvIs == Env(0) = EnvIn(Definition, Config)
  BY DEF Env, EnvIn, Config, Variables

\* The statement of a program that runs makes of the configuration what
\* StepOf says.
LEMMA StepIs ==
    ASSUME Located, Execute, Running => (Statement.does = "set" => DrawsNothing(Statement.expr))
    PROVE  /\ program # "none" /\ defined' = defined
           /\ Config' = StepOf(Definition, Config)
<1>0. /\ Config.values = values /\ Config.correct = correct /\ Config.program = program /\ Config.at = at
      /\ Config.todo = todo /\ Config.attempts = attempts
      /\ Definition.programs[program] = Statements(program)
      /\ DOMAIN Definition.decls = Variables
  BY DEF Config, Statements, Variables
<1>1. CASE Running
  <2>1. program \in ProgramNames /\ at \in Nat /\ Len(Statements(program)) \in Nat
    BY <1>1, StatementsAreSequences DEF Running, Located
  <2>2. StepOf(Definition, Config) = Effect(Definition, Config, Statement, Rest)
    <3>. QED
      BY <1>0, <1>1, <2>1 DEF StepOf, Running, Statement, Rest
  <2>3. ASSUME NEW vals, NEW corr, NEW rest, Proceed(rest), values' = vals, correct' = corr
        PROVE  Config' = Continued(Config, vals, corr, rest) /\ defined' = defined
    BY <1>0, <2>3 DEF Config, Continued, Proceed
  <2>4. CASE SetValue
    <3>1. PICK draw \in 0 .. Parts - 1 :
              values' = Stored(Statement.id, Evaluate(Env(draw), Statement.expr))
      BY <2>4 DEF SetValue
    <3>2. Evaluate(Env(draw), Statement.expr) = Evaluate(EnvIn(Definition, Config), Statement.expr)
      BY <1>1, <2>4, DrawReplaced, EnvIsRecord DEF DrawsNothing, SetValue
    <3>3. Statement.does = "set" /\ Proceed(Rest) /\ correct' = correct
      BY <2>4 DEF SetValue
    <3>. QED
      BY <1>0, <1>1, <2>2, <2>3, <3>1, <3>2, <3>3 DEF Effect, Stored, Running
  <2>5. CASE SetCorrectResponse
    <3>1. /\ Statement.does = "correct" /\ Proceed(Rest) /\ values' = values
          /\ correct' = [correct EXCEPT ![Statement.id] = Evaluate(EnvIn(Definition, Config), Statement.expr)]
      BY <2>5, EnvIs DEF SetCorrectResponse
    <3>. QED
      BY <1>0, <1>1, <2>2, <2>3, <3>1 DEF Effect, Running
  <2>6. CASE SetDefaultValue
    <3>1. /\ Statement.does = "default" /\ Proceed(Rest) /\ correct' = correct
          /\ values' = Defaulted({Statement.id})
      BY <2>6 DEF SetDefaultValue
    <3>. QED
      BY <1>0, <1>1, <2>2, <2>3, <3>1 DEF Effect, Running, Defaulted
  <2>7. CASE LookupOutcomeValue
    <3>1. /\ Statement.does = "lookup" /\ Proceed(Rest) /\ correct' = correct
          /\ values' = Stored(Statement.id, IF Statement.id \in DOMAIN Definition.tables
                                    THEN LookUp(Evaluate(EnvIn(Definition, Config), Statement.expr),
                                                Definition.tables[Statement.id])
                                    ELSE InvalidValue)
      BY <2>7, EnvIs DEF LookupOutcomeValue
    <3>. QED
      BY <1>0, <1>1, <2>2, <2>3, <3>1 DEF Effect, Running, Stored
  <2>8. CASE Condition
    <3>. DEFINE holding == {b \in DOMAIN Statement.branches :
                               Holds(Evaluate(EnvIn(Definition, Config), Statement.branches[b].when))}
                rest == (IF holding = {} THEN Statement.otherwise
                         ELSE Statement.branches[Min(holding)].statements) \o Rest
    <3>1. Statement.does = "condition" /\ Proceed(rest) /\ values' = values /\ correct' = correct
      BY <2>8, EnvIs DEF Condition
    <3>2. Effect(Definition, Config, Statement, Rest) = Continued(Config, Config.values, Config.correct, rest)
      BY <3>1 DEF Effect
    <3>. HIDE DEF rest
    <3>. QED
      BY <1>0, <1>1, <2>2, <2>3, <3>1, <3>2 DEF Running
  <2>9. CASE ConstraintHolds
    <3>1. /\ Statement.does = "constraint" /\ Proceed(Rest) /\ values' = values /\ correct' = correct
          /\ Holds(Evaluate(EnvIn(Definition, Config), Statement.expr))
      BY <2>9, EnvIs DEF ConstraintHolds
    <3>. QED
      BY <1>0, <1>1, <2>2, <2>3, <3>1 DEF Effect, Running
  <2>10. CASE ConstraintFails
    <3>1. /\ Statement.does = "constraint" /\ ~Holds(Evaluate(EnvIn(Definition, Config), Statement.expr))
          /\ values' = Defaulted(OfKind("template"))
          /\ attempts' = [attempts EXCEPT ![Statement.id] = @ + 1]
          /\ at' = IF attempts'[Statement.id] >= MaxIterations THEN at + 1 ELSE 1
          /\ todo' = <<>> /\ correct' = correct /\ program' = program /\ defined' = defined
      BY <2>10, EnvIs DEF ConstraintFails
    <3>2. Defaulted(OfKind("template")) = DefaultsOf(Definition, values, "template")
      BY DEF Defaulted, DefaultsOf, OfKind, Variables
    <3>3. Config' = Refused(Definition, Config, Statement)
      BY <1>0, <3>1, <3>2 DEF Config, Refused
    <3>. QED
      BY <1>0, <1>1, <2>2, <3>1, <3>3 DEF Effect, Running
  <2>11. CASE Exit
    <3>1. Statement.does = "exit" /\ Config' = Ended(Config) /\ defined' = defined
      BY <1>0, <2>11 DEF Exit, EndProgram, Config, Ended
    <3>. QED
      BY <1>0, <1>1, <2>2, <3>1 DEF Effect, Running
  <2>12. ~End
    BY <1>1, <2>1 DEF Running, End
  <2>. QED
    BY <2>4, <2>5, <2>6, <2>7, <2>8, <2>9, <2>10, <2>11, <2>12 DEF Execute
<1>2. CASE ~Running
  <2>1. End
    BY <1>2 DEF Execute, SetValue, SetCorrectResponse, SetDefaultValue, LookupOutcomeValue,
                Condition, ConstraintHolds, ConstraintFails, Exit
  <2>2. Config' = Ended(Config) /\ defined' = defined
    BY <1>0, <2>1 DEF End, EndProgram, Config, Ended
  <2>. QED
    BY <1>0, <2>1, <2>2 DEF End, StepOf
<1>. QED
  BY <1>1, <1>2

\* g leads from one configuration to another in n steps of a program.
Run(def, n, g, from, to) ==
    /\ g[0] = from /\ g[n] = to
    /\ \A i \in 0 .. n - 1 : g[i].program # "none" /\ g[i + 1] = StepOf(def, g[i])

Reaches(def, from, to) == \E n \in Nat : \E g : Run(def, n, g, from, to)

LEMMA ReachesItself ==
    ASSUME NEW def, NEW c
    PROVE  Reaches(def, c, c)
<1>1. Run(def, 0, [i \in {0} |-> c], c, c)
  BY DEF Run
<1>. QED
  BY <1>1 DEF Reaches

LEMMA ReachesFurther ==
    ASSUME NEW def, NEW a, NEW b, Reaches(def, a, b), b.program # "none"
    PROVE  Reaches(def, a, StepOf(def, b))
<1>1. PICK n \in Nat : \E g : Run(def, n, g, a, b)
  BY DEF Reaches
<1>2. PICK g : Run(def, n, g, a, b)
  BY <1>1
<1>. DEFINE h == [i \in 0 .. n + 1 |-> IF i <= n THEN g[i] ELSE StepOf(def, b)]
<1>3. h[0] = a /\ h[n + 1] = StepOf(def, b)
  BY <1>2 DEF Run
<1>4. ASSUME NEW i \in 0 .. (n + 1) - 1
      PROVE  h[i].program # "none" /\ h[i + 1] = StepOf(def, h[i])
  <2>1. h[i] = g[i] /\ i \in Nat
    OBVIOUS
  <2>2. CASE i = n
    BY <1>2, <2>1, <2>2 DEF Run
  <2>3. CASE i # n
    <3>1. i \in 0 .. n - 1 /\ h[i + 1] = g[i + 1]
      BY <2>3
    <3>. QED
      BY <1>2, <2>1, <3>1 DEF Run
  <2>. QED
    BY <2>2, <2>3
<1>5. Run(def, n + 1, h, a, StepOf(def, b))
  BY <1>3, <1>4 DEF Run
<1>. QED
  BY <1>5 DEF Reaches

\* Two runs from one configuration agree as long as both go on, or there would be
\* a first step after which they differ.
LEMMA RunsAgree ==
    ASSUME NEW def, NEW a, NEW m \in Nat, NEW g, NEW b, Run(def, m, g, a, b),
           NEW n \in Nat, NEW h, NEW c, Run(def, n, h, a, c), m <= n
    PROVE  \A i \in 0 .. m : g[i] = h[i]
<1>. DEFINE T == {i \in 0 .. m : g[i] # h[i]}
<1>. SUFFICES ASSUME T # {} PROVE FALSE
  OBVIOUS
<1>1. PICK x \in T : \A y \in T : x <= y
  <2>1. T \subseteq Nat
    OBVIOUS
  <2>. HIDE DEF T
  <2>. QED
    BY <2>1, LeastNumber
<1>2. x # 0
  BY DEF Run
<1>3. x - 1 \in 0 .. m - 1 /\ x - 1 \in 0 .. n - 1 /\ (x - 1) + 1 = x
  BY <1>2
<1>4. g[x - 1] = h[x - 1]
  <2>1. x - 1 \notin T
    BY <1>1, <1>3
  <2>. QED
    BY <1>3, <2>1
<1>5. g[x] = StepOf(def, g[x - 1]) /\ h[x] = StepOf(def, h[x - 1])
  BY <1>3 DEF Run
<1>. QED
  BY <1>4, <1>5

\* There is one end only.
LEMMA OneEnd ==
    ASSUME NEW def, NEW a, NEW b, NEW c, Reaches(def, a, b), Reaches(def, a, c),
           b.program = "none", c.program = "none"
    PROVE  b = c
<1>1. ASSUME NEW m \in Nat, NEW n \in Nat, NEW g, NEW h, NEW b1, NEW c1,
             Run(def, m, g, a, b1), Run(def, n, h, a, c1), m <= n, b1.program = "none"
      PROVE  b1 = c1
  <2>1. g[m] = h[m]
    BY <1>1, RunsAgree
  <2>2. m = n
    <3>. SUFFICES ASSUME m # n PROVE FALSE
      OBVIOUS
    <3>1. m \in 0 .. n - 1
      BY <1>1
    <3>. QED
      BY <1>1, <2>1, <3>1 DEF Run
  <2>. QED
    BY <1>1, <2>1, <2>2 DEF Run
<1>2. PICK m \in Nat : \E g : Run(def, m, g, a, b)
  BY DEF Reaches
<1>3. PICK n \in Nat : \E h : Run(def, n, h, a, c)
  BY DEF Reaches
<1>4. PICK g : Run(def, m, g, a, b)
  BY <1>2
<1>5. PICK h : Run(def, n, h, a, c)
  BY <1>3
<1>6. m <= n \/ n <= m
  OBVIOUS
<1>. QED
  BY <1>1, <1>4, <1>5, <1>6

\* Response and outcome programs set no variable to a random value: each is made
\* of statements that draw nothing.
ScoresWithoutDraws ==
    \A k \in DOMAIN ItemDefs, name \in {"response", "outcome"} :
        \E S : /\ Covers(S, ItemDefs[k].programs[name])
               /\ \A s \in S : s.does = "set" => DrawsNothing(s.expr)

\* Where the programs begin that score what a processing run has read.
StartOf(def, scoring) ==
    [values |-> Begun(def, DefaultsOf(def, scoring.read, "outcome"), scoring.correct),
     correct |-> scoring.correct,
     program |-> IF def.fixed = "none" THEN "response" ELSE "outcome",
     at |-> 1, todo |-> <<>>, attempts |-> [c \in Constraints(def) |-> 0]]

OutcomesOf(def, c) ==
    [id \in {v \in DOMAIN def.decls : def.decls[v].kind = "outcome"} |-> c.values[id]]

Scored(def, scoring) ==
    \E c : /\ Reaches(def, StartOf(def, scoring), c) /\ c.program = "none"
           /\ scoring.set = OutcomesOf(def, c)

\* What each processing run has set is what its programs come to from where it
\* began; the last may still be on its way there.
ScoringsRun ==
    /\ \A k \in 1 .. Len(scorings) : (Scoring /\ k = Len(scorings)) \/ Scored(Definition, scorings[k])
    /\ Scoring => /\ scorings[Len(scorings)].set = <<>>
                  /\ Reaches(Definition, StartOf(Definition, scorings[Len(scorings)]), Config)

\* While it scores a program takes the steps of StepOf.
LEMMA ScoringStep ==
    ASSUME ScoresWithoutDraws, Located, TodoCovered, Execute, Scoring
    PROVE  Config' = StepOf(Definition, Config)
<1>1. PICK S : /\ Covers(S, Statements(program))
               /\ \A s \in S : s.does = "set" => DrawsNothing(s.expr)
  BY DEF ScoresWithoutDraws, Scoring, Located, Statements, Definition
<1>2. ASSUME Running, Statement.does = "set" PROVE DrawsNothing(Statement.expr)
  BY <1>1, <1>2, StatementCovered
<1>. QED
  BY <1>2, StepIs

\* A processing run begins where what it has read says.
LEMMA BeginsAtStart ==
    ASSUME Located, RunResponseProcessing,
           attempts = [c \in Constraints(Definition) |-> 0]
    PROVE  Config' = StartOf(Definition, Inputs)
<1>. DEFINE outcomes == OfKind("outcome")
<1>1. Defaulted(outcomes) = DefaultsOf(Definition, Inputs.read, "outcome")
  BY DEF Defaulted, DefaultsOf, Inputs, OfKind, Variables
<1>2. Inputs.correct = correct
  BY DEF Inputs
<1>3. /\ values' = Begun(Definition, Defaulted(outcomes), correct)
      /\ program' = (IF Definition.fixed = "none" THEN "response" ELSE "outcome")
      /\ correct' = correct /\ at' = 1 /\ todo' = <<>> /\ attempts' = attempts
  BY DEF RunResponseProcessing, Located
<1>. HIDE DEF outcomes
<1>. QED
  BY <1>1, <1>2, <1>3 DEF Config, StartOf

LEMMA ScoringsRunPreserved ==
    ASSUME ScoresWithoutDraws, Located, Shaped, TodoCovered, ScoringsRun, [QtiNext]_qtiVars
    PROVE  ScoringsRun'
<1>. DEFINE n == Len(scorings)
<1>1. Definition' = Definition
  BY DefinitionStays
\* One that scores still does and another does not, or it is at its end.
<1>2. CASE scorings' = scorings /\ ~Scoring /\ ~Scoring'
  BY <1>1, <1>2 DEF ScoringsRun
<1>3. CASE scorings' = scorings /\ Scoring /\ Scoring'
  <2>1. Execute \/ Config' = Config
    BY <1>3 DEF QtiNext, qtiVars, Config, Respond, RunResponseProcessing, RunNewTemplate, Scoring
  <2>2. Config.program # "none"
    BY <1>3 DEF Scoring, Config
  <2>3. Reaches(Definition, StartOf(Definition, scorings[n]), Config')
    BY <1>3, <2>1, <2>2, ScoringStep, ReachesFurther DEF ScoringsRun
  <2>. QED
    BY <1>1, <1>3, <2>3 DEF ScoringsRun
<1>4. ASSUME RunResponseProcessing, ~Scoring, Scoring', Len(scorings') = n + 1,
             \A k \in 1 .. n : scorings'[k] = scorings[k],
             scorings'[n + 1] = Inputs
      PROVE  ScoringsRun'
  <2>1. n \in Nat
    BY ScoringsCounted
  <2>2. Reaches(Definition, StartOf(Definition, Inputs), Config')
    BY <1>4, BeginsAtStart, ReachesItself DEF Shaped, RunResponseProcessing
  <2>3. Inputs.set = <<>>
    BY DEF Inputs
  <2>4. ASSUME NEW k \in 1 .. n PROVE Scored(Definition, scorings'[k])
    BY <1>4, <2>4 DEF ScoringsRun
  <2>. QED
    BY <1>1, <1>4, <2>1, <2>2, <2>3, <2>4 DEF ScoringsRun
<1>5. ASSUME EndProgram, Execute, program = "outcome", program' = "none", Len(scorings') = n,
             \A k \in 1 .. n :
                 scorings'[k] = IF k = n
                                THEN [scorings[k] EXCEPT !.set = [id \in OfKind("outcome") |-> values[id]]]
                                ELSE scorings[k]
      PROVE  ScoringsRun'
  <2>. DEFINE set == [id \in OfKind("outcome") |-> values[id]]
              finished == [scorings[n] EXCEPT !.set = set]
  <2>1. Scoring /\ n \in 1 .. n
    BY <1>5, ScoringsCounted DEF Scoring, Shaped
  <2>2. StartOf(Definition, finished) = StartOf(Definition, scorings[n])
    BY DEF StartOf
  <2>3. Reaches(Definition, StartOf(Definition, scorings[n]), Config')
    <3>1. Config.program # "none"
      BY <1>5 DEF Config
    <3>. QED
      BY <1>5, <2>1, <3>1, ScoringStep, ReachesFurther DEF ScoringsRun
  <2>4. Scored(Definition, finished)
    <3>1. Config'.program = "none" /\ Config'.values = values
      BY <1>5 DEF Config, EndProgram
    <3>2. finished.set = set
      BY <2>1 DEF ScoringsRun
    <3>3. set = OutcomesOf(Definition, Config')
      BY <3>1 DEF OutcomesOf, OfKind, Variables
    <3>. HIDE DEF finished
    <3>. QED
      BY <2>2, <2>3, <3>1, <3>2, <3>3 DEF Scored
  <2>5. ASSUME NEW k \in 1 .. n PROVE Scored(Definition, scorings'[k])
    <3>1. scorings'[k] = IF k = n THEN finished ELSE scorings[k]
      BY <1>5
    <3>. HIDE DEF finished
    <3>. QED
      BY <2>1, <2>4, <3>1, <2>5 DEF ScoringsRun
  <2>. QED
    BY <1>1, <1>5, <2>5 DEF ScoringsRun, Scoring
<1>. QED
  BY <1>2, <1>3, <1>4, <1>5, ScoringsStep

LEMMA InitScoringsRun == QtiInit => ScoringsRun
<1>. SUFFICES ASSUME QtiInit PROVE ScoringsRun
  OBVIOUS
<1>1. Len(scorings) = 0 /\ ~Scoring
  BY EmptySeq DEF QtiInit, Scoring
<1>. QED
  BY <1>1 DEF ScoringsRun

\* To score the same answers to the same version again gives the same outcomes,
\* whatever was scored, answered or drawn in between: for every item whose
\* response and outcome programs draw nothing, and every evaluation.
THEOREM SameScoreAgainCorrect ==
    ASSUME ScoresWithoutDraws
    PROVE  QtiSpec => []SameScoreAgain
<1>1. Located /\ Shaped /\ TodoCovered /\ ScoringsRun /\ [QtiNext]_qtiVars => ScoringsRun'
  BY ScoringsRunPreserved
<1>2. Shaped /\ ScoringsRun => SameScoreAgain
  <2>. SUFFICES ASSUME Shaped, ScoringsRun, NEW j \in Complete, NEW k \in Complete,
                       scorings[j].read = scorings[k].read,
                       scorings[j].correct = scorings[k].correct
                PROVE  scorings[j].set = scorings[k].set
    BY DEF SameScoreAgain
  <2>1. DOMAIN scorings = 1 .. Len(scorings)
    BY DEF Shaped, IsSequence
  <2>2. Scored(Definition, scorings[j]) /\ Scored(Definition, scorings[k])
    BY <2>1 DEF ScoringsRun, Complete
  <2>3. StartOf(Definition, scorings[j]) = StartOf(Definition, scorings[k])
    BY DEF StartOf
  <2>. QED
    BY <2>2, <2>3, OneEnd DEF Scored
<1>. QED
  BY <1>1, <1>2, InitScoringsRun, LocatedCorrect, ShapedCorrect,
     TodoCoveredCorrect, PTL DEF QtiSpec

-----------------------------------------------------------------------------
(* A missing response                                                      *)

\* What evalExpr makes of comparisons and of the response.
EvaluatesComparisons ==
    \A env, e :
        /\ e.op \in Comparisons =>
               Evaluate(env, e) = Compared(e, Evaluate(env, e.a), Evaluate(env, e.b))
        /\ e = [op |-> "variable", id |-> "RESPONSE"] => Evaluate(env, e) = env.values["RESPONSE"]

LEMMA NullIsNoValue ==
    /\ ~IsValue(Null) /\ ~IsValue(InvalidValue)
    /\ \A v : AnyOf(<<Null, v>>, "null") /\ AnyOf(<<v, Null>>, "null")
    /\ ~Holds(Null) /\ ~Holds(InvalidValue) /\ ~Holds(Truth(FALSE))
<1>1. ~IsValue(Null) /\ ~IsValue(InvalidValue)
  BY DEF IsValue, Null, InvalidValue
<1>2. \A v : AnyOf(<<Null, v>>, "null") /\ AnyOf(<<v, Null>>, "null")
  <2>1. ASSUME NEW v PROVE <<Null, v>>[1].kind = "null" /\ <<v, Null>>[2].kind = "null"
    BY DEF Null
  <2>2. ASSUME NEW v PROVE 1 \in DOMAIN <<Null, v>> /\ 2 \in DOMAIN <<v, Null>>
    OBVIOUS
  <2>. QED
    BY <2>1, <2>2 DEF AnyOf
<1>3. ~Holds(Null) /\ ~Holds(InvalidValue)
  BY <1>1 DEF Holds
<1>4. ~Holds(Truth(FALSE))
  BY DEF Holds, Truth, Value, IsValue, IsContainer, DatumNumbers
<1>. QED
  BY <1>1, <1>2, <1>3, <1>4

\* No comparison holds of a missing value: match, member and the orders are
\* false of it, equality and its negation null.
LEMMA MissingComparesFalse ==
    ASSUME NEW e, e.op \in Comparisons, NEW a, NEW b, a = Null \/ b = Null
    PROVE  ~Holds(Compared(e, a, b))
<1>0. ~IsValue(a) \/ ~IsValue(b)
  BY NullIsNoValue
<1>1. ~Holds(Match(a, b))
  BY <1>0, NullIsNoValue DEF Match
<1>2. Equal(a, b) \in {Null, InvalidValue}
  BY NullIsNoValue DEF Equal
<1>3. ~Holds(NotEqual(a, b))
  BY <1>2, NullIsNoValue DEF NotEqual
<1>4. EqualWithin(a, b, e.tolerance) = Equal(a, b)
  BY NullIsNoValue DEF EqualWithin
<1>5. ~Holds(Member(a, b)) /\ ~Holds(Member(b, a))
  <2>1. ASSUME NEW v, NEW w, ~IsValue(v) \/ ~IsValue(w)
        PROVE  Member(v, w) \in {InvalidValue, Truth(FALSE)}
    <3>. DEFINE In == /\ IsValue(v) /\ IsContainer(w)
                      /\ ~IsContainer(v)
                      /\ Key(v.val, w.base) \in Range(Keys(w))
    <3>1. In = FALSE
      BY <2>1 DEF IsContainer
    <3>2. Member(v, w) = IF AnyOf(<<v, w>>, "invalid") THEN InvalidValue ELSE Truth(In)
      BY DEF Member
    <3>. HIDE DEF In
    <3>. QED
      BY <3>1, <3>2
  <2>. QED
    BY <1>0, <2>1, NullIsNoValue
<1>6. \A op : ~Holds(Compare(op, a, b))
  <2>1. Numbers(a) = {} \/ Numbers(b) = {}
    BY <1>0 DEF Numbers
  <2>2. ASSUME NEW op PROVE Compare(op, a, b) = Truth(FALSE)
    <3>. DEFINE Ordered(x, y) == CASE op = "lt" -> x < y [] op = "lte" -> x <= y
                                   [] op = "gt" -> x > y [] op = "gte" -> x >= y
    <3>1. (\E x \in Numbers(a), y \in Numbers(b) : Ordered(x, y)) = FALSE
      BY <2>1
    <3>. HIDE DEF Ordered
    <3>2. Truth(\E x \in Numbers(a), y \in Numbers(b) : Ordered(x, y)) = Truth(FALSE)
      BY <3>1
    <3>. QED
      BY <3>2 DEF Compare, Ordered
  <2>. QED
    BY <2>2, NullIsNoValue
<1>. QED
  BY <1>1, <1>2, <1>3, <1>4, <1>5, <1>6, NullIsNoValue DEF Compared, Comparisons

\* No fixed template but match_nothing scores a missing response.
LEMMA FixedOfMissing ==
    ASSUME NEW def, NEW expected, def.fixed # "match_nothing",
           "SCORE" \in DOMAIN FixedOutcomes(def, Null, expected)
    PROVE  FixedOutcomes(def, Null, expected)["SCORE"] = Number("float", 0)
<1>1. ~Holds(Match(Null, expected))
  BY NullIsNoValue DEF Match
<1>2. CASE def.fixed = "match_correct"
  BY <1>1, <1>2 DEF FixedOutcomes
<1>3. CASE def.fixed = "cc2_match_basic"
  BY <1>1, <1>3 DEF FixedOutcomes
<1>4. CASE def.fixed = "map_response"
  BY <1>4 DEF FixedOutcomes
<1>5. CASE def.fixed = "cc2_map_response"
  BY <1>5 DEF FixedOutcomes
<1>6. CASE def.fixed \notin {"match_correct", "cc2_match_basic", "map_response", "cc2_map_response"}
  BY <1>6 DEF FixedOutcomes
<1>. QED
  BY <1>2, <1>3, <1>4, <1>5, <1>6

\* A score that comes from a comparison with the response, or from a fixed
\* template: it starts from nothing, and what follows in the outcome program
\* only ever sets it back to that.
ScoreStartsFromNothing(def) ==
    /\ {"RESPONSE", "SCORE"} \subseteq DOMAIN def.decls
    /\ def.decls["RESPONSE"].kind = "response" /\ def.decls["SCORE"].kind = "outcome"
    /\ def.fixed # "none" =>
          Conform(def.decls["SCORE"].base, Number("float", 0)) = def.decls["SCORE"].default
    /\ \E S : /\ Covers(S, def.programs["outcome"])
              /\ \A s \in S : s.id = "SCORE" =>
                    /\ s.does # "lookup"
                    /\ s.does = "set" =>
                          \A env : Conform(def.decls["SCORE"].base, Evaluate(env, s.expr))
                                       = def.decls["SCORE"].default

DefaultScore == Definition.decls["SCORE"].default

\* No branch of a response program that is guarded by comparisons is taken for a
\* missing response: the program runs through and sets nothing.
LEMMA NothingTaken ==
    ASSUME EvaluatesComparisons, Located, GuardedScore(Definition), Execute,
           program = "response", todo = <<>>, values["RESPONSE"] = Null
    PROVE  todo' = <<>> /\ values' = values
<1>1. CASE Running
  <2>1. Statement = Statements("response")[at] /\ at \in DOMAIN Statements("response")
    BY <1>1, StatementsAreSequences DEF Running, Statement, Located, ProgramNames
  <2>2. /\ Statement.does = "condition" /\ Statement.otherwise = <<>>
        /\ \A b \in DOMAIN Statement.branches :
              LET when == Statement.branches[b].when
              IN  /\ when.op \in Comparisons
                  /\ [op |-> "variable", id |-> "RESPONSE"] \in {when.a, when.b}
    BY <2>1 DEF GuardedScore, Statements
  <2>3. ASSUME NEW b \in DOMAIN Statement.branches
        PROVE  ~Holds(Evaluate(Env(0), Statement.branches[b].when))
    <3>. DEFINE when == Statement.branches[b].when
    <3>1. /\ when.op \in Comparisons
          /\ [op |-> "variable", id |-> "RESPONSE"] \in {when.a, when.b}
      BY <2>2
    <3>2. Env(0).values["RESPONSE"] = Null
      BY DEF Env
    <3>. HIDE DEF when
    <3>3. Evaluate(Env(0), when.a) = Null \/ Evaluate(Env(0), when.b) = Null
      BY <3>1, <3>2 DEF EvaluatesComparisons
    <3>4. Evaluate(Env(0), when)
              = Compared(when, Evaluate(Env(0), when.a), Evaluate(Env(0), when.b))
      BY <3>1 DEF EvaluatesComparisons
    <3>5. ~Holds(Evaluate(Env(0), when))
      BY <3>1, <3>3, <3>4, MissingComparesFalse
    <3>. QED
      BY <3>5 DEF when
  <2>4. Condition
    BY <1>1, <2>1, <2>2, StatementsAreSequences
       DEF Execute, SetValue, SetCorrectResponse, SetDefaultValue, LookupOutcomeValue,
           ConstraintHolds, ConstraintFails, Exit, End, Running, Located, ProgramNames
  <2>5. Taken = <<>> /\ Rest = <<>>
    BY <2>2, <2>3 DEF Taken, Rest
  <2>6. Proceed(Taken \o Rest) /\ values' = values
    BY <2>4 DEF Condition, Taken
  <2>7. <<>> \o <<>> = <<>>
    BY EmptySeq, ConcatEmptySeq
  <2>. QED
    BY <2>5, <2>6, <2>7 DEF Proceed
<1>2. CASE ~Running
  BY <1>2 DEF Execute, SetValue, SetCorrectResponse, SetDefaultValue, LookupOutcomeValue,
              Condition, ConstraintHolds, ConstraintFails, Exit, End, EndProgram
<1>. QED
  BY <1>1, <1>2

\* The outcome program leaves a score that is the default at that.
LEMMA ScoreLeft ==
    ASSUME Located, Shaped, TodoCovered, Execute, program = "outcome",
           ScoreStartsFromNothing(Definition), values["SCORE"] = DefaultScore
    PROVE  values'["SCORE"] = DefaultScore
<1>. DEFINE base == Definition.decls["SCORE"].base
<1>1. "SCORE" \in Variables /\ "SCORE" \in DOMAIN values
  BY DEF ScoreStartsFromNothing, Shaped, Variables
<1>2. PICK S : /\ Covers(S, Statements("outcome"))
               /\ \A s \in S : s.id = "SCORE" =>
                     /\ s.does # "lookup"
                     /\ s.does = "set" =>
                           \A env : Conform(base, Evaluate(env, s.expr)) = DefaultScore
  BY DEF ScoreStartsFromNothing, Statements, DefaultScore
<1>3. ASSUME Running PROVE Statement \in S
  BY <1>2, <1>3, StatementCovered
<1>4. CASE SetValue
  <2>1. PICK draw \in 0 .. Parts - 1 :
            values' = Stored(Statement.id, Evaluate(Env(draw), Statement.expr))
    BY <1>4 DEF SetValue
  <2>2. Statement \in S /\ Statement.does = "set"
    BY <1>3, <1>4 DEF SetValue
  <2>3. CASE Statement.id = "SCORE"
    <3>1. Conform(base, Evaluate(Env(draw), Statement.expr)) = DefaultScore
      BY <1>2, <2>2, <2>3
    <3>. QED
      BY <1>1, <2>1, <2>3, <3>1 DEF Stored
  <2>4. CASE Statement.id # "SCORE"
    BY <1>1, <2>1, <2>4 DEF Stored
  <2>. QED
    BY <2>3, <2>4
<1>5. CASE LookupOutcomeValue
  <2>1. Statement.id # "SCORE"
    BY <1>2, <1>3, <1>5 DEF LookupOutcomeValue
  <2>. QED
    BY <1>1, <1>5, <2>1 DEF LookupOutcomeValue, Stored
<1>6. ASSUME NEW ids, values' = Defaulted(ids) PROVE values'["SCORE"] = DefaultScore
  BY <1>1, <1>6 DEF Defaulted, DefaultScore
<1>7. CASE SetDefaultValue \/ ConstraintFails
  BY <1>6, <1>7 DEF SetDefaultValue, ConstraintFails
<1>8. CASE SetCorrectResponse \/ Condition \/ ConstraintHolds \/ Exit \/ End
  BY <1>8 DEF SetCorrectResponse, Condition, ConstraintHolds, Exit, End, EndProgram
<1>. QED
  BY <1>4, <1>5, <1>7, <1>8 DEF Execute

\* A processing run of a missing response begins with the default score.
LEMMA MissingBegins ==
    ASSUME RunResponseProcessing, GuardedScore(Definition), ScoreStartsFromNothing(Definition),
           Inputs.read["RESPONSE"] = Null
    PROVE  /\ values'["SCORE"] = DefaultScore
           /\ program' = "response" => values'["RESPONSE"] = Null
<1>. DEFINE reset == Defaulted(OfKind("outcome"))
            fixed == FixedOutcomes(Definition, reset["RESPONSE"], correct["RESPONSE"])
<1>1. /\ "RESPONSE" \in Variables /\ "RESPONSE" \notin OfKind("outcome")
      /\ "SCORE" \in OfKind("outcome")
  BY DEF ScoreStartsFromNothing, OfKind, Variables
<1>2. reset["RESPONSE"] = Null /\ reset["SCORE"] = DefaultScore
  BY <1>1 DEF Inputs, Defaulted, DefaultScore, OfKind
<1>3. values' = Begun(Definition, reset, correct)
      /\ program' = IF Definition.fixed = "none" THEN "response" ELSE "outcome"
  BY DEF RunResponseProcessing
<1>4. CASE Definition.fixed = "none"
  <2>. HIDE DEF reset
  <2>. QED
    BY <1>2, <1>3, <1>4 DEF Begun
<1>5. CASE Definition.fixed # "none"
  <2>1. "SCORE" \in DOMAIN fixed =>
            Conform(Definition.decls["SCORE"].base, fixed["SCORE"]) = DefaultScore
    <3>1. "SCORE" \in DOMAIN fixed => fixed["SCORE"] = Number("float", 0)
      BY <1>2, FixedOfMissing DEF GuardedScore
    <3>. HIDE DEF fixed
    <3>. QED
      BY <1>5, <3>1 DEF ScoreStartsFromNothing, DefaultScore
  <2>2. values' = [id \in Variables |-> IF id \in DOMAIN fixed
                                        THEN Conform(Definition.decls[id].base, fixed[id])
                                        ELSE reset[id]]
    BY <1>3, <1>5 DEF Begun, Variables
  <2>. HIDE DEF reset, fixed
  <2>. QED
    BY <1>1, <1>2, <1>3, <1>5, <2>1, <2>2 DEF OfKind
<1>. QED
  BY <1>4, <1>5

\* A scoring of a missing response sets the default score, also on its way there;
\* the response program is passed through.
MissingUnscored ==
    GuardedScore(Definition) =>
        \A k \in 1 .. Len(scorings) :
            scorings[k].read["RESPONSE"] = Null =>
                IF Scoring /\ k = Len(scorings)
                THEN /\ scorings[k].set = <<>>
                     /\ values["SCORE"] = DefaultScore
                     /\ program = "response" => values["RESPONSE"] = Null /\ todo = <<>>
                ELSE scorings[k].set["SCORE"] = DefaultScore

\* Items whose score, where comparisons guard it, starts from nothing.
GuardedStartFromNothing ==
    \A k \in DOMAIN ItemDefs : GuardedScore(ItemDefs[k]) => ScoreStartsFromNothing(ItemDefs[k])

LEMMA MissingUnscoredPreserved ==
    ASSUME EvaluatesComparisons, GuardedStartFromNothing,
           Located, Shaped, TodoCovered, MissingUnscored, [QtiNext]_qtiVars
    PROVE  MissingUnscored'
<1>. DEFINE n == Len(scorings)
<1>1. Definition' = Definition /\ DefaultScore' = DefaultScore
  BY DefinitionStays DEF DefaultScore
<1>. SUFFICES ASSUME GuardedScore(Definition)
              PROVE  MissingUnscored'
  BY <1>1 DEF MissingUnscored
<1>2. ScoreStartsFromNothing(Definition)
  BY DEF GuardedStartFromNothing, Definition, Located
<1>3. CASE scorings' = scorings /\ ~Scoring /\ ~Scoring'
  BY <1>1, <1>3 DEF MissingUnscored
<1>4. CASE scorings' = scorings /\ Scoring /\ Scoring'
  <2>. SUFFICES ASSUME scorings[n].read["RESPONSE"] = Null
                PROVE  /\ values'["SCORE"] = DefaultScore
                       /\ program' = "response" => values'["RESPONSE"] = Null /\ todo' = <<>>
    BY <1>1, <1>4 DEF MissingUnscored
  <2>1. n \in 1 .. n
    BY <1>4, ScoringsCounted DEF Shaped
  <2>2. /\ values["SCORE"] = DefaultScore
        /\ program = "response" => values["RESPONSE"] = Null /\ todo = <<>>
    BY <1>4, <2>1 DEF MissingUnscored
  <2>3. CASE Execute /\ program = "response"
    BY <2>2, <2>3, NothingTaken
  <2>4. CASE Execute /\ program = "outcome"
    <3>1. program' # "response"
      BY <2>4 DEF Execute, SetValue, SetCorrectResponse, SetDefaultValue, LookupOutcomeValue,
                  Condition, ConstraintHolds, ConstraintFails, Exit, End, EndProgram, Proceed
    <3>. QED
      BY <1>2, <2>2, <2>4, <3>1, ScoreLeft
  <2>5. CASE values' = values /\ program' = program /\ todo' = todo
    BY <2>2, <2>5
  <2>6. Execute \/ (values' = values /\ program' = program /\ todo' = todo)
    BY <1>4 DEF QtiNext, qtiVars, Respond, RunResponseProcessing, RunNewTemplate, Scoring
  <2>. QED
    BY <1>4, <2>3, <2>4, <2>5, <2>6 DEF Scoring
<1>5. ASSUME RunResponseProcessing, ~Scoring, Scoring', Len(scorings') = n + 1,
             \A k \in 1 .. n : scorings'[k] = scorings[k],
             scorings'[n + 1] = Inputs
      PROVE  MissingUnscored'
  <2>1. n \in Nat
    BY ScoringsCounted
  <2>2. ASSUME Inputs.read["RESPONSE"] = Null
        PROVE  /\ Inputs.set = <<>> /\ values'["SCORE"] = DefaultScore
               /\ program' = "response" => values'["RESPONSE"] = Null /\ todo' = <<>>
    BY <1>2, <1>5, <2>2, MissingBegins DEF Inputs, RunResponseProcessing, Located
  <2>3. ASSUME NEW k \in 1 .. n, scorings'[k].read["RESPONSE"] = Null
        PROVE  scorings'[k].set["SCORE"] = DefaultScore
    BY <1>5, <2>3 DEF MissingUnscored
  <2>. QED
    BY <1>1, <1>5, <2>1, <2>2, <2>3 DEF MissingUnscored
<1>6. ASSUME EndProgram, program = "outcome", program' = "none", Len(scorings') = n,
             \A k \in 1 .. n :
                 scorings'[k] = IF k = n
                                THEN [scorings[k] EXCEPT !.set = [id \in OfKind("outcome") |-> values[id]]]
                                ELSE scorings[k]
      PROVE  MissingUnscored'
  <2>. DEFINE set == [id \in OfKind("outcome") |-> values[id]]
  <2>1. "SCORE" \in OfKind("outcome") /\ Scoring /\ ~Scoring'
    BY <1>2, <1>6 DEF ScoreStartsFromNothing, OfKind, Variables, Scoring
  <2>2. ASSUME NEW k \in 1 .. n, scorings'[k].read["RESPONSE"] = Null
        PROVE  scorings'[k].set["SCORE"] = DefaultScore
    <3>1. CASE k # n
      BY <1>6, <2>1, <2>2, <3>1 DEF MissingUnscored
    <3>2. CASE k = n
      <4>1. scorings'[n] = [scorings[n] EXCEPT !.set = set]
        BY <1>6, <3>2
      <4>2. scorings[n].read["RESPONSE"] = Null
        BY <2>2, <3>2, <4>1
      <4>3. scorings[n].set = <<>> /\ values["SCORE"] = DefaultScore
        BY <2>1, <3>2, <4>2 DEF MissingUnscored
      <4>. QED
        BY <2>1, <3>2, <4>1, <4>3
    <3>. QED
      BY <3>1, <3>2
  <2>. QED
    BY <1>1, <1>6, <2>1, <2>2 DEF MissingUnscored
<1>. QED
  BY <1>3, <1>4, <1>5, <1>6, ScoringsStep

\* A missing response never earns what is given for a comparison with it: for
\* every item whose score starts from nothing, and every evaluation that
\* makes of comparisons what evalExpr does.
THEOREM MissingNeverScoresCorrect ==
    ASSUME EvaluatesComparisons, GuardedStartFromNothing
    PROVE  QtiSpec => []MissingNeverScores
<1>1. QtiInit => MissingUnscored
  BY EmptySeq DEF QtiInit, MissingUnscored
<1>2. Located /\ Shaped /\ TodoCovered /\ MissingUnscored /\ [QtiNext]_qtiVars => MissingUnscored'
  BY MissingUnscoredPreserved
<1>3. Shaped /\ MissingUnscored => MissingNeverScores
  <2>. SUFFICES ASSUME Shaped, MissingUnscored, GuardedScore(Definition), NEW k \in Complete,
                       scorings[k].read["RESPONSE"] = Null
                PROVE  scorings[k].set["SCORE"] = Definition.decls["SCORE"].default
    BY DEF MissingNeverScores
  <2>1. k \in 1 .. Len(scorings) /\ scorings[k].set # <<>>
    BY DEF Complete, Shaped, IsSequence
  <2>. QED
    BY <2>1 DEF MissingUnscored, DefaultScore
<1>. QED
  BY <1>1, <1>2, <1>3, LocatedCorrect, ShapedCorrect, TodoCoveredCorrect, PTL DEF QtiSpec
-----------------------------------------------------------------------------
(* Types                                                                   *)

Numeric == {"integer", "float"}

\* A value with all of its parts; one that a variable of a base type may be set
\* to; one that such a variable holds, which conformNumericBaseType has seen.
Proper(v) == Typed(v) /\ (IsValue(v) => DOMAIN v = {"kind", "base", "card", "val"})

Fits(base, v) ==
    Proper(v) /\ (IsValue(v) /\ ~IsContainer(v) /\ base \in Numeric => v.base \in Numeric)

Held(base, v) ==
    /\ Proper(v)
    /\ IsValue(v) /\ ~IsContainer(v) /\ base \in Numeric =>
           v.base = base \/ (base = "integer" /\ v.val[2] % Unit # 0)

LEMMA ConformHeld ==
    ASSUME NEW base, NEW v, Fits(base, v)
    PROVE  Held(base, Conform(base, v))
<1>1. CASE /\ IsValue(v) /\ ~IsContainer(v)
           /\ {v.base, base} = Numeric
           /\ base = "float" \/ v.val[2] % Unit = 0
  <2>. DEFINE conformed == [v EXCEPT !.base = base]
  <2>1. Conform(base, v) = conformed
    BY <1>1 DEF Conform, Numeric
  <2>2. /\ DOMAIN conformed = {"kind", "base", "card", "val"}
        /\ conformed.kind = v.kind /\ conformed.card = v.card /\ conformed.base = base
    BY <1>1 DEF Fits, Proper
  <2>3. v.kind = "value" /\ v.card \in {"single", "multiple", "ordered"}
    BY <1>1, NullIsNoValue DEF Fits, Proper, Typed, IsValue
  <2>. HIDE DEF conformed
  <2>4. Proper(conformed)
    BY <2>2, <2>3 DEF Proper, Typed, IsValue
  <2>. QED
    BY <2>1, <2>2, <2>4 DEF Held
<1>2. CASE ~(/\ IsValue(v) /\ ~IsContainer(v)
             /\ {v.base, base} = Numeric
             /\ base = "float" \/ v.val[2] % Unit = 0)
  <2>1. Conform(base, v) = v
    BY <1>2 DEF Conform, Numeric
  <2>2. ASSUME IsValue(v), ~IsContainer(v), base \in Numeric, v.base # base
        PROVE  {v.base, base} = Numeric
    BY <2>2 DEF Fits, Numeric
  <2>3. ASSUME IsValue(v), ~IsContainer(v), base \in Numeric
        PROVE  v.base = base \/ (base = "integer" /\ v.val[2] % Unit # 0)
    BY <1>2, <2>2, <2>3 DEF Numeric
  <2>. QED
    BY <2>1, <2>3 DEF Fits, Held
<1>. QED
  BY <1>1, <1>2

\* A configuration whose variables hold values of their types.
TypedIn(def, c) ==
    \A id \in DOMAIN def.decls : Held(def.decls[id].base, c.values[id]) /\ Proper(c.correct[id])

\* A statement that goes by the types, wherever the variables do: it sets
\* numeric variables to numbers.
Types(def, s) ==
    /\ s.does \in {"set", "correct"} =>
          \A c, draw : TypedIn(def, c) =>
              LET v == Evaluate([EnvIn(def, c) EXCEPT !.draw = draw], s.expr)
              IN  IF s.does = "set" THEN Fits(def.decls[s.id].base, v) ELSE Proper(v)
    /\ s.does = "lookup" /\ s.id \in DOMAIN def.tables =>
          Fits(def.decls[s.id].base, def.tables[s.id].default)

\* Items of which every part goes by the declared types.  No code checks that:
\* a setOutcomeValue may put a text into a numeric variable.
ItemsWellTyped ==
    \A k \in DOMAIN ItemDefs :
        LET def == ItemDefs[k]
        IN  /\ DOMAIN def.correct = DOMAIN def.decls
            /\ \A id \in DOMAIN def.decls :
                  /\ Held(def.decls[id].base, def.decls[id].default) /\ Proper(def.correct[id])
                  /\ def.decls[id].kind = "response" =>
                        \A v \in def.answers : Held(def.decls[id].base, v)
                  /\ id \in {"FEEDBACK", "FEEDBACKBASIC"} => def.decls[id].base \notin Numeric
            /\ \A name \in ProgramNames :
                  \E S : Covers(S, def.programs[name]) /\ \A s \in S : Types(def, s)

WellTyped ==
    /\ DOMAIN correct = Variables
    /\ \A id \in Variables : Held(Definition.decls[id].base, values[id]) /\ Proper(correct[id])

LEMMA NumbersFit ==
    /\ \A base, n : Fits(base, Number("float", n))
    /\ \A base : Fits(base, InvalidValue)
    /\ \A base, w : base \notin Numeric => Fits(base, Value("identifier", "single", <<"text", w>>))
<1>1. \A b, x : LET v == Value(b, "single", x)
                IN  Proper(v) /\ v.base = b
  BY DEF Value, Proper, Typed, IsValue
<1>2. Proper(InvalidValue) /\ ~IsValue(InvalidValue)
  BY DEF InvalidValue, Proper, Typed, IsValue
<1>. QED
  BY <1>1, <1>2 DEF Fits, Number, Numeric

\* What the fixed templates set fits: a score, or a verdict.
LEMMA FixedFit ==
    ASSUME NEW def, NEW given, NEW expected, NEW id \in DOMAIN FixedOutcomes(def, given, expected),
           id \in {"FEEDBACK", "FEEDBACKBASIC"} => def.decls[id].base \notin Numeric
    PROVE  Fits(def.decls[id].base, FixedOutcomes(def, given, expected)[id])
<1>. DEFINE v == FixedOutcomes(def, given, expected)[id]
<1>1. \/ \E n : v = Number("float", n)
      \/ id \in {"FEEDBACK", "FEEDBACKBASIC"} /\ \E w : v = Value("identifier", "single", <<"text", w>>)
  <2>1. CASE def.fixed = "match_correct"
    BY <2>1 DEF FixedOutcomes
  <2>2. CASE def.fixed = "cc2_match_basic"
    <3>1. \E n, w, verdict :
              /\ verdict = Value("identifier", "single", <<"text", w>>)
              /\ FixedOutcomes(def, given, expected) \in
                     {[FEEDBACKBASIC |-> verdict, SCORE |-> Number("float", n)],
                      [FEEDBACKBASIC |-> verdict]}
      BY <2>2 DEF FixedOutcomes
    <3>. QED
      BY <3>1
  <2>3. CASE def.fixed = "match_nothing"
    BY <2>3 DEF FixedOutcomes
  <2>4. CASE def.fixed = "map_response"
    BY <2>4 DEF FixedOutcomes
  <2>5. CASE def.fixed = "cc2_map_response"
    <3>1. PICK n, w, verdict :
              /\ verdict = Value("identifier", "single", <<"text", w>>)
              /\ FixedOutcomes(def, given, expected)
                     = [FEEDBACK |-> verdict, SCORE |-> Number("float", n)]
      BY <2>5 DEF FixedOutcomes
    <3>2. id \in {"FEEDBACK", "SCORE"}
      BY <3>1
    <3>3. id = "FEEDBACK" => v = verdict
      BY <3>1
    <3>4. id = "SCORE" => v = Number("float", n)
      BY <3>1
    <3>. QED
      BY <3>1, <3>2, <3>3, <3>4
  <2>6. CASE def.fixed \notin {"match_correct", "cc2_match_basic", "match_nothing", "map_response",
                               "cc2_map_response"}
    BY <2>6 DEF FixedOutcomes
  <2>. QED
    BY <2>1, <2>2, <2>3, <2>4, <2>5, <2>6
<1>. HIDE DEF v
<1>2. Fits(def.decls[id].base, v)
  BY <1>1, NumbersFit
<1>. QED
  BY <1>2 DEF v

LEMMA LookUpFits ==
    ASSUME NEW base, NEW v, NEW table, Fits(base, table.default)
    PROVE  Fits(base, LookUp(v, table))
<1>1. LookUp(v, table) \in {InvalidValue, table.default} \/ \E n : LookUp(v, table) = Number("float", n)
  <2>1. CASE v.kind = "invalid" \/ v.kind = "null" \/ IsContainer(v)
    BY <2>1 DEF LookUp
  <2>2. CASE ~(v.kind = "invalid" \/ v.kind = "null" \/ IsContainer(v))
    BY <2>2 DEF LookUp
  <2>. QED
    BY <2>1, <2>2
<1>. QED
  BY <1>1, NumbersFit

LEMMA WellTypedPreserved ==
    ASSUME ItemsWellTyped, Located, Shaped, TodoCovered, WellTyped, [QtiNext]_qtiVars
    PROVE  WellTyped'
<1>1. Definition' = Definition /\ Variables' = Variables
  BY DefinitionStays DEF Variables
<1>2. /\ \A id \in Variables :
            /\ Held(Definition.decls[id].base, Definition.decls[id].default)
            /\ Definition.decls[id].kind = "response" =>
                  \A v \in Definition.answers : Held(Definition.decls[id].base, v)
            /\ id \in {"FEEDBACK", "FEEDBACKBASIC"} => Definition.decls[id].base \notin Numeric
      /\ \A name \in ProgramNames :
            \E S : Covers(S, Statements(name)) /\ \A s \in S : Types(Definition, s)
  BY DEF ItemsWellTyped, Located, Definition, Variables, Statements
<1>3. ASSUME Running PROVE Types(Definition, Statement)
  <2>1. program \in ProgramNames
    BY <1>3 DEF Running, Located
  <2>2. PICK S : Covers(S, Statements(program)) /\ \A s \in S : Types(Definition, s)
    BY <1>2, <2>1
  <2>. QED
    BY <1>3, <2>2, StatementCovered
<1>4. TypedIn(Definition, Config)
  BY DEF TypedIn, Config, WellTyped, Variables
<1>5. ASSUME NEW v, Fits(Definition.decls[Statement.id].base, v), values' = Stored(Statement.id, v),
             correct' = correct
      PROVE  WellTyped'
  <2>1. Held(Definition.decls[Statement.id].base, Conform(Definition.decls[Statement.id].base, v))
    BY <1>5, ConformHeld
  <2>. QED
    BY <1>1, <1>5, <2>1 DEF WellTyped, Stored, Shaped
<1>6. ASSUME NEW ids, values' = Defaulted(ids), correct' = correct
      PROVE  WellTyped'
  BY <1>1, <1>2, <1>6 DEF WellTyped, Defaulted
<1>7. CASE SetValue
  <2>1. PICK draw \in 0 .. Parts - 1 :
            values' = Stored(Statement.id, Evaluate(Env(draw), Statement.expr))
    BY <1>7 DEF SetValue
  <2>2. Fits(Definition.decls[Statement.id].base, Evaluate(Env(draw), Statement.expr))
    BY <1>3, <1>4, <1>7, DrawReplaced DEF Types, SetValue
  <2>. QED
    BY <1>5, <1>7, <2>1, <2>2 DEF SetValue
<1>8. CASE SetCorrectResponse
  <2>1. Proper(Evaluate(Env(0), Statement.expr))
    BY <1>3, <1>4, <1>8, DrawReplaced DEF Types, SetCorrectResponse
  <2>. QED
    BY <1>1, <1>8, <2>1 DEF WellTyped, SetCorrectResponse
<1>9. CASE LookupOutcomeValue
  <2>. DEFINE v == IF Statement.id \in DOMAIN Definition.tables
                   THEN LookUp(Evaluate(Env(0), Statement.expr), Definition.tables[Statement.id])
                   ELSE InvalidValue
  <2>1. Fits(Definition.decls[Statement.id].base, v)
    BY <1>3, <1>9, LookUpFits, NumbersFit DEF Types, LookupOutcomeValue
  <2>2. values' = Stored(Statement.id, v) /\ correct' = correct
    BY <1>9 DEF LookupOutcomeValue
  <2>. HIDE DEF v
  <2>. QED
    BY <1>5, <2>1, <2>2
<1>10. CASE SetDefaultValue \/ ConstraintFails \/ \E resetResponses \in BOOLEAN : RunNewTemplate(resetResponses)
  BY <1>6, <1>10 DEF SetDefaultValue, ConstraintFails, RunNewTemplate
<1>11. ASSUME NEW id \in OfKind("response"), NEW v \in Definition.answers, Respond(id, v)
       PROVE  WellTyped'
  BY <1>1, <1>2, <1>11 DEF WellTyped, Respond, OfKind, Shaped
<1>12. CASE RunResponseProcessing
  <2>. DEFINE reset == Defaulted(OfKind("outcome"))
              fixed == FixedOutcomes(Definition, reset["RESPONSE"], correct["RESPONSE"])
  <2>1. values' = IF Definition.fixed = "none" THEN reset
                  ELSE [id \in Variables |-> IF id \in DOMAIN fixed
                                             THEN Conform(Definition.decls[id].base, fixed[id])
                                             ELSE reset[id]]
    BY <1>12 DEF RunResponseProcessing, Begun, Variables
  <2>2. \A id \in Variables : Held(Definition.decls[id].base, reset[id])
    BY <1>2 DEF Defaulted, WellTyped
  <2>3. ASSUME NEW id \in Variables, id \in DOMAIN fixed
        PROVE  Held(Definition.decls[id].base, Conform(Definition.decls[id].base, fixed[id]))
    BY <1>2, <2>3, FixedFit, ConformHeld
  <2>4. correct' = correct
    BY <1>12 DEF RunResponseProcessing
  <2>. HIDE DEF reset, fixed
  <2>. QED
    BY <1>1, <2>1, <2>2, <2>3, <2>4 DEF WellTyped
<1>13. CASE UNCHANGED <<values, correct>>
  BY <1>1, <1>13 DEF WellTyped
<1>14. CASE Condition \/ ConstraintHolds \/ Exit \/ End \/ UNCHANGED qtiVars
  BY <1>13, <1>14 DEF Condition, ConstraintHolds, Exit, End, EndProgram, qtiVars
<1>. QED
  BY <1>7, <1>8, <1>9, <1>10, <1>11, <1>12, <1>14 DEF QtiNext, Execute

\* Numeric variables hold numbers of their declared type, or a fraction that was
\* given to an integer, and the program counter stays in its program: for every
\* item of which the parts go by the declared types.
THEOREM QtiTypeCorrect ==
    ASSUME ItemsWellTyped
    PROVE  QtiSpec => []QtiTypeOK
<1>1. QtiInit => WellTyped
  BY DEF QtiInit, WellTyped, ItemsWellTyped, Definition, Variables
<1>2. Located /\ Shaped /\ TodoCovered /\ WellTyped /\ [QtiNext]_qtiVars => WellTyped'
  BY WellTypedPreserved
<1>3. Located /\ Shaped /\ WellTyped => QtiTypeOK
  BY DEF Located, Shaped, WellTyped, QtiTypeOK, Held, Proper, Numeric
<1>. QED
  BY <1>1, <1>2, <1>3, LocatedCorrect, ShapedCorrect, TodoCoveredCorrect, PTL DEF QtiSpec

-----------------------------------------------------------------------------
(* What operators compute.  These facts do not depend on the evaluation.   *)

LEMMA NumberIs ==
    ASSUME NEW base, NEW n \in Int
    PROVE  Numbers(Number(base, n)) = {n}
<1>1. IsValue(Number(base, n)) /\ ~IsContainer(Number(base, n))
  BY DEF Number, Value, IsValue, IsContainer
<1>2. Number(base, n).val = <<"num", n>>
  BY DEF Number, Value
<1>3. DatumNumbers(<<"num", n>>) = {n}
  <2>1. <<"num", n>> # <<>> /\ <<"num", n>>[1] = "num" /\ <<"num", n>>[2] = n
    OBVIOUS
  <2>. QED
    BY <2>1 DEF DatumNumbers
<1>. QED
  BY <1>1, <1>2, <1>3 DEF Numbers

LEMMA TheOne == \A n : The({n}) = n
  BY DEF The

\* The part of n that a draw falls on.
LEMMA DrawnPart ==
    ASSUME NEW n \in Nat \ {0}, NEW draw \in 0 .. Parts - 1
    PROVE  Drawn(draw, n) \in 0 .. n - 1
<1>1. draw \in {0, 1, 2, 3}
  BY DEF Parts
<1>2. Drawn(draw, n) = (draw * n) \div 4
  BY DEF Drawn, Parts
<1>3. /\ 0 * n = 0 /\ 1 * n = n /\ 2 * n = n + n /\ 3 * n = n + n + n
  OBVIOUS
<1>4. /\ 0 \div 4 = 0 /\ n \div 4 \in 0 .. n - 1 /\ (n + n) \div 4 \in 0 .. n - 1
      /\ (n + n + n) \div 4 \in 0 .. n - 1
  OBVIOUS
<1>. QED
  BY <1>1, <1>2, <1>3, <1>4

\* Of at most Parts parts each is drawn.
LEMMA EachPartDrawn ==
    ASSUME NEW n \in 1 .. Parts, NEW k \in 0 .. n - 1
    PROVE  \E draw \in 0 .. Parts - 1 : Drawn(draw, n) = k
<1>1. n \in {1, 2, 3, 4} /\ 0 .. Parts - 1 = {0, 1, 2, 3}
  BY DEF Parts
<1>2. /\ Drawn(0, n) = 0
      /\ n = 2 => Drawn(2, n) = 1
      /\ n = 3 => Drawn(2, n) = 1 /\ Drawn(3, n) = 2
      /\ n = 4 => Drawn(1, n) = 1 /\ Drawn(2, n) = 2 /\ Drawn(3, n) = 3
  BY <1>1 DEF Drawn, Parts
<1>. QED
  BY <1>1, <1>2

\* randomInteger draws integers between its limits only, null if there is none,
\* and each of them if they are no more than the draws that are told apart: for
\* all limits, fractions included, of which the lower is rounded up.
THEOREM DrawsCoverTheRangeCorrect ==
    ASSUME NEW low \in Int, NEW high \in Int, NEW b1, NEW b2
    PROVE  LET between == {n \in Int : low <= Unit * n /\ Unit * n <= high}
               drawn == {RandomInteger(Number(b1, low), Number(b2, high), draw) : draw \in 0 .. Parts - 1}
           IN  /\ between = {} => drawn = {Null}
               /\ between # {} => drawn \subseteq {Number("integer", Unit * n) : n \in between}
               /\ (\E m \in Int : between \subseteq m .. m + Parts - 1) =>
                      {Number("integer", Unit * n) : n \in between} \subseteq drawn
<1>. DEFINE first == -((-low) \div Unit)
            last == high \div Unit
            between == {n \in Int : low <= Unit * n /\ Unit * n <= high}
            Draw(draw) == RandomInteger(Number(b1, low), Number(b2, high), draw)
            drawn == {Draw(draw) : draw \in 0 .. Parts - 1}
<1>1. first \in Int /\ last \in Int /\ between = first .. last
  BY DEF Unit
<1>2. \A draw : Draw(draw) = IF first > last THEN Null
                             ELSE Number("integer", Unit * (first + Drawn(draw, last - first + 1)))
  <2>. SUFFICES ASSUME NEW draw
                PROVE  Draw(draw) = IF first > last THEN Null
                                    ELSE Number("integer", Unit * (first + Drawn(draw, last - first + 1)))
    OBVIOUS
  <2>1. /\ {-((-n) \div Unit) : n \in Numbers(Number(b1, low))} = {first}
        /\ {n \div Unit : n \in Numbers(Number(b2, high))} = {last}
    BY NumberIs
  <2>. HIDE DEF first, last
  <2>. QED
    BY <2>1, TheOne DEF RandomInteger
<1>. HIDE DEF first, last, between, Draw
<1>3. CASE first > last
  <2>1. between = {}
    BY <1>1, <1>3
  <2>2. 0 \in 0 .. Parts - 1
    BY DEF Parts
  <2>3. drawn = {Null}
    BY <1>2, <1>3, <2>2
  <2>. QED
    BY <2>1, <2>3 DEF Draw, between
<1>4. CASE first <= last
  <2>. DEFINE size == last - first + 1
  <2>1. size \in Nat \ {0} /\ first \in between
    BY <1>1, <1>4
  <2>2. \A draw : Draw(draw) = Number("integer", Unit * (first + Drawn(draw, size)))
    BY <1>1, <1>2, <1>4
  <2>3. ASSUME NEW draw \in 0 .. Parts - 1
        PROVE  first + Drawn(draw, size) \in between
    BY <1>1, <2>1, DrawnPart
  <2>4. drawn \subseteq {Number("integer", Unit * n) : n \in between}
    BY <2>2, <2>3
  <2>5. ASSUME NEW m \in Int, between \subseteq m .. m + Parts - 1, NEW n \in between
        PROVE  Number("integer", Unit * n) \in drawn
    <3>1. first \in m .. m + Parts - 1 /\ last \in m .. m + Parts - 1
      BY <1>1, <1>4, <2>5
    <3>2. size \in 1 .. Parts /\ n - first \in 0 .. size - 1 /\ n \in Int
      BY <1>1, <1>4, <2>5, <3>1 DEF Parts
    <3>3. PICK draw \in 0 .. Parts - 1 : Drawn(draw, size) = n - first
      BY <3>2, EachPartDrawn
    <3>4. first + Drawn(draw, size) = n
      BY <1>1, <3>2, <3>3
    <3>5. Draw(draw) = Number("integer", Unit * n)
      BY <2>2, <3>4
    <3>. QED
      BY <3>5
  <2>. QED
    BY <2>1, <2>4, <2>5 DEF Draw, between
<1>5. first > last \/ first <= last
  BY <1>1
<1>. QED
  BY <1>3, <1>4, <1>5

LEMMA Division ==
    ASSUME NEW a \in Int, NEW b \in Int, b > 0
    PROVE  /\ a \div b \in Int
           /\ b * (a \div b) <= a /\ a < b * (a \div b) + b
  OBVIOUS

\* integerModulus is what is left of whole multiples, on the side of its
\* modulus, and null without one: for all numbers, cut off to integers first.
THEOREM ModulusIsRemainderCorrect ==
    ASSUME NEW n \in Int, NEW d \in Int, NEW b1, NEW b2
    PROVE  LET m == IntegerModulus(Number(b1, n), Number(b2, d))
               p == Truncate(n)
               q == Truncate(d)
           IN  IF q = 0 THEN m = Null
               ELSE \E f, r \in Int :
                       /\ m = Number("integer", r) /\ p = q * f + r
                       /\ IF q > 0 THEN 0 <= r /\ r < q ELSE q < r /\ r <= 0
<1>. DEFINE m == IntegerModulus(Number(b1, n), Number(b2, d))
            p == Truncate(n)
            q == Truncate(d)
            f == FloorDivide(p, q)
            r == p - q * f
<1>1. p \in Int /\ q \in Int
  BY DEF Truncate, Unit
<1>2. m = IF q = 0 THEN Null ELSE Number("integer", r)
  <2>1. /\ Numbers(Number(b1, n)) = {n} /\ Numbers(Number(b2, d)) = {d}
        /\ The({n}) = n /\ The({d}) = d
    BY NumberIs, TheOne
  <2>2. CASE q = 0
    <3>1. {k \in Numbers(Number(b2, d)) : Truncate(k) # 0} = {}
      BY <2>1, <2>2
    <3>. QED
      BY <2>2, <3>1 DEF IntegerModulus
  <2>3. CASE q # 0
    <3>1. {k \in Numbers(Number(b2, d)) : Truncate(k) # 0} = {d}
      BY <2>1, <2>3
    <3>2. Numbers(Number(b1, n)) # {} /\ {d} # {}
      BY <2>1
    <3>. QED
      BY <2>1, <2>3, <3>1, <3>2 DEF IntegerModulus
  <2>. QED
    BY <2>2, <2>3
<1>. HIDE DEF m, p, q
<1>3. CASE q > 0
  <2>1. f = p \div q
    BY <1>3 DEF FloorDivide
  <2>2. f \in Int /\ q * f <= p /\ p < q * f + q
    BY <1>1, <1>3, <2>1, Division
  <2>. HIDE DEF f
  <2>3. r \in Int /\ p = q * f + r /\ 0 <= r /\ r < q
    BY <1>1, <2>2
  <2>. QED
    BY <1>2, <1>3, <2>2, <2>3 DEF m, p, q
<1>4. CASE q < 0
  <2>1. f = (-p) \div (-q)
    BY <1>1, <1>4 DEF FloorDivide
  <2>2. -p \in Int /\ -q \in Int /\ -q > 0
    BY <1>1, <1>4
  <2>3. f \in Int /\ (-q) * f <= -p /\ -p < (-q) * f + (-q)
    BY <2>1, <2>2, Division
  <2>. HIDE DEF f
  <2>4. (-q) * f = -(q * f) /\ q * f \in Int
    BY <1>1, <2>3
  <2>5. r \in Int /\ p = q * f + r /\ q < r /\ r <= 0
    BY <1>1, <2>3, <2>4
  <2>. QED
    BY <1>1, <1>2, <1>4, <2>3, <2>5 DEF m, p, q
<1>5. CASE q = 0
  BY <1>2, <1>5 DEF m, q
<1>. QED
  BY <1>1, <1>3, <1>4, <1>5 DEF q, p, m

LEMMA TruthHolds ==
    ASSUME NEW b \in BOOLEAN
    PROVE  Holds(Truth(b)) <=> b
<1>1. /\ IsValue(Truth(b)) /\ ~IsContainer(Truth(b)) /\ Truth(b).base = "boolean"
      /\ Truth(b).val = <<"bool", b>>
  BY DEF Truth, Value, IsValue, IsContainer
<1>2. DatumNumbers(<<"bool", b>>) = IF b THEN {Unit} ELSE {0}
  <2>1. <<"bool", b>> # <<>> /\ <<"bool", b>>[1] = "bool" /\ <<"bool", b>>[2] = b
    OBVIOUS
  <2>. QED
    BY <2>1 DEF DatumNumbers
<1>. QED
  BY <1>1, <1>2 DEF Holds, Unit

\* Of numbers an order holds or its opposite does; of anything else, a missing
\* response included, neither.
THEOREM OrderIsTotalOnNumbersCorrect ==
    ASSUME NEW a, NEW b, NEW N \in SUBSET Int, NEW M \in SUBSET Int,
           Numbers(a) = N, Numbers(b) = M, \A x, y \in N : x = y, \A x, y \in M : x = y
    PROVE  /\ (Holds(Compare("lt", a, b)) # Holds(Compare("gte", a, b))) <=> (N # {} /\ M # {})
           /\ (Holds(Compare("gt", a, b)) # Holds(Compare("lte", a, b))) <=> (N # {} /\ M # {})
           /\ N = {} \/ M = {} => \A op \in {"lt", "lte", "gt", "gte"} : ~Holds(Compare(op, a, b))
<1>. DEFINE Lt == Holds(Compare("lt", a, b))
            Lte == Holds(Compare("lte", a, b))
            Gt == Holds(Compare("gt", a, b))
            Gte == Holds(Compare("gte", a, b))
<1>1. /\ Lt <=> \E x \in N, y \in M : x < y
      /\ Lte <=> \E x \in N, y \in M : x <= y
      /\ Gt <=> \E x \in N, y \in M : x > y
      /\ Gte <=> \E x \in N, y \in M : x >= y
  BY TruthHolds DEF Compare
<1>2. Lt \in BOOLEAN /\ Lte \in BOOLEAN /\ Gt \in BOOLEAN /\ Gte \in BOOLEAN
  BY DEF Holds
<1>3. \A op \in {"lt", "lte", "gt", "gte"} :
          Holds(Compare(op, a, b)) => Lt \/ Lte \/ Gt \/ Gte
  OBVIOUS
<1>. HIDE DEF Lt, Lte, Gt, Gte
<1>4. CASE N = {} \/ M = {}
  <2>1. Lt = FALSE /\ Lte = FALSE /\ Gt = FALSE /\ Gte = FALSE
    BY <1>1, <1>2, <1>4
  <2>. QED
    BY <1>3, <1>4, <2>1 DEF Lt, Lte, Gt, Gte
<1>5. CASE N # {} /\ M # {}
  <2>0. PICK x \in N, y \in M : TRUE
    BY <1>5
  <2>1. x \in Int /\ y \in Int /\ N = {x} /\ M = {y}
    BY <2>0
  <2>2. /\ Lt = (x < y) /\ Lte = (x <= y) /\ Gt = (x > y) /\ Gte = (x >= y)
    BY <1>1, <1>2, <2>1
  <2>3. Lt # Gte /\ Gt # Lte
    BY <2>1, <2>2
  <2>. QED
    BY <1>5, <2>3 DEF Lt, Lte, Gt, Gte
<1>. QED
  BY <1>4, <1>5
=============================================================================
