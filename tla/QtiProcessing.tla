--------------------------- MODULE QtiProcessing ---------------------------
(***************************************************************************)
(* The processing of one item: its template program draws the variables of *)
(* a new version of the item, its response program scores the candidate's  *)
(* answers and its outcome program follows, statement by statement.        *)
(*                                                                         *)
(* An item definition is a record of                                       *)
(*   decls     for each variable its kind, base type and default           *)
(*   correct   for each variable the declared correct response             *)
(*   programs  for "template", "response" and "outcome" the statements     *)
(*   fixed     the name of a fixed response template, or "none"            *)
(*   mapping, areas, tables   of the variables that have them              *)
(*   answers   the values the candidate may give                           *)
(* A statement is a record of what it does and of its parts: "set",        *)
(* "correct", "default", "lookup", "constraint", "condition" or "exit".    *)
(* What an expression amounts to in an environment is a parameter.         *)
(* Restored sessions, which run no template program, and the built-in      *)
(* variables are left to ItemLifecycle.                                    *)
(***************************************************************************)
EXTENDS QtiExpressions

CONSTANTS
    Evaluate(_, _),  \* evalExpr: the value of an expression in an environment
    ItemDefs,        \* a sequence of item definitions
    MaxIterations,   \* MAX_TEMPLATE_CONSTRAINT_ITERATIONS
    MaxScorings      \* bound: processing runs of the responses

ProgramNames == {"template", "response", "outcome"}

ASSUME ProcessingAssumption ==
    /\ \A k \in DOMAIN ItemDefs, name \in ProgramNames :
          LET statements == ItemDefs[k].programs[name]
          IN  Len(statements) \in Nat /\ DOMAIN statements = 1 .. Len(statements)
    /\ MaxIterations \in Nat \ {0}
    /\ MaxScorings \in Nat

VARIABLES
    defined,      \* the item, an index of ItemDefs
    values,       \* the value of each variable
    correct,      \* its correct response
    program,      \* the program that runs, or "none"
    at, todo,     \* its statement, and what is left of it once it has begun
    attempts,     \* constraintAttempts of that program
    scorings      \* the processing runs so far: what they read and what they set

qtiVars == <<defined, values, correct, program, at, todo, attempts, scorings>>

Definition == ItemDefs[defined]
Variables == DOMAIN Definition.decls
OfKind(kind) == {id \in Variables : Definition.decls[id].kind = kind}
Statements(name) == Definition.programs[name]
Constraints(def) ==
    {s.id : s \in {r \in Range(def.programs["template"]) : r.does = "constraint"}}

Defaulted(ids) ==
    [id \in Variables |-> IF id \in ids THEN Definition.decls[id].default ELSE values[id]]

Env(draw) ==
    [values |-> values, correct |-> correct, draw |-> draw,
     defaults |-> [id \in Variables |-> Definition.decls[id].default],
     base |-> [id \in Variables |-> Definition.decls[id].base],
     mapping |-> Definition.mapping, areas |-> Definition.areas]

\* conformNumericBaseType: a number takes the declared base type, unless it is
\* a fraction and the variable an integer.
Conform(declared, v) ==
    IF /\ IsValue(v) /\ ~IsContainer(v)
       /\ {v.base, declared} = {"integer", "float"}
       /\ declared = "float" \/ v.val[2] % Unit = 0
    THEN [v EXCEPT !.base = declared]
    ELSE v

Stored(id, v) == [values EXCEPT ![id] = Conform(Definition.decls[id].base, v)]

\* The constructor: the declarations, then the template program if there is one.
QtiInit ==
    /\ defined \in DOMAIN ItemDefs
    /\ values = [id \in Variables |-> Definition.decls[id].default]
    /\ correct = Definition.correct
    /\ program = IF Statements("template") = <<>> THEN "none" ELSE "template"
    /\ at = 1
    /\ todo = <<>>
    /\ attempts = [c \in Constraints(Definition) |-> 0]
    /\ scorings = <<>>

Running == program # "none" /\ at <= Len(Statements(program))
Statement == IF todo = <<>> THEN Statements(program)[at] ELSE Head(todo)
Rest == IF todo = <<>> THEN <<>> ELSE Tail(todo)

\* A statement is done, or replaced by the statements it stands for.
Proceed(rest) ==
    /\ todo' = rest
    /\ at' = IF rest = <<>> THEN at + 1 ELSE at
    /\ UNCHANGED <<defined, program, attempts, scorings>>

\* setOutcomeValue, setResponseValue, setTemplateValue.
SetValue ==
    /\ Running /\ Statement.does = "set"
    /\ \E draw \in 0 .. Parts - 1 :
           values' = Stored(Statement.id, Evaluate(Env(draw), Statement.expr))
    /\ Proceed(Rest)
    /\ UNCHANGED correct

SetCorrectResponse ==
    /\ Running /\ Statement.does = "correct"
    /\ correct' = [correct EXCEPT ![Statement.id] = Evaluate(Env(0), Statement.expr)]
    /\ Proceed(Rest)
    /\ UNCHANGED values

SetDefaultValue ==
    /\ Running /\ Statement.does = "default"
    /\ values' = Defaulted({Statement.id})
    /\ Proceed(Rest)
    /\ UNCHANGED correct

LookupOutcomeValue ==
    /\ Running /\ Statement.does = "lookup"
    /\ values' = Stored(Statement.id,
                        IF Statement.id \in DOMAIN Definition.tables
                        THEN LookUp(Evaluate(Env(0), Statement.expr), Definition.tables[Statement.id])
                        ELSE InvalidValue)
    /\ Proceed(Rest)
    /\ UNCHANGED correct

\* execCondition: the statements of the first branch whose condition holds.
Condition ==
    /\ Running /\ Statement.does = "condition"
    /\ LET branches == Statement.branches
           holding == {b \in DOMAIN branches : Holds(Evaluate(Env(0), branches[b].when))}
       IN  Proceed((IF holding = {} THEN Statement.otherwise
                    ELSE branches[Min(holding)].statements) \o Rest)
    /\ UNCHANGED <<values, correct>>

ConstraintHolds ==
    /\ Running /\ Statement.does = "constraint"
    /\ Holds(Evaluate(Env(0), Statement.expr))
    /\ Proceed(Rest)
    /\ UNCHANGED <<values, correct>>

\* Variant: each failure is counted as the first.
ConstraintFailsAnew ==
    /\ Running /\ Statement.does = "constraint"
    /\ ~Holds(Evaluate(Env(0), Statement.expr))
    /\ values' = Defaulted(OfKind("template"))
    /\ attempts' = [attempts EXCEPT ![Statement.id] = 1]
    /\ at' = IF 1 >= MaxIterations THEN at + 1 ELSE 1
    /\ todo' = <<>>
    /\ UNCHANGED <<defined, correct, program, scorings>>

\* Variant: a failure that gives up keeps the variables as they were drawn.
ConstraintFailsKept ==
    /\ Running /\ Statement.does = "constraint"
    /\ ~Holds(Evaluate(Env(0), Statement.expr))
    /\ attempts' = [attempts EXCEPT ![Statement.id] = @ + 1]
    /\ IF attempts'[Statement.id] >= MaxIterations
       THEN at' = at + 1 /\ UNCHANGED values
       ELSE at' = 1 /\ values' = Defaulted(OfKind("template"))
    /\ todo' = <<>>
    /\ UNCHANGED <<defined, correct, program, scorings>>

\* QtiTemplateConstraintRestart: the template variables are reset and the
\* program begins again, or goes on behind the statement after too many.
ConstraintFails ==
    /\ Running /\ Statement.does = "constraint"
    /\ ~Holds(Evaluate(Env(0), Statement.expr))
    /\ values' = Defaulted(OfKind("template"))
    /\ attempts' = [attempts EXCEPT ![Statement.id] = @ + 1]
    /\ at' = IF attempts'[Statement.id] >= MaxIterations THEN at + 1 ELSE 1
    /\ todo' = <<>>
    /\ UNCHANGED <<defined, correct, program, scorings>>

\* A program ends; behind the response program comes the outcome program, and
\* with its end the processing run is complete.
EndProgram ==
    /\ program' = IF program = "response" THEN "outcome" ELSE "none"
    /\ at' = 1
    /\ todo' = <<>>
    /\ attempts' = [c \in DOMAIN attempts |-> 0]
    /\ scorings' = IF program # "outcome" THEN scorings
                   ELSE [scorings EXCEPT ![Len(scorings)].set =
                             [id \in OfKind("outcome") |-> values[id]]]
    /\ UNCHANGED <<defined, values, correct>>

Exit == Running /\ Statement.does = "exit" /\ EndProgram
End == program # "none" /\ at > Len(Statements(program)) /\ EndProgram

Respond(id, v) ==
    /\ program = "none"
    /\ values' = [values EXCEPT ![id] = v]
    /\ UNCHANGED <<defined, correct, program, at, todo, attempts, scorings>>

\* execResponseProcessingTemplate: what each fixed template sets, of the
\* response that was given and the one that is correct.
FixedOutcomes(def, given, expected) ==
    LET right == Holds(Match(given, expected))
        maximum == Numbers(def.decls["MAXSCORE"].default)
        mapped == IF given = Null THEN 0
                  ELSE The(Numbers(MapValue(given, def.mapping["RESPONSE"], def.decls["RESPONSE"].base)))
        empty == given = Null \/ (IsContainer(given) /\ given.val = <<>>)
        Score(n) == Number("float", n)
        Verdict(b) == Value("identifier", "single",
                            <<"text", IF b THEN "correct" ELSE "incorrect">>)
    IN  CASE def.fixed = "match_correct"    -> [SCORE |-> Score(IF right THEN Unit ELSE 0)]
          [] def.fixed = "cc2_match_basic" /\ right ->
                [FEEDBACKBASIC |-> Verdict(TRUE), SCORE |-> Score(The(maximum))]
          [] def.fixed = "cc2_match_basic" /\ ~right -> [FEEDBACKBASIC |-> Verdict(FALSE)]
          [] def.fixed = "match_nothing"    -> [SCORE |-> Score(IF empty THEN The(maximum) ELSE 0)]
          [] def.fixed = "map_response"     -> [SCORE |-> Score(mapped)]
          [] def.fixed = "cc2_map_response" ->
                [FEEDBACK |-> Verdict(mapped \in maximum), SCORE |-> Score(mapped)]
          [] OTHER                          -> <<>>

\* The values a processing run begins its programs with, of the values after
\* the reset: a fixed template takes the place of the response program.
Begun(def, reset, expected) ==
    LET fixed == FixedOutcomes(def, reset["RESPONSE"], expected["RESPONSE"])
    IN  IF def.fixed = "none" THEN reset
        ELSE [id \in DOMAIN def.decls |->
                 IF id \in DOMAIN fixed THEN Conform(def.decls[id].base, fixed[id]) ELSE reset[id]]

\* What a processing run reads.
Inputs ==
    [read |-> [id \in Variables \ OfKind("outcome") |-> values[id]], correct |-> correct,
     set |-> <<>>]

\* Variant: the outcomes of the run before are kept.
RunResponseProcessingOnTop ==
    /\ program = "none"
    /\ Len(scorings) < MaxScorings
    /\ values' = Begun(Definition, values, correct)
    /\ program' = IF Definition.fixed = "none" THEN "response" ELSE "outcome"
    /\ scorings' = Append(scorings, Inputs)
    /\ UNCHANGED <<defined, correct, at, todo, attempts>>

\* runResponseProcessing: each run begins with the defaults of the outcomes.
RunResponseProcessing ==
    /\ program = "none"
    /\ Len(scorings) < MaxScorings
    /\ values' = Begun(Definition, Defaulted(OfKind("outcome")), correct)
    /\ program' = IF Definition.fixed = "none" THEN "response" ELSE "outcome"
    /\ scorings' = Append(scorings, Inputs)
    /\ UNCHANGED <<defined, correct, at, todo, attempts>>

\* runNewTemplateAction: the answers are kept on request, the correct responses
\* always.
RunNewTemplate(resetResponses) ==
    /\ program = "none"
    /\ values' = Defaulted(IF resetResponses THEN Variables ELSE Variables \ OfKind("response"))
    /\ program' = "template"
    /\ UNCHANGED <<defined, correct, at, todo, attempts, scorings>>

Execute ==
    \/ SetValue \/ SetCorrectResponse \/ SetDefaultValue \/ LookupOutcomeValue
    \/ Condition \/ ConstraintHolds \/ ConstraintFails \/ Exit \/ End

QtiNext ==
    \/ Execute
    \/ \E id \in OfKind("response") : \E v \in Definition.answers : Respond(id, v)
    \/ RunResponseProcessing
    \/ \E resetResponses \in BOOLEAN : RunNewTemplate(resetResponses)

\* A program runs without a break: weak fairness of Execute, which is enabled as
\* long as a program runs and takes every step then.
QtiFairness == []<>(program = "none") \/ []<><<program # "none">>_qtiVars

QtiSpec == QtiInit /\ [][QtiNext]_qtiVars /\ QtiFairness

-----------------------------------------------------------------------------
(* Properties.                                                             *)

Typed(v) ==
    \/ v \in {Null, InvalidValue}
    \/ IsValue(v) /\ v.card \in {"single", "multiple", "ordered"}

\* Numeric variables hold numbers of their declared type, or a fraction that
\* was given to an integer; the program counter is in the program.
QtiTypeOK ==
    /\ \A id \in Variables :
          /\ Typed(values[id]) /\ Typed(correct[id])
          /\ LET base == Definition.decls[id].base
             IN  IsValue(values[id]) /\ ~IsContainer(values[id]) /\ base \in {"integer", "float"} =>
                     \/ values[id].base = base
                     \/ base = "integer" /\ values[id].val[2] % Unit # 0
    /\ program \in ProgramNames \cup {"none"}
    /\ program # "none" => at \in 1 .. Len(Statements(program)) + 1
    /\ todo # <<>> => Running
    /\ Len(scorings) <= MaxScorings

\* Every program ends, however the draws fall: a constraint that cannot hold
\* is given up after MaxIterations failures, also when there are several that
\* send each other back to the beginning.
ProcessingEnds == [](program # "none" => <>(program = "none"))

\* When a template program has run to its end, each constraint behind which no
\* template variable is set holds, or all template variables have their
\* defaults: no drawn value stands that a constraint had refused.
ConstraintsHoldOrDefaults ==
    LET statements == Statements("template")
        Final(k) == /\ statements[k].does = "constraint"
                    /\ \A j \in k + 1 .. Len(statements) :
                          statements[j].does \in {"constraint", "correct"}
    IN  program = "template" /\ at > Len(statements) =>
            \/ \A k \in DOMAIN statements : Final(k) => Holds(Evaluate(Env(0), statements[k].expr))
            \/ \A id \in OfKind("template") : values[id] = Definition.decls[id].default

Complete == {k \in DOMAIN scorings : scorings[k].set # <<>>}

\* To score the same answers to the same version of the item again gives the
\* same outcomes, whatever was scored in between; for programs that draw
\* nothing while they score.
SameScoreAgain ==
    \A j, k \in Complete :
        scorings[j].read = scorings[k].read /\ scorings[j].correct = scorings[k].correct =>
            scorings[j].set = scorings[k].set

\* The response program sets SCORE behind a comparison of RESPONSE only, or is
\* a fixed template other than the one that rewards an empty response.
GuardedScore(def) ==
    /\ def.fixed # "match_nothing"
    /\ \A k \in DOMAIN def.programs["response"] :
          LET s == def.programs["response"][k]
          IN  /\ s.does = "condition" /\ s.otherwise = <<>>
              /\ \A b \in DOMAIN s.branches :
                    LET when == s.branches[b].when
                    IN  /\ when.op \in Comparisons
                        /\ [op |-> "variable", id |-> "RESPONSE"] \in {when.a, when.b}

\* A missing response never earns what is given for a comparison with the
\* response: also notEqual, the negation, is not true of it.
MissingNeverScores ==
    GuardedScore(Definition) =>
        \A k \in Complete :
            scorings[k].read["RESPONSE"] = Null =>
                scorings[k].set["SCORE"] = Definition.decls["SCORE"].default
=============================================================================
