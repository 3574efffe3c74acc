--------------------------- MODULE ProcessedItems ---------------------------
(***************************************************************************)
(* Small items for QtiProcessing: programs of each kind of statement,      *)
(* written in the shapes of the items of the test suite.                   *)
(***************************************************************************)
EXTENDS QtiExpressions

Var(id) == [op |-> "variable", id |-> id]
Correct(id) == [op |-> "correct", id |-> id]
Const(v) == [op |-> "baseValue", value |-> v]
Integral(n) == Const(Number("integer", Unit * n))
Half(n) == Const(Number("float", n))
Named(w) == Value("identifier", "single", <<"text", w>>)
Word(w) == Const(Named(w))
Of(op, x, y) == [op |-> op, a |-> x, b |-> y]
All(op, exprs) == [op |-> op, args |-> exprs]

Set(id, expr) == [does |-> "set", id |-> id, expr |-> expr]
SetCorrect(id, expr) == [does |-> "correct", id |-> id, expr |-> expr]
LookFor(id, expr) == [does |-> "lookup", id |-> id, expr |-> expr]
Require(id, expr) == [does |-> "constraint", id |-> id, expr |-> expr]
Leave == [does |-> "exit"]
When(condition, statements) == [when |-> condition, statements |-> statements]
If(branches, otherwise) == [does |-> "condition", branches |-> branches, otherwise |-> otherwise]
Only(condition, statement) == If(<<When(condition, <<statement>>)>>, <<>>)

Decl(role, base, default) == [kind |-> role, base |-> base, default |-> default]
Zero == Decl("outcome", "float", Number("float", 0))
Drawing == Decl("template", "integer", Number("integer", 0))
Asked(base) == Decl("response", base, Null)
Chosen(words) == Value("identifier", "multiple", [k \in DOMAIN words |-> <<"text", words[k]>>])

Item(decls, template, response, outcome) ==
    [decls |-> decls, correct |-> [id \in DOMAIN decls |-> Null],
     programs |-> [template |-> template, response |-> response, outcome |-> outcome],
     fixed |-> "none", mapping |-> <<>>, areas |-> <<>>, tables |-> <<>>, answers |-> {Null}]

\* A number is drawn, refused if too big, and asked for.
Drawn3 ==
    [Item([A |-> Drawing, RESPONSE |-> Asked("integer"), SCORE |-> Zero],
          <<Set("A", Of("randomInteger", Integral(1), Integral(3))),
            Require("small", Of("lt", Var("A"), Integral(3))),
            SetCorrect("RESPONSE", Var("A"))>>,
          <<Only(Of("match", Var("RESPONSE"), Correct("RESPONSE")), Set("SCORE", Integral(1)))>>,
          <<>>)
     EXCEPT !.answers = {Null, Number("integer", Unit), Number("integer", 2 * Unit)}]

\* Two constraints: no draw meets the first, and the defaults do not meet the
\* second.
Impossible ==
    [Item([A |-> Drawing, B |-> Drawing, RESPONSE |-> Asked("integer"), SCORE |-> Zero],
          <<Set("A", Of("randomInteger", Integral(2), Integral(3))),
            Set("B", All("sum", <<Var("A"), Half(2)>>)),
            Require("big", Of("gt", Var("A"), Integral(3))),
            Require("apart", Of("notEqual", Var("A"), Var("B")))>>,
          <<Only(Of("notEqual", Var("RESPONSE"), Var("A")), Set("SCORE", Integral(1)))>>,
          <<>>)
     EXCEPT !.answers = {Null, Number("integer", 0), Number("integer", 2 * Unit)}]

\* Points for each choice, and what they amount to.
ManyChoices ==
    [Item([RESPONSE |-> Asked("identifier"), SCORE |-> Zero,
           PASSED |-> Decl("outcome", "boolean", Null)],
          <<>>,
          <<Only(Of("contains", Var("RESPONSE"), Word("a")), Set("SCORE", All("sum", <<Var("SCORE"), Half(1)>>))),
            Only(Of("member", Word("b"), Var("RESPONSE")), Set("SCORE", All("sum", <<Var("SCORE"), Half(1)>>)))>>,
          <<Set("PASSED", Of("gte", Var("SCORE"), Integral(1))),
            Only(Var("PASSED"), Leave),
            Set("SCORE", Half(0))>>)
     EXCEPT !.answers = {Null, Chosen(<<>>), Chosen(<<"a">>), Chosen(<<"b", "a">>)}]

\* A version that is drawn from a list, sometimes settled at once, and a grade
\* that is looked up for the points of the answer.
Graded ==
    [Item([A |-> Drawing, B |-> Drawing, RESPONSE |-> Asked("identifier"),
           RAW |-> Zero, GRADE |-> Zero, SCORE |-> Zero],
          <<Set("A", [op |-> "random", a |-> All("multiple", <<Integral(1), Integral(2), [op |-> "null"]>>)]),
            If(<<When(Of("equal", Var("A"), Integral(1)), <<Set("B", Integral(1)), Leave>>),
                 When(Of("equal", Var("A"), Integral(2)), <<[does |-> "default", id |-> "B"]>>)>>,
               <<Set("B", Integral(2))>>),
            Require("even", Of("equal", Of("integerModulus", Var("B"), Integral(2)), Integral(0)))>>,
          <<Set("RAW", [op |-> "mapResponse", id |-> "RESPONSE"]),
            LookFor("GRADE", Var("RAW")),
            If(<<When([op |-> "isNull", a |-> Var("GRADE")], <<Leave>>)>>, <<>>),
            Set("SCORE", All("sum", <<Var("SCORE"), Var("GRADE")>>))>>,
          <<>>)
     EXCEPT !.answers = {Null, Named("a"), Named("b")},
            !.mapping = [RESPONSE |-> [entries |-> << <<<<"text", "a">>, 2>> >>, default |-> 1,
                                       lower |-> 0, upper |-> 2]],
            !.tables = [GRADE |-> [entries |-> << <<<<"num", 2>>, 4>> >>, default |-> Null]]]

\* The fixed response templates.
Fixed(name) ==
    [Item([RESPONSE |-> Asked("identifier"), SCORE |-> Zero,
           MAXSCORE |-> Decl("outcome", "float", Number("float", 2)),
           FEEDBACK |-> Decl("outcome", "identifier", Null),
           FEEDBACKBASIC |-> Decl("outcome", "identifier", Null)],
          <<>>, <<>>, <<>>)
     EXCEPT !.fixed = name,
            !.correct["RESPONSE"] = Named("a"),
            !.answers = {Null, Named("a"), Named("b")},
            !.mapping = [RESPONSE |-> [entries |-> << <<<<"text", "a">>, 2>> >>, default |-> -1,
                                       lower |-> 0, upper |-> 2]]]

Examples ==
    <<Drawn3, Impossible, ManyChoices, Graded, Fixed("match_correct"), Fixed("cc2_match_basic"),
      Fixed("match_nothing"), Fixed("map_response"), Fixed("cc2_map_response")>>
=============================================================================
