--------------------------- MODULE QtiEvaluation ---------------------------
(***************************************************************************)
(* The evaluation of expressions: what evalExpr makes of each kind, its    *)
(* operands evaluated before it.  QtiProcessing has the evaluation as a    *)
(* parameter; Eval is the one that it is checked with.                     *)
(***************************************************************************)
EXTENDS QtiExpressions

RECURSIVE Eval(_, _)

\* evalExpr: env has the values and correct responses of the declarations, the
\* mappings, and the draw of the random generator.
Eval(env, e) ==
    LET A == Eval(env, e.a)
        B == Eval(env, e.b)
        Args == [k \in DOMAIN e.args |-> Eval(env, e.args[k])]
    IN  CASE e.op = "baseValue"     -> e.value
          [] e.op = "null"          -> Null
          [] e.op = "variable"      -> env.values[e.id]
          [] e.op = "correct"       -> env.correct[e.id]
          [] e.op = "isNull"        -> Truth(A.kind = "null")
          [] e.op = "isNotNull"     -> Truth(A.kind # "null")
          [] e.op = "preCondition"  -> Truth(Holds(A))
          [] e.op \in Comparisons   -> Compared(e, A, B)
          [] e.op \in {"durationLT", "durationGTE"} -> CompareDurations(e.op, A, B)
          [] e.op = "containerSize" -> ContainerSize(A)
          [] e.op = "index"         -> IndexOf(A, B)
          [] e.op \in {"multiple", "ordered"} -> Collect(Args, e.op)
          [] e.op = "repeat"        -> Repeat(Args, e.times)
          [] e.op = "delete"        -> Delete(A, B)
          [] e.op = "and"           -> Truth(CountTrue(Args) = Len(Args))
          [] e.op = "or"            -> Truth(CountTrue(Args) > 0)
          [] e.op = "not"           -> Truth(~Holds(A))
          [] e.op = "anyN"          -> Truth(CountTrue(Args) \in e.min .. e.max)
          [] e.op = "allN"          -> Truth(CountTrue(Args) <= e.max)
          [] e.op = "sum"           -> Arithmetic(Args, Total(Args))
          [] e.op = "max"           -> Arithmetic(Args, Greatest(Args))
          [] e.op = "min"           -> Arithmetic(Args, Least(Args))
          [] e.op = "subtract"      -> Subtract(A, B)
          [] e.op \in {"round", "truncate"} -> Rounded(e.op, A)
          [] e.op = "integerDivide" -> IntegerDivide(A, B)
          [] e.op = "integerModulus" -> IntegerModulus(A, B)
          [] e.op = "integerToFloat" ->
                IF Numbers(A) = {} THEN Null ELSE Number("float", The(Numbers(A)))
          [] e.op \in {"gcd", "lcm"} -> Multiples(e.op, Args)
          [] e.op = "isTypeOf"      -> Truth(IsValue(A) /\ A.base = e.type)
          [] e.op = "default"       -> env.defaults[e.id]
          [] e.op = "random"        -> RandomOf(A, env.draw)
          [] e.op = "randomInteger" -> RandomInteger(A, B, env.draw)
          [] e.op = "lookupTable"   -> LookUp(A, e.table)
          [] e.op = "inside"        -> Inside(A, e.area)
          [] e.op \in {"mapResponse", "mapOutcome"} ->
                MapValue(env.values[e.id], env.mapping[e.id], env.base[e.id])
          [] e.op = "mapResponsePoint" -> MapPoints(env.values[e.id], env.areas[e.id])
=============================================================================
