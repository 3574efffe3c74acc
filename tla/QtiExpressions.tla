--------------------------- MODULE QtiExpressions ---------------------------
(***************************************************************************)
(* The expressions of response, template and outcome processing: values,   *)
(* their coercions, and what each kind of expression makes of its operands.*)
(*                                                                         *)
(* A datum is a tuple that begins with its type: <<"num", n>> is the       *)
(* number n / 2, so that there are fractions; <<"text", t>> a word that    *)
(* does not read as a number; <<"pair", a, b>>; <<"point", x, y>>;         *)
(* <<"bool", b>>; and <<>> is the null inside a container.  Every draw     *)
(* within one statement is the same.  Left out: records, strings as text,  *)
(* custom operators, the results of the test's items, and the functions    *)
(* whose results are no halves (product, divide, power, mod, statistics,   *)
(* interpolation, mathOperator).                                           *)
(***************************************************************************)
EXTENDS Integers, Sequences, FiniteSets, SequencesExt

Null == [kind |-> "null"]
InvalidValue == [kind |-> "invalid"]
Value(base, card, val) == [kind |-> "value", base |-> base, card |-> card, val |-> val]

Unit == 2
Number(base, n) == Value(base, "single", <<"num", n>>)
Truth(b) == Value("boolean", "single", <<"bool", b>>)

IsValue(v) == v.kind = "value"
IsContainer(v) == IsValue(v) /\ v.card \in {"multiple", "ordered"}
Elements(v) == IF IsContainer(v) THEN v.val ELSE <<v.val>>
AnyOf(args, kind) == \E k \in DOMAIN args : args[k].kind = kind

\* toNumber: the number as a set, empty where JavaScript has NaN.  A container
\* is a number if it is empty or its only element, as text, reads as one.
DatumNumbers(x) ==
    IF x = <<>> THEN {0}
    ELSE CASE x[1] = "num"  -> {x[2]}
           [] x[1] = "bool" -> IF x[2] THEN {Unit} ELSE {0}
           [] OTHER         -> {}

Numbers(v) ==
    IF ~IsValue(v) THEN {}
    ELSE IF ~IsContainer(v) THEN DatumNumbers(v.val)
    ELSE CASE Len(v.val) = 0 -> {0}
           [] Len(v.val) = 1 -> IF v.base = "boolean" THEN {} ELSE DatumNumbers(v.val[1])
           [] OTHER          -> {}

The(numbers) == CHOOSE n \in numbers : TRUE

\* toBoolean.
Holds(v) ==
    /\ IsValue(v)
    /\ IF IsContainer(v) THEN v.val # <<>>
       ELSE v.base \in {"boolean", "integer", "float", "duration"} => 0 \notin DatumNumbers(v.val)

\* normalizeScalarForCompare: an unordered pair is the set of its members.
Key(x, base) ==
    IF base = "pair" /\ x # <<>> /\ x[1] = "pair" THEN <<"pair", {x[2], x[3]}>> ELSE x

Keys(v) == [k \in DOMAIN v.val |-> Key(v.val[k], v.base)]
Count(s, x) == Cardinality({k \in DOMAIN s : s[k] = x})

\* Equal contents: element by element, or as bags when order does not count.
SameContents(a, b, asBags) ==
    /\ Len(a.val) = Len(b.val)
    /\ IF asBags
       THEN \A x \in Range(Keys(a)) : Count(Keys(a), x) = Count(Keys(b), x)
       ELSE Keys(a) = Keys(b)

\* qtiValuesMatch on two values.
ValuesMatch(a, b) ==
    /\ a.card = b.card /\ a.base = b.base
    /\ IF IsContainer(a) THEN SameContents(a, b, a.card = "multiple")
       ELSE Key(a.val, a.base) = Key(b.val, b.base)

Match(a, b) ==
    IF AnyOf(<<a, b>>, "invalid") THEN InvalidValue
    ELSE Truth(IsValue(a) /\ IsValue(b) /\ ValuesMatch(a, b))

\* Exact equality does not ask for the same base type.
ValuesEqual(a, b) ==
    IF IsContainer(a) /\ IsContainer(b)
    THEN SameContents(a, b, "multiple" \in {a.card, b.card})
    ELSE ~IsContainer(a) /\ ~IsContainer(b) /\ Key(a.val, a.base) = Key(b.val, b.base)

Equal(a, b) ==
    IF AnyOf(<<a, b>>, "invalid") THEN InvalidValue
    ELSE IF AnyOf(<<a, b>>, "null") THEN Null
    ELSE Truth(ValuesEqual(a, b))

\* Equality within a tolerance, absolute or in percent of the first operand, its
\* bounds included or not; of numbers only, any other values are compared exactly.
Within(x, y, t) ==
    LET Span(part) == IF t.mode = "absolute" THEN 100 * Unit * part ELSE x * part
        lower == 100 * Unit * x - Span(t.below)
        upper == 100 * Unit * x + Span(t.above)
        at == 100 * Unit * y
    IN  /\ IF t.withLower THEN at >= lower ELSE at > lower
        /\ IF t.withUpper THEN at <= upper ELSE at < upper

EqualWithin(a, b, t) ==
    IF ~AnyOf(<<a, b>>, "invalid") /\ ~AnyOf(<<a, b>>, "null")
       /\ \A v \in {a, b} : v.card = "single" /\ v.base \in {"integer", "float"}
    THEN IF t.below < 0 \/ t.above < 0 THEN InvalidValue
         ELSE Truth(Within(The(Numbers(a)), The(Numbers(b)), t))
    ELSE Equal(a, b)

\* durationLT and durationGTE.
CompareDurations(op, a, b) ==
    CASE AnyOf(<<a, b>>, "invalid") -> InvalidValue
      [] AnyOf(<<a, b>>, "null")    -> Null
      [] a.base # "duration" \/ b.base # "duration" -> InvalidValue
      [] OTHER -> Truth(\E x \in Numbers(a), y \in Numbers(b) :
                            IF op = "durationLT" THEN x < y ELSE x >= y)

\* Variant: the negation of equality, without its null.
NotEqualNegated(a, b) == Truth(~Holds(Equal(a, b)))

NotEqual(a, b) ==
    LET equal == Equal(a, b)
    IN  IF IsValue(equal) THEN Truth(~Holds(equal)) ELSE equal

\* member, and contains with its operands exchanged.
Member(v, container) ==
    IF AnyOf(<<v, container>>, "invalid") THEN InvalidValue
    ELSE Truth(/\ IsValue(v) /\ IsContainer(container)
               /\ ~IsContainer(v)
               /\ Key(v.val, container.base) \in Range(Keys(container)))

ContainerSize(v) ==
    IF v.kind = "invalid" THEN InvalidValue
    ELSE Number("integer", IF v.kind = "null" \/ v.val = <<>> THEN 0 ELSE Unit * Len(Elements(v)))

\* index, counted from one.
IndexOf(container, position) ==
    IF AnyOf(<<container, position>>, "invalid") THEN InvalidValue
    ELSE LET at == {n \div Unit : n \in Numbers(position)}
         IN  IF IsContainer(container) /\ at \cap DOMAIN container.val # {}
             THEN Value(container.base, "single", container.val[The(at)])
             ELSE Null

\* multiple and ordered: a null operand is kept as a null element.
Collect(args, card) ==
    IF AnyOf(args, "invalid") THEN InvalidValue
    ELSE LET typed == SelectSeq(args, IsValue)
             parts == [k \in DOMAIN args |-> IF IsValue(args[k]) THEN Elements(args[k]) ELSE << <<>> >>]
         IN  Value(IF typed = <<>> THEN "string" ELSE typed[1].base, card, FlattenSeq(parts))

\* delete compares data as they are, without the normalization of pairs.
Delete(v, container) ==
    IF AnyOf(<<v, container>>, "invalid") THEN InvalidValue
    ELSE IF ~IsValue(container) THEN Null
    ELSE LET gone == IF IsValue(v) THEN Range(Elements(v)) ELSE {<<>>}
             Kept(x) == x \notin gone
         IN  IF IsContainer(container)
             THEN Value(container.base, container.card, SelectSeq(container.val, Kept))
             ELSE IF Kept(container.val) THEN container ELSE Null

\* repeat: the elements that are there, times over, typed by the last of them.
Repeat(args, times) ==
    LET count == IF times < 0 THEN 0 ELSE times
        Present(x) == x # <<>>
        typed == SelectSeq(args, IsValue)
        once == SelectSeq(FlattenSeq([k \in DOMAIN typed |-> Elements(typed[k])]), Present)
    IN  IF count = 0 THEN Null
        ELSE IF AnyOf(args, "invalid") THEN InvalidValue
        ELSE IF once = <<>> THEN Null
        ELSE Value(Last(typed).base, "ordered", FlattenSeq([k \in 1 .. count |-> once]))

\* lt, lte, gt, gte: false when an operand is not a number.
Compare(op, a, b) ==
    Truth(\E x \in Numbers(a), y \in Numbers(b) :
              CASE op = "lt" -> x < y
                [] op = "lte" -> x <= y
                [] op = "gt" -> x > y
                [] op = "gte" -> x >= y)

CountTrue(args) == Cardinality({k \in DOMAIN args : Holds(args[k])})

\* sum, product, max, min and subtract share the treatment of their operands;
\* the result is an integer if all of them are.
Arithmetic(args, result) ==
    IF \E k \in DOMAIN args :
          /\ args[k].kind # "null" /\ Numbers(args[k]) = {}
          /\ \A j \in 1 .. k - 1 : args[j].kind # "null"
    THEN InvalidValue
    ELSE IF AnyOf(args, "null") THEN Null
    ELSE Number(IF args # <<>> /\ \A k \in DOMAIN args : args[k].base = "integer"
                THEN "integer" ELSE "float",
                result)

Operands(args) == [k \in DOMAIN args |-> The(Numbers(args[k]))]
Total(args) == FoldLeft(LAMBDA acc, n : acc + n, 0, Operands(args))
Greatest(args) == CHOOSE n \in Range(Operands(args)) : \A m \in Range(Operands(args)) : m <= n
Least(args) == CHOOSE n \in Range(Operands(args)) : \A m \in Range(Operands(args)) : n <= m

\* Subtraction looks at both operands before it decides.
Subtract(a, b) ==
    CASE AnyOf(<<a, b>>, "invalid") -> InvalidValue
      [] AnyOf(<<a, b>>, "null")    -> Null
      [] OTHER -> Arithmetic(<<a, b>>, The(Numbers(a)) - The(Numbers(b)))

\* Math.round, halves up, and Math.trunc.
Round(n) == Unit * ((n + 1) \div Unit)
Truncate(n) == IF n >= 0 THEN Unit * (n \div Unit) ELSE -(Unit * ((-n) \div Unit))
FloorDivide(a, b) == IF b > 0 THEN a \div b ELSE (-a) \div (-b)

Rounded(op, v) ==
    CASE v.kind = "null"  -> Null
      [] Numbers(v) = {}  -> InvalidValue
      [] op = "round"     -> Number("float", Round(The(Numbers(v))))
      [] op = "truncate"  -> Number("float", Truncate(The(Numbers(v))))

IntegerDivide(a, b) ==
    LET x == Numbers(a) y == Numbers(b) \ {0}
    IN  IF x = {} \/ y = {} THEN InvalidValue
        ELSE LET p == The(x) q == The(y)
                 quotient == FloorDivide(IF p < 0 THEN -p ELSE p, IF q < 0 THEN -q ELSE q)
             IN  Number("integer", Unit * (IF (p < 0) = (q < 0) THEN quotient ELSE -quotient))

\* Null, not invalid, when there is no modulus.
IntegerModulus(a, b) ==
    LET x == Numbers(a) y == {n \in Numbers(b) : Truncate(n) # 0}
    IN  IF x = {} \/ y = {} THEN Null
        ELSE LET p == Truncate(The(x)) q == Truncate(The(y))
             IN  Number("integer", p - q * FloorDivide(p, q))

\* gcd by Euclid's algorithm, and lcm through it, of the integral parts.
gcd2[x \in Nat, y \in Nat] == IF y = 0 THEN x ELSE gcd2[y, x % y]
lcm2(x, y) == IF x = 0 \/ y = 0 THEN 0 ELSE (x \div gcd2[x, y]) * y

Whole(v) == LET n == Truncate(The(Numbers(v))) \div Unit IN IF n < 0 THEN -n ELSE n

Multiples(op, args) ==
    LET whole == [k \in DOMAIN args |-> Whole(args[k])]
    IN  IF \E k \in DOMAIN args : Numbers(args[k]) = {} THEN Null
        ELSE Number("integer", Unit * (IF op = "gcd" THEN FoldLeft(LAMBDA x, y : gcd2[x, y], 0, whole)
                                       ELSE FoldLeft(lcm2, 1, whole)))

\* A draw of the random generator is a number of parts of Parts.
Parts == 4
Drawn(draw, n) == (draw * n) \div Parts

RandomOf(v, draw) ==
    IF ~IsContainer(v) THEN v
    ELSE IF v.val = <<>> THEN Null
    ELSE Value(v.base, "single", v.val[Drawn(draw, Len(v.val)) + 1])

\* randomInteger with step one.
RandomInteger(low, high, draw) ==
    LET x == {-((-n) \div Unit) : n \in Numbers(low)}
        y == {n \div Unit : n \in Numbers(high)}
    IN  IF x = {} \/ y = {} THEN Null
        ELSE IF The(x) > The(y) THEN Null
        ELSE Number("integer", Unit * (The(x) + Drawn(draw, The(y) - The(x) + 1)))

\* The bounds of a mapping.
Clamp(n, mapping) ==
    IF n < mapping.lower THEN mapping.lower ELSE IF n > mapping.upper THEN mapping.upper ELSE n

\* mapResponse and mapOutcome: what each element is mapped to, added up and then
\* cut off at the bounds; a missing value gets the default as it is.
MapValue(v, mapping, base) ==
    IF ~IsValue(v) THEN Number("float", mapping.default)
    ELSE LET At(x) == {k \in DOMAIN mapping.entries : mapping.entries[k][1] = Key(x, base)}
             Mapped(x) == IF At(x) = {} THEN mapping.default
                          ELSE mapping.entries[The(At(x))][2]
             raw == FoldLeft(LAMBDA acc, x : acc + Mapped(x), 0, Elements(v))
         IN  Number("float", Clamp(raw, mapping))

\* applyLookupTable: the first entry of a matchTable that the source equals.
LookUp(v, table) ==
    LET numeric == v.base \in {"integer", "float"}
        At == {k \in DOMAIN table.entries :
                   IF numeric THEN table.entries[k][1] \in {<<"num", n>> : n \in Numbers(v)}
                   ELSE table.entries[k][1] = v.val}
        first == CHOOSE k \in At : \A j \in At : k <= j
    IN  CASE v.kind = "invalid" -> InvalidValue
          [] v.kind = "null"    -> table.default
          [] IsContainer(v)     -> InvalidValue
          [] OTHER              -> IF At = {} THEN table.default ELSE Number("float", table.entries[first][2])

\* The area of a point <<"point", x, y>>, its coordinates whole numbers: the
\* rectangle between two corners, the circle, the ellipse and the polygon, in
\* which the sides to the right of the point are counted.
InRect(x, y, c) ==
    /\ (c[1] <= x /\ x <= c[3]) \/ (c[3] <= x /\ x <= c[1])
    /\ (c[2] <= y /\ y <= c[4]) \/ (c[4] <= y /\ y <= c[2])

InEllipse(x, y, c) ==
    LET dx == x - c[1] dy == y - c[2] rx == c[3] ry == c[4]
    IN  rx # 0 /\ ry # 0 /\ dx * dx * ry * ry + dy * dy * rx * rx <= rx * rx * ry * ry

InPoly(x, y, c) ==
    LET n == Len(c) \div 2
        X(k) == c[2 * k - 1]
        Y(k) == c[2 * k]
        Before(k) == IF k = 1 THEN n ELSE k - 1
        Crosses(i, j) ==
            LET rise == Y(j) - Y(i)
                reach == (X(j) - X(i)) * (y - Y(i))
            IN  /\ (Y(i) > y) # (Y(j) > y)
                /\ IF rise > 0 THEN (x - X(i)) * rise < reach ELSE (x - X(i)) * rise > reach
    IN  /\ Len(c) >= 6 /\ Len(c) % 2 = 0
        /\ Cardinality({k \in 1 .. n : Crosses(k, Before(k))}) % 2 = 1

InArea(pt, area) ==
    LET x == pt[2] y == pt[3] c == area.coords
    IN  CASE area.shape = "default" -> TRUE
          [] area.shape = "rect"    -> InRect(x, y, c)
          [] area.shape = "circle"  -> (x - c[1]) * (x - c[1]) + (y - c[2]) * (y - c[2]) <= c[3] * c[3]
          [] area.shape = "ellipse" -> InEllipse(x, y, c)
          [] area.shape = "poly"    -> InPoly(x, y, c)

\* inside: of a container, whether any of its points is; null when it comes
\* upon a missing one first.
Inside(v, area) ==
    CASE v.kind = "invalid" -> InvalidValue
      [] v.kind = "null"    -> Null
      [] v.base # "point"   -> InvalidValue
      [] OTHER ->
            LET points == Elements(v)
                stop == SelectInSeq(points, LAMBDA pt : pt = <<>> \/ (pt # <<>> /\ InArea(pt, area)))
            IN  IF stop = 0 THEN Truth(FALSE)
                ELSE IF points[stop] = <<>> THEN Null ELSE Truth(TRUE)

\* mapResponsePoint: each point gets the value of the first area it is in.
MapPoints(v, mapping) ==
    LET Mapped(pt) ==
            LET k == SelectInSeq(mapping.entries, LAMBDA entry : InArea(pt, entry))
            IN  IF k = 0 THEN mapping.default ELSE mapping.entries[k].worth
        Present(pt) == pt # <<>>
        points == SelectSeq(Elements(v), Present)
    IN  IF ~IsValue(v) THEN Number("float", mapping.default)
        ELSE Number("float",
                    Clamp(IF points = <<>> /\ ~IsContainer(v) THEN mapping.default
                          ELSE FoldLeft(LAMBDA acc, pt : acc + Mapped(pt), 0, points),
                          mapping))

\* What the comparisons make of their operands.
Comparisons == {"match", "equal", "equalWithin", "notEqual", "member", "contains",
                "lt", "lte", "gt", "gte"}

Compared(e, a, b) ==
    CASE e.op = "match"       -> Match(a, b)
      [] e.op = "equal"       -> Equal(a, b)
      [] e.op = "equalWithin" -> EqualWithin(a, b, e.tolerance)
      [] e.op = "notEqual"    -> NotEqual(a, b)
      [] e.op = "member"      -> Member(a, b)
      [] e.op = "contains"    -> Member(b, a)
      [] e.op \in {"lt", "lte", "gt", "gte"} -> Compare(e.op, a, b)
=============================================================================
