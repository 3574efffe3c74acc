------------------------------ MODULE QtiLaws ------------------------------
(***************************************************************************)
(* What the algorithms of QtiExpressions compute, against reference        *)
(* definitions over small inputs.  TLC evaluates each law before it        *)
(* explores a state.                                                       *)
(***************************************************************************)
EXTENDS QtiExpressions

LawWords == {<<"text", "a">>, <<"text", "b">>, <<>>}
LawPairs == {<<"pair", "a", "b">>, <<"pair", "b", "a">>, <<"pair", "a", "a">>}
LawContainers(base, data, card) ==
    {Value(base, card, s) : s \in UNION {[1 .. n -> data] : n \in 0 .. 3}}

Rearranged(s, t) ==
    \E p \in [DOMAIN s -> DOMAIN t] :
        (\A j, k \in DOMAIN s : p[j] = p[k] => j = k) /\ \A k \in DOMAIN s : s[k] = t[p[k]]

\* The counting of keys finds two unordered containers equal exactly if one is
\* a rearrangement of the other, the members of a pair in either order.
ASSUME MatchIsRearrangement ==
    \A of \in {<<"identifier", LawWords>>, <<"pair", LawPairs>>} :
        LET containers == LawContainers(of[1], of[2], "multiple")
        IN  \A a, b \in containers :
                Holds(Match(a, b)) = (Len(a.val) = Len(b.val) /\ Rearranged(Keys(a), Keys(b)))

\* Equality is match without the types: of two values of one type the two agree.
ASSUME EqualIsMatch ==
    \A card \in {"multiple", "ordered"} :
        LET containers == LawContainers("identifier", LawWords, card)
        IN  \A a, b \in containers : Equal(a, b) = Match(a, b)

\* What is deleted is no member any more, and nothing else is lost; identifiers
\* only, since delete tells the two orders of a pair apart and member does not.
ASSUME DeleteLeavesNone ==
    \A c \in LawContainers("identifier", LawWords, "multiple"), x \in LawWords \ {<<>>} :
        LET v == Value("identifier", "single", x)
        IN  /\ ~Holds(Member(v, Delete(v, c)))
            /\ Len(Delete(v, c).val) + Count(c.val, x) = Len(c.val)

LawIntegers == {Number("integer", Unit * n) : n \in -4 .. 4}

\* The modulus is what is left of whole multiples, on the side of its modulus.
ASSUME ModulusIsRemainder ==
    \A a, b \in LawIntegers :
        LET m == IntegerModulus(a, b) y == The(Numbers(b))
        IN  IF y = 0 THEN m = Null
            ELSE LET r == The(Numbers(m))
                 IN  /\ \E q \in -8 .. 8 : The(Numbers(a)) = y * q + r
                     /\ IF y > 0 THEN 0 <= r /\ r < y ELSE y < r /\ r <= 0

\* Euclid's algorithm finds the greatest common divisor.
ASSUME GcdIsGreatest ==
    \A x, y \in 0 .. 12 : x + y > 0 =>
        LET common == {d \in 1 .. 12 : x % d = 0 /\ y % d = 0}
        IN  gcd2[x, y] \in common /\ \A d \in common : d <= gcd2[x, y]

\* An ordering of what is no number is false both ways: a missing response is
\* neither below a limit nor at or above it.
ASSUME OrderIsTotalOnNumbers ==
    \A a, b \in LawIntegers \cup {Null, InvalidValue} :
        LET numbers == Numbers(a) # {} /\ Numbers(b) # {}
        IN  /\ (Holds(Compare("lt", a, b)) # Holds(Compare("gte", a, b))) = numbers
            /\ (Holds(Compare("gt", a, b)) # Holds(Compare("lte", a, b))) = numbers

\* Without tolerance, equality within bounds is equality; an absolute one is
\* the same from either side.
ASSUME ToleranceIsSymmetric ==
    \A a, b \in LawIntegers, t \in {0, 1, 3} :
        LET Bounds(mode) == [mode |-> mode, below |-> t, above |-> t,
                             withLower |-> TRUE, withUpper |-> TRUE]
        IN  /\ t = 0 => \A mode \in {"absolute", "relative"} :
                            EqualWithin(a, b, Bounds(mode)) = Equal(a, b)
            /\ EqualWithin(a, b, Bounds("absolute")) = EqualWithin(b, a, Bounds("absolute"))

\* A draw is one of the integers between the limits, and each of them is drawn
\* by some draw, as long as there are no more of them than draws.
ASSUME DrawsCoverTheRange ==
    \A low, high \in {Number("float", n) : n \in -3 .. 4} :
        LET x == The(Numbers(low)) y == The(Numbers(high))
            between == {n \in -4 .. 4 : x <= Unit * n /\ Unit * n <= y}
            drawn == {RandomInteger(low, high, draw) : draw \in 0 .. Parts - 1}
        IN  IF between = {} THEN drawn = {Null}
            ELSE drawn = {Number("integer", Unit * n) : n \in between}

\* The polygon of the corners of a rectangle holds the points inside the
\* rectangle and none outside, whichever corner and way round it begins with.
ASSUME PolygonOfRectangle ==
    \A x, y \in 0 .. 5 :
        /\ \A c \in {<<1, 1, 4, 1, 4, 3, 1, 3>>, <<4, 3, 4, 1, 1, 1, 1, 3>>} :
               /\ InRect(x, y, <<2, 2, 3, 2>>) => InPoly(x, y, c)
               /\ InPoly(x, y, c) => InRect(x, y, <<1, 3, 4, 1>>)
        /\ InArea(<<"point", x, y>>, [shape |-> "circle", coords |-> <<2, 2, 2>>])
               = InEllipse(x, y, <<2, 2, 2, 2>>)
=============================================================================
