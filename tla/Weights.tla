------------------------------- MODULE Weights -------------------------------
(***************************************************************************)
(* The weight classes and their semirings: float-weight.h (tropical,       *)
(* min-max, real, log), signed-log-weight.h, string-weight.h with the      *)
(* gallic weights, set-weight.h, union-weight.h, pair-, product-,          *)
(* lexicographic- and expectation-weight.h, tuple- and power-weight.h,     *)
(* sparse-tuple- and sparse-power-weight.h, and the contract that weight.h *)
(* states for all of them.                                                 *)
(*                                                                         *)
(* A kind is a record that names a weight class and its template           *)
(* arguments; the operations take the kind as their first argument, as the *)
(* overloads take the type.  Numbers are exact: a float is an integer, an  *)
(* infinity or NaN, and the value x of a log weight is written as the      *)
(* number e^-x, so that its Plus is a sum and +Infinity is 0.              *)
(***************************************************************************)
EXTENDS Integers, Sequences, FiniteSets, SequencesExt

CONSTANTS
    Kinds,      \* the weight classes of the instance
    Basic,      \* [Kinds -> the weights that operations take as operands]
    MaxSize     \* bound on the size of the accumulated weight

VARIABLES
    kind,       \* the weight class in use
    w,          \* a weight computed by Plus, Times, Reverse and SetValue
    adder       \* the state of an Adder that was given the same summands

weightVars == <<kind, w, adder>>

-----------------------------------------------------------------------------
(***************************************************************************)
(* Floats.  The arithmetic of IEEE 754, on integers and the special values. *)
(***************************************************************************)
Inf == 1000
NegInf == -1000
NaN == 9999

AddFloats(x, y) ==
    IF NaN \in {x, y} \/ {x, y} = {Inf, NegInf} THEN NaN
    ELSE IF Inf \in {x, y} THEN Inf
    ELSE IF NegInf \in {x, y} THEN NegInf ELSE x + y

Negated(x) == IF x = NaN THEN NaN ELSE -x

MultiplyFloats(x, y) ==
    IF NaN \in {x, y} THEN NaN
    ELSE IF {x, y} \cap {Inf, NegInf} = {} THEN x * y
    ELSE IF 0 \in {x, y} THEN NaN
    ELSE IF (x > 0) = (y > 0) THEN Inf ELSE NegInf

\* Quotients that are not integers are not needed: the contract divides
\* products by their factors.
DivideFloats(x, y) ==
    IF NaN \in {x, y} \/ (x \in {Inf, NegInf} /\ y \in {Inf, NegInf}) THEN NaN
    ELSE IF y = 0 THEN IF x = 0 THEN NaN ELSE IF x > 0 THEN Inf ELSE NegInf
    ELSE IF y \in {Inf, NegInf} THEN 0
    ELSE IF x \in {Inf, NegInf} THEN IF (x > 0) = (y > 0) THEN Inf ELSE NegInf
    ELSE LET magnitude == (IF x < 0 THEN -x ELSE x) \div (IF y < 0 THEN -y ELSE y)
         IN IF (x < 0) = (y < 0) THEN magnitude ELSE -magnitude

EqFloats(x, y) == x # NaN /\ y # NaN /\ x = y
LessFloats(x, y) == x # NaN /\ y # NaN /\ x < y

IsGreaterThanNegInf(x) == LessFloats(NegInf, x)

TropicalPlus(a, b) ==
    IF ~IsGreaterThanNegInf(a) \/ ~IsGreaterThanNegInf(b) THEN NaN
    ELSE IF LessFloats(a, b) THEN a ELSE b

TropicalTimes(a, b) == AddFloats(a, b)

TropicalDivide(a, b) ==
    IF IsGreaterThanNegInf(b) THEN AddFloats(a, Negated(b)) ELSE NaN

TropicalLess(a, b) == IsGreaterThanNegInf(a) /\ LessFloats(a, b)

MinMaxPlus(a, b) ==
    IF NaN \in {a, b} THEN NaN ELSE IF LessFloats(a, b) THEN a ELSE b

MinMaxTimes(a, b) ==
    IF NaN \in {a, b} THEN NaN ELSE IF a >= b THEN a ELSE b

MinMaxDivide(a, b) ==
    IF a # NaN /\ b # NaN /\ a >= b THEN a ELSE NaN

RealDivide(a, b) ==
    IF IsGreaterThanNegInf(b) THEN DivideFloats(a, b) ELSE NaN

\* Log weights as e^-x: +Infinity is 0, a larger x a smaller number.  Where
\* neither value is +Infinity the two branches on their order both add.
LogPlus(a, b) ==
    IF EqFloats(a, 0) THEN b
    ELSE IF EqFloats(b, 0) THEN a
    ELSE AddFloats(a, b)

LogMinus(a, b) ==
    IF LessFloats(a, b) THEN NaN
    ELSE IF EqFloats(b, 0) THEN a
    ELSE AddFloats(a, Negated(b))

\* The value is neither NaN nor -Infinity.
LogMember(x) == x \notin {NaN, Inf}

LogTimes(a, b) == MultiplyFloats(a, b)

\* f1 - f2; both +Infinity is NaN, a finite f1 and f2 = +Infinity gives
\* -Infinity, which is no member.
LogDivide(a, b) ==
    IF LogMember(b) THEN DivideFloats(a, b) ELSE NaN

-----------------------------------------------------------------------------
(***************************************************************************)
(* Signed log weights: [v1 |-> 1 or -1, v2 |-> a log weight].              *)
(***************************************************************************)
IsPositive(a) == LessFloats(0, a.v1)

SignedMember(a) == IsGreaterThanNegInf(a.v1) /\ LogMember(a.v2)

Signed(sign, x) == [v1 |-> sign, v2 |-> x]

SignedPlus(a, b) ==
    LET equal == IsPositive(a) = IsPositive(b) IN
    IF ~SignedMember(a) \/ ~SignedMember(b) THEN Signed(1, NaN)
    ELSE IF a.v2 = 0 THEN b
    ELSE IF b.v2 = 0 THEN a
    ELSE IF equal THEN Signed(a.v1, a.v2 + b.v2)
    ELSE IF a.v2 = b.v2 THEN Signed(1, 0)
    ELSE IF a.v2 < b.v2 THEN Signed(b.v1, b.v2 - a.v2)
    ELSE Signed(a.v1, a.v2 - b.v2)

SignedMinus(a, b) == SignedPlus(a, Signed(Negated(b.v1), b.v2))

SignedTimes(a, b) ==
    IF ~SignedMember(a) \/ ~SignedMember(b) THEN Signed(1, NaN)
    ELSE Signed(IF IsPositive(a) = IsPositive(b) THEN 1 ELSE -1,
                LogTimes(a.v2, b.v2))

SignedDivide(a, b) ==
    IF ~SignedMember(a) \/ ~SignedMember(b) THEN Signed(1, NaN)
    ELSE IF b.v2 = 0 THEN Signed(1, NaN)
    ELSE IF a.v2 = 0 THEN Signed(1, 0)
    ELSE Signed(IF IsPositive(a) = IsPositive(b) THEN 1 ELSE -1,
                LogDivide(a.v2, b.v2))

SignedEq(a, b) ==
    IF IsPositive(a) = IsPositive(b) THEN EqFloats(a.v2, b.v2)
    ELSE EqFloats(a.v2, 0) /\ EqFloats(b.v2, 0)

\* Adder<SignedLogWeight>: ssum_ and sum_; the compensation c_ has no
\* counterpart in exact numbers.
SignedAdderSum(s) == Signed(IF s.ssum THEN 1 ELSE -1, s.sum)

SignedAdded(s, a) ==
    LET sw == IsPositive(a)
        f == a.v2
        equal == s.ssum = sw
    IN IF ~SignedMember(SignedAdderSum(s)) \/ EqFloats(f, 0) THEN s
       ELSE IF ~SignedMember(a) \/ s.sum = 0 THEN [ssum |-> sw, sum |-> f]
       ELSE IF equal THEN [s EXCEPT !.sum = @ + f]
       ELSE IF f = s.sum THEN [ssum |-> TRUE, sum |-> 0]
       ELSE IF f < s.sum THEN [s EXCEPT !.sum = @ - f]
       ELSE [ssum |-> sw, sum |-> f - s.sum]

-----------------------------------------------------------------------------
(***************************************************************************)
(* String weights: the sequence of labels, with 0 never in it.             *)
(***************************************************************************)
kStringInfinity == -1
kStringBad == -2

StringMember(s) == s = <<>> \/ s[1] # kStringBad

PushLabel(s, label) == IF label = 0 THEN s ELSE Append(s, label)

ReverseStringType(type) ==
    CASE type = "left" -> "right" [] type = "right" -> "left" [] OTHER -> type

CommonSuffix(s, t) ==
    Reverse(LongestCommonPrefix({Reverse(s), Reverse(t)}))

StringPlus(type, s, t) ==
    IF ~StringMember(s) \/ ~StringMember(t) THEN <<kStringBad>>
    ELSE IF s = <<kStringInfinity>> THEN t
    ELSE IF t = <<kStringInfinity>> THEN s
    ELSE CASE type = "left" -> LongestCommonPrefix({s, t})
           [] type = "right" -> CommonSuffix(s, t)
           [] OTHER -> IF s # t THEN <<kStringBad>> ELSE s

StringTimes(s, t) ==
    IF ~StringMember(s) \/ ~StringMember(t) THEN <<kStringBad>>
    ELSE IF <<kStringInfinity>> \in {s, t} THEN <<kStringInfinity>>
    ELSE s \o t

\* The first, or the last, as many labels as the divisor has are dropped;
\* whether they are the divisor's is not looked at.
DivideString(s, t, Rest(_, _)) ==
    IF ~StringMember(s) \/ ~StringMember(t) THEN <<kStringBad>>
    ELSE IF t = <<kStringInfinity>> THEN <<kStringBad>>
    ELSE IF s = <<kStringInfinity>> THEN s
    ELSE IF Len(s) <= Len(t) THEN <<>> ELSE Rest(s, Len(t))

DivideLeft(s, t) ==
    DivideString(s, t, LAMBDA v, n : SubSeq(v, n + 1, Len(v)))

DivideRight(s, t) ==
    DivideString(s, t, LAMBDA v, n : SubSeq(v, 1, Len(v) - n))

StringDivide(type, s, t, dir) ==
    CASE dir = "left" /\ type \in {"left", "restrict"} -> DivideLeft(s, t)
      [] dir = "right" /\ type \in {"right", "restrict"} -> DivideRight(s, t)
      [] OTHER -> <<kStringBad>>

StringProperties(type) ==
    {"idempotent"} \cup (CASE type = "left" -> {"left"}
                           [] type = "right" -> {"right"}
                           [] OTHER -> {"left", "right"})

\* Military order on the string parts of two restricted gallic weights.
Compare(a, b) ==
    LET s == a.v1 t == b.v1 IN
    \/ Len(s) < Len(t)
    \/ /\ Len(s) = Len(t)
       /\ \E i \in 1 .. Len(s) :
             /\ s[i] < t[i]
             /\ \A j \in 1 .. i - 1 : s[j] = t[j]

-----------------------------------------------------------------------------
(***************************************************************************)
(* Set weights: the sequence of labels in the order they were pushed.      *)
(***************************************************************************)
kSetUniv == -1
kSetBad == -2
EmptySet == <<>>
UnivSet == <<kSetUniv>>

SetMember(s) == s = <<>> \/ s[1] # kSetBad

\* PushBack: the first label is taken as it is, a later one must be positive
\* and larger than the one before it.
PushElement(s, label) ==
    IF s = <<>> THEN IF label = 0 THEN s ELSE <<label>>
    ELSE IF label <= Last(s) \/ label <= 0 THEN s \o <<kSetBad, label>>
    ELSE Append(s, label)

SetEq(type, s, t) ==
    IF type # "boolean" THEN s = t
    ELSE /\ SetMember(s) /\ SetMember(t)
         /\ (s # <<>> /\ s[1] = kSetUniv) <=> (t # <<>> /\ t[1] = kSetUniv)

\* The loop that Union, Intersect and Difference share: the two sequences
\* are walked together; keep says whose labels are pushed, those only the
\* first has, those only the second has, and those both have.
RECURSIVE Walk(_, _, _, _)
Walk(s, t, keep, result) ==
    IF s = <<>> \/ t = <<>>
    THEN FoldLeft(PushElement, result,
                  (IF "first" \in keep THEN s ELSE <<>>)
                      \o (IF "second" \in keep THEN t ELSE <<>>))
    ELSE LET who == IF s[1] < t[1] THEN "first"
                    ELSE IF s[1] > t[1] THEN "second" ELSE "both"
             v == IF who = "second" THEN t[1] ELSE s[1]
         IN Walk(IF who = "second" THEN s ELSE Tail(s),
                 IF who = "first" THEN t ELSE Tail(t),
                 keep,
                 IF who \in keep THEN PushElement(result, v) ELSE result)

SetUnion(type, s, t) ==
    IF ~SetMember(s) \/ ~SetMember(t) THEN <<kSetBad>>
    ELSE IF SetEq(type, s, EmptySet) THEN t
    ELSE IF SetEq(type, t, EmptySet) THEN s
    ELSE IF SetEq(type, s, UnivSet) THEN s
    ELSE IF SetEq(type, t, UnivSet) THEN t
    ELSE Walk(s, t, {"first", "second", "both"}, <<>>)

SetIntersect(type, s, t) ==
    IF ~SetMember(s) \/ ~SetMember(t) THEN <<kSetBad>>
    ELSE IF SetEq(type, s, EmptySet) THEN s
    ELSE IF SetEq(type, t, EmptySet) THEN t
    ELSE IF SetEq(type, s, UnivSet) THEN t
    ELSE IF SetEq(type, t, UnivSet) THEN s
    ELSE Walk(s, t, {"both"}, <<>>)

SetDifference(type, s, t) ==
    IF ~SetMember(s) \/ ~SetMember(t) THEN <<kSetBad>>
    ELSE IF SetEq(type, s, EmptySet) THEN s
    ELSE IF SetEq(type, t, EmptySet) THEN s
    ELSE IF SetEq(type, t, UnivSet) THEN EmptySet
    ELSE Walk(s, t, {"first"}, <<>>)

SetZero(type) == IF type = "union_intersect" THEN EmptySet ELSE UnivSet
SetOne(type) == IF type = "union_intersect" THEN UnivSet ELSE EmptySet

SetPlus(type, s, t) ==
    CASE type = "intersect_union" -> SetIntersect(type, s, t)
      [] type = "union_intersect" -> SetUnion(type, s, t)
      [] ~SetMember(s) \/ ~SetMember(t) -> <<kSetBad>>
      [] type = "restrict" ->
             IF SetEq(type, s, SetZero(type)) THEN t
             ELSE IF SetEq(type, t, SetZero(type)) THEN s
             ELSE IF s # t THEN <<kSetBad>> ELSE s
      [] type = "boolean" ->
             IF SetEq(type, s, SetOne(type)) THEN s
             ELSE IF SetEq(type, t, SetOne(type)) THEN t ELSE SetZero(type)

SetTimes(type, s, t) ==
    CASE type \in {"intersect_union", "restrict"} -> SetUnion(type, s, t)
      [] type = "union_intersect" -> SetIntersect(type, s, t)
      [] ~SetMember(s) \/ ~SetMember(t) -> <<kSetBad>>
      [] type = "boolean" -> IF SetEq(type, s, SetOne(type)) THEN t ELSE s

SetDivide(type, s, t) ==
    CASE type \in {"intersect_union", "restrict"} -> SetDifference(type, s, t)
      [] ~SetMember(s) \/ ~SetMember(t) -> <<kSetBad>>
      [] type = "union_intersect" -> IF SetEq(type, s, t) THEN UnivSet ELSE s
      [] type = "boolean" ->
             IF SetEq(type, s, SetOne(type)) THEN s
             ELSE IF SetEq(type, t, SetZero(type)) THEN SetOne(type)
             ELSE SetZero(type)


-----------------------------------------------------------------------------
(***************************************************************************)
(* The classes that are not made of other weights.                         *)
(***************************************************************************)
BasePlus(k, a, b) ==
    CASE k.weight = "tropical" -> TropicalPlus(a, b)
      [] k.weight = "minmax" -> MinMaxPlus(a, b)
      [] k.weight = "real" -> AddFloats(a, b)
      [] k.weight = "log" -> LogPlus(a, b)
      [] k.weight = "signed_log" -> SignedPlus(a, b)
      [] k.weight = "string" -> StringPlus(k.type, a, b)
      [] k.weight = "set" -> SetPlus(k.type, a, b)

\* Minus is no part of the interface; these classes have it.
BaseMinus(k, a, b) ==
    CASE k.weight = "real" -> AddFloats(a, Negated(b))
      [] k.weight = "log" -> LogMinus(a, b)
      [] k.weight = "signed_log" -> SignedMinus(a, b)

BaseTimes(k, a, b) ==
    CASE k.weight = "tropical" -> TropicalTimes(a, b)
      [] k.weight = "minmax" -> MinMaxTimes(a, b)
      [] k.weight = "real" -> MultiplyFloats(a, b)
      [] k.weight = "log" -> LogTimes(a, b)
      [] k.weight = "signed_log" -> SignedTimes(a, b)
      [] k.weight = "string" -> StringTimes(a, b)
      [] k.weight = "set" -> SetTimes(k.type, a, b)

BaseDivide(k, a, b, dir) ==
    CASE k.weight = "tropical" -> TropicalDivide(a, b)
      [] k.weight = "minmax" -> MinMaxDivide(a, b)
      [] k.weight = "real" -> RealDivide(a, b)
      [] k.weight = "log" -> LogDivide(a, b)
      [] k.weight = "signed_log" -> SignedDivide(a, b)
      [] k.weight = "string" -> StringDivide(k.type, a, b, dir)
      [] k.weight = "set" -> SetDivide(k.type, a, b)

\* NaturalLess of a weight with the path property.
NaturalLess(k, a, b) ==
    CASE k.weight = "tropical" -> TropicalLess(a, b)
      [] k.weight = "minmax" -> LessFloats(a, b)

-----------------------------------------------------------------------------
(***************************************************************************)
(* Zero, One, NoWeight, Member, == and Properties of every class.  Pairs   *)
(* of weights are records [v1, v2].                                        *)
(***************************************************************************)
Floats == {"tropical", "minmax", "real", "log"}
Simple == Floats \cup {"signed_log", "string", "set"}
Pairs == {"product", "gallic", "lexicographic", "expectation"}

\* A sparse tuple: a default and the components that differ from it.
Sparse(default, pairs) == [default |-> default, pairs |-> pairs]

RECURSIVE Zero(_)
Zero(k) ==
    CASE k.weight \in {"tropical", "minmax"} -> Inf
      [] k.weight \in {"real", "log"} -> 0
      [] k.weight = "signed_log" -> Signed(1, 0)
      [] k.weight = "string" -> <<kStringInfinity>>
      [] k.weight = "set" -> SetZero(k.type)
      [] k.weight \in Pairs -> [v1 |-> Zero(k.first), v2 |-> Zero(k.second)]
      [] k.weight = "union" -> <<>>
      [] k.weight = "power" -> [i \in 1 .. k.n |-> Zero(k.of)]
      [] k.weight = "sparse" -> Sparse(Zero(k.of), <<>>)

RECURSIVE One(_)
One(k) ==
    CASE k.weight = "tropical" -> 0
      [] k.weight = "minmax" -> NegInf
      [] k.weight \in {"real", "log"} -> 1
      [] k.weight = "signed_log" -> Signed(1, 1)
      [] k.weight = "string" -> <<>>
      [] k.weight = "set" -> SetOne(k.type)
      [] k.weight = "expectation" -> [v1 |-> One(k.first), v2 |-> Zero(k.second)]
      [] k.weight \in Pairs -> [v1 |-> One(k.first), v2 |-> One(k.second)]
      [] k.weight = "union" -> <<One(k.of)>>
      [] k.weight = "power" -> [i \in 1 .. k.n |-> One(k.of)]
      [] k.weight = "sparse" -> Sparse(One(k.of), <<>>)

RECURSIVE NoWeight(_)
NoWeight(k) ==
    CASE k.weight \in Floats -> NaN
      [] k.weight = "signed_log" -> Signed(1, NaN)
      [] k.weight = "string" -> <<kStringBad>>
      [] k.weight = "set" -> <<kSetBad>>
      [] k.weight \in Pairs -> [v1 |-> NoWeight(k.first), v2 |-> NoWeight(k.second)]
      [] k.weight = "union" -> <<Zero(k.of), NoWeight(k.of)>>
      [] k.weight = "power" -> [i \in 1 .. k.n |-> NoWeight(k.of)]
      [] k.weight = "sparse" -> Sparse(NoWeight(k.of), <<>>)

\* The walk over the pairs of two weights that the map and == share: the
\* keys of either, with the two values.
RECURSIVE Zipped(_, _, _, _)
Zipped(p, q, pdefault, qdefault) ==
    IF p = <<>> /\ q = <<>> THEN <<>>
    ELSE LET k1 == IF p = <<>> THEN q[1].key ELSE p[1].key
             k2 == IF q = <<>> THEN p[1].key ELSE q[1].key
             v1 == IF p = <<>> \/ k2 < k1 THEN pdefault ELSE p[1].value
             v2 == IF q = <<>> \/ k1 < k2 THEN qdefault ELSE q[1].value
         IN <<[key |-> IF k2 < k1 THEN k2 ELSE k1, v1 |-> v1, v2 |-> v2]>>
                \o Zipped(IF p = <<>> \/ k2 < k1 THEN p ELSE Tail(p),
                          IF q = <<>> \/ k1 < k2 THEN q ELSE Tail(q),
                          pdefault, qdefault)

RECURSIVE Eq(_, _, _)
Eq(k, a, b) ==
    CASE k.weight \in Floats -> EqFloats(a, b)
      [] k.weight = "signed_log" -> SignedEq(a, b)
      [] k.weight = "string" -> a = b
      [] k.weight = "set" -> SetEq(k.type, a, b)
      [] k.weight \in Pairs -> Eq(k.first, a.v1, b.v1) /\ Eq(k.second, a.v2, b.v2)
      [] k.weight = "union" ->
             /\ Len(a) = Len(b)
             /\ \A i \in 1 .. Len(a) : Eq(k.of, a[i], b[i])
      [] k.weight = "power" -> \A i \in 1 .. k.n : Eq(k.of, a[i], b[i])
      [] k.weight = "sparse" ->
             /\ Eq(k.of, a.default, b.default)
             /\ LET both == Zipped(a.pairs, b.pairs, a.default, b.default)
                IN \A i \in 1 .. Len(both) : Eq(k.of, both[i].v1, both[i].v2)

RECURSIVE Member(_, _)
Member(k, a) ==
    CASE k.weight \in {"tropical", "real"} -> IsGreaterThanNegInf(a)
      [] k.weight = "minmax" -> a # NaN
      [] k.weight = "log" -> LogMember(a)
      [] k.weight = "signed_log" -> SignedMember(a)
      [] k.weight = "string" -> StringMember(a)
      [] k.weight = "set" -> SetMember(a)
      [] k.weight \in Pairs ->
             /\ Member(k.first, a.v1) /\ Member(k.second, a.v2)
             /\ k.weight = "lexicographic" =>
                    (Eq(k.first, a.v1, Zero(k.first))
                         <=> Eq(k.second, a.v2, Zero(k.second)))
      [] k.weight = "union" -> \A i \in 2 .. Len(a) : Member(k.of, a[i])
      [] k.weight = "power" -> \A i \in 1 .. k.n : Member(k.of, a[i])
      [] k.weight = "sparse" ->
             /\ Member(k.of, a.default)
             /\ \A i \in 1 .. Len(a.pairs) : Member(k.of, a.pairs[i].value)

\* The classes claim these of their operations; left and right stand for the
\* semirings that distribute on that side.
RECURSIVE Properties(_)
Properties(k) ==
    CASE k.weight \in {"tropical", "minmax"} ->
             {"left", "right", "commutative", "path", "idempotent"}
      [] k.weight \in {"real", "log", "signed_log"} -> {"left", "right", "commutative"}
      [] k.weight = "string" -> StringProperties(k.type)
      [] k.weight = "set" -> {"idempotent", "left", "right", "commutative"}
      [] k.weight = "lexicographic" -> Properties(k.first) \cap Properties(k.second)
      [] k.weight \in Pairs ->
             (Properties(k.first) \cap Properties(k.second)) \ {"path"}
      [] k.weight \in {"union", "power", "sparse"} -> Properties(k.of) \ {"path"}

-----------------------------------------------------------------------------
(***************************************************************************)
(* Products of two weights: product, gallic and lexicographic weights.     *)
(***************************************************************************)
LexicographicPlus(k, a, b) ==
    IF ~Member(k, a) \/ ~Member(k, b) THEN NoWeight(k)
    ELSE IF NaturalLess(k.first, a.v1, b.v1) THEN a
    ELSE IF NaturalLess(k.first, b.v1, a.v1) THEN b
    ELSE IF NaturalLess(k.second, a.v2, b.v2) THEN a
    ELSE IF NaturalLess(k.second, b.v2, a.v2) THEN b
    ELSE a

PairPlus(k, a, b) ==
    CASE k.weight = "lexicographic" -> LexicographicPlus(k, a, b)
      [] k.weight = "gallic" /\ k.type = "min" ->
             IF NaturalLess(k.second, a.v2, b.v2) THEN a ELSE b
      [] OTHER -> [v1 |-> BasePlus(k.first, a.v1, b.v1),
                   v2 |-> BasePlus(k.second, a.v2, b.v2)]

PairTimes(k, a, b) ==
    [v1 |-> BaseTimes(k.first, a.v1, b.v1), v2 |-> BaseTimes(k.second, a.v2, b.v2)]

PairDivide(k, a, b, dir) ==
    [v1 |-> BaseDivide(k.first, a.v1, b.v1, dir),
     v2 |-> BaseDivide(k.second, a.v2, b.v2, dir)]

\* Reverse of a gallic weight over a tropical weight.
PairReverse(a) == [v1 |-> Reverse(a.v1), v2 |-> a.v2]

-----------------------------------------------------------------------------
(***************************************************************************)
(* Union weights: the sequence of elements first_, rest_, empty for Zero;  *)
(* k.of is the kind of the elements, a restricted gallic weight, Compare   *)
(* and Merge the options of the general gallic weight.                     *)
(***************************************************************************)
Merge(k, a, b) == [v1 |-> a.v1, v2 |-> BasePlus(k.second, a.v2, b.v2)]

PushBack(k, u, a, srt) ==
    IF ~Member(k.of, a) THEN Append(IF u = <<>> THEN <<Zero(k.of)>> ELSE u, a)
    ELSE IF u = <<>> THEN <<a>>
    ELSE IF srt
    THEN IF Compare(Last(u), a) THEN Append(u, a)
         ELSE Append(Front(u), Merge(k.of, Last(u), a))
    ELSE IF Compare(u[1], a) THEN Append(u, a)
    ELSE <<a>> \o Tail(u) \o <<u[1]>>

UnionOf(k, elements) ==
    FoldLeft(LAMBDA u, a : PushBack(k, u, a, TRUE), <<>>, elements)

\* The order in which Plus takes the elements: the second weight's first
\* when neither is less.
RECURSIVE Interleaved(_, _)
Interleaved(u, v) ==
    IF u = <<>> \/ v = <<>> THEN u \o v
    ELSE IF Compare(u[1], v[1]) THEN <<u[1]>> \o Interleaved(Tail(u), v)
    ELSE <<v[1]>> \o Interleaved(u, Tail(v))

UnionPlus(k, u, v) ==
    IF ~Member(k, u) \/ ~Member(k, v) THEN NoWeight(k)
    ELSE IF u = <<>> THEN v
    ELSE IF v = <<>> THEN u
    ELSE UnionOf(k, Interleaved(u, v))

UnionTimes(k, u, v) ==
    IF ~Member(k, u) \/ ~Member(k, v) THEN NoWeight(k)
    ELSE IF u = <<>> \/ v = <<>> THEN <<>>
    ELSE FoldLeft(LAMBDA prod1, a :
                      UnionPlus(k, prod1,
                          UnionOf(k, [j \in 1 .. Len(v) |-> PairTimes(k.of, a, v[j])])),
                  <<>>, u)

\* A bug in which a weight of several elements is divided by the first
\* element of a divisor of several.
UnionDivideFirst(k, u, v, dir) ==
    IF ~Member(k, u) \/ ~Member(k, v) THEN NoWeight(k)
    ELSE IF u = <<>> \/ v = <<>> THEN <<>>
    ELSE IF Len(u) = 1
    THEN UnionOf(k, [j \in 1 .. Len(v) |->
                        PairDivide(k.of, u[1], v[Len(v) + 1 - j], dir)])
    ELSE UnionOf(k, [i \in 1 .. Len(u) |-> PairDivide(k.of, u[i], v[1], dir)])

UnionDivide(k, u, v, dir) ==
    IF ~Member(k, u) \/ ~Member(k, v) THEN NoWeight(k)
    ELSE IF u = <<>> \/ v = <<>> THEN <<>>
    ELSE IF Len(u) = 1
    THEN UnionOf(k, [j \in 1 .. Len(v) |->
                        PairDivide(k.of, u[1], v[Len(v) + 1 - j], dir)])
    ELSE IF Len(v) = 1
    THEN UnionOf(k, [i \in 1 .. Len(u) |-> PairDivide(k.of, u[i], v[1], dir)])
    ELSE NoWeight(k)

\* Reverse pushes unsorted, which keeps the least element first, and sorts
\* the rest.
UnionReverse(k, u) ==
    LET pushed == FoldLeft(LAMBDA r, a :
                      PushBack(k, r, PairReverse(a), FALSE), <<>>, u)
    IN IF pushed = <<>> THEN <<>>
       ELSE <<pushed[1]>> \o SortSeq(Tail(pushed), Compare)

-----------------------------------------------------------------------------
(***************************************************************************)
(* Sparse tuple weights: a default and the pairs [key, value], in order of *)
(* their keys, of the components that differ from it.                      *)
(***************************************************************************)
PushPair(k, a, key, value) ==
    IF Eq(k.of, value, a.default) THEN a
    ELSE [a EXCEPT !.pairs = Append(@, [key |-> key, value |-> value])]

\* Value.
Component(a, key) ==
    LET at == {i \in 1 .. Len(a.pairs) : a.pairs[i].key >= key} IN
    IF at # {} /\ a.pairs[Min(at)].key = key
    THEN a.pairs[Min(at)].value ELSE a.default

SetValueToNonDefault(a, key, value) ==
    LET before == SelectSeq(a.pairs, LAMBDA p : p.key < key)
        after == SubSeq(a.pairs, Len(before) + 1, Len(a.pairs))
        new == <<[key |-> key, value |-> value]>>
    IN [a EXCEPT !.pairs =
            IF after # <<>> /\ after[1].key = key
            THEN before \o new \o Tail(after) ELSE before \o new \o after]

ClearValue(a, key) ==
    LET before == SelectSeq(a.pairs, LAMBDA p : p.key < key)
        after == SubSeq(a.pairs, Len(before) + 1, Len(a.pairs))
    IN [a EXCEPT !.pairs =
            IF after # <<>> /\ after[1].key = key THEN before \o Tail(after) ELSE @]

\* A bug in which a component that is set to the default keeps its pair.
SetValueKeeping(k, a, key, value) == SetValueToNonDefault(a, key, value)

SetValue(k, a, key, value) ==
    IF Eq(k.of, value, a.default) THEN ClearValue(a, key)
    ELSE SetValueToNonDefault(a, key, value)

\* The operation that SparsePowerWeightMap applies to two components.
Mapped(op, k, a, b) ==
    CASE op = "plus" -> BasePlus(k, a, b)
      [] op = "minus" -> BaseMinus(k, a, b)
      [] op = "times" -> BaseTimes(k, a, b)
      [] OTHER -> IF Eq(k, a, Zero(k)) /\ Eq(k, b, Zero(k)) THEN Zero(k)
                  ELSE BaseDivide(k, a, b, op)

SparseTupleWeightMap(op, k, a, b) ==
    FoldLeft(LAMBDA r, z : PushPair(k, r, z.key, Mapped(op, k.of, z.v1, z.v2)),
             Sparse(Mapped(op, k.of, a.default, b.default), <<>>),
             Zipped(a.pairs, b.pairs, a.default, b.default))

\* The products and the quotient of a sparse weight and a scalar, which an
\* expectation weight uses.
ScalarTimes(k, scalar, a) ==
    SparseTupleWeightMap("times", k, Sparse(scalar, <<>>), a)
TimesScalar(k, a, scalar) ==
    SparseTupleWeightMap("times", k, a, Sparse(scalar, <<>>))
DivideScalar(k, a, scalar, dir) ==
    SparseTupleWeightMap(dir, k, a, Sparse(scalar, <<>>))


-----------------------------------------------------------------------------
(***************************************************************************)
(* Expectation weights: a weight, and a weight or sparse weight over it.   *)
(***************************************************************************)
IsSparse(k) == k.weight = "sparse"

ExpectationPlus(k, a, b) ==
    [v1 |-> BasePlus(k.first, a.v1, b.v1),
     v2 |-> IF IsSparse(k.second) THEN SparseTupleWeightMap("plus", k.second, a.v2, b.v2)
            ELSE BasePlus(k.second, a.v2, b.v2)]

\* The product of a scalar and a weight of the second kind, on either side.
ScaleRight(k, a, b) ==
    IF IsSparse(k) THEN ScalarTimes(k, a, b) ELSE BaseTimes(k, a, b)
ScaleLeft(k, a, b) ==
    IF IsSparse(k) THEN TimesScalar(k, a, b) ELSE BaseTimes(k, a, b)

ExpectationTimes(k, a, b) ==
    LET first == ScaleRight(k.second, a.v1, b.v2)
        second == ScaleLeft(k.second, a.v2, b.v1)
    IN [v1 |-> BaseTimes(k.first, a.v1, b.v1),
        v2 |-> IF IsSparse(k.second)
               THEN SparseTupleWeightMap("plus", k.second, first, second)
               ELSE BasePlus(k.second, first, second)]

ExpectationDivide(k, a, b, dir) ==
    LET q1 == BaseDivide(k.first, a.v1, b.v1, dir)
        taken == IF dir = "left" THEN ScaleLeft(k.second, b.v2, q1)
                 ELSE ScaleRight(k.second, q1, b.v2)
    IN [v1 |-> q1,
        v2 |-> IF IsSparse(k.second)
               THEN DivideScalar(k.second,
                        SparseTupleWeightMap("minus", k.second, a.v2, taken), b.v1, dir)
               ELSE BaseDivide(k.second, BaseMinus(k.second, a.v2, taken), b.v1, dir)]

-----------------------------------------------------------------------------
(***************************************************************************)
(* Plus, Times, Divide and Power of every class.                           *)
(***************************************************************************)
Plus(k, a, b) ==
    CASE k.weight \in Simple -> BasePlus(k, a, b)
      [] k.weight = "expectation" -> ExpectationPlus(k, a, b)
      [] k.weight \in Pairs \ {"expectation"} -> PairPlus(k, a, b)
      [] k.weight = "union" -> UnionPlus(k, a, b)
      [] k.weight = "power" -> [i \in 1 .. k.n |-> BasePlus(k.of, a[i], b[i])]
      [] k.weight = "sparse" -> SparseTupleWeightMap("plus", k, a, b)

Times(k, a, b) ==
    CASE k.weight \in Simple -> BaseTimes(k, a, b)
      [] k.weight = "expectation" -> ExpectationTimes(k, a, b)
      [] k.weight \in Pairs \ {"expectation"} -> PairTimes(k, a, b)
      [] k.weight = "union" -> UnionTimes(k, a, b)
      [] k.weight = "power" -> [i \in 1 .. k.n |-> BaseTimes(k.of, a[i], b[i])]
      [] k.weight = "sparse" -> SparseTupleWeightMap("times", k, a, b)

Divide(k, a, b, dir) ==
    CASE k.weight \in Simple -> BaseDivide(k, a, b, dir)
      [] k.weight = "expectation" -> ExpectationDivide(k, a, b, dir)
      [] k.weight \in Pairs \ {"expectation"} -> PairDivide(k, a, b, dir)
      [] k.weight = "union" -> UnionDivide(k, a, b, dir)
      [] k.weight = "power" -> [i \in 1 .. k.n |-> BaseDivide(k.of, a[i], b[i], dir)]
      [] k.weight = "sparse" -> SparseTupleWeightMap(dir, k, a, b)

\* Power multiplies n times; the float weights compute it directly.
RECURSIVE IteratedProduct(_, _, _)
IteratedProduct(k, a, n) ==
    IF n = 0 THEN One(k) ELSE Times(k, IteratedProduct(k, a, n - 1), a)

Power(k, a, n) ==
    IF k.weight \in {"tropical", "log", "real"}
    THEN IF ~Member(k, a) THEN NoWeight(k)
         ELSE IF n = 0 \/ Eq(k, a, One(k)) THEN One(k)
         ELSE IF k.weight = "tropical" THEN MultiplyFloats(a, n) ELSE a ^ n
    ELSE IteratedProduct(k, a, n)

-----------------------------------------------------------------------------
(***************************************************************************)
(* Reverse, Hash, Read, Write and Adder.                                   *)
(***************************************************************************)
RECURSIVE ReverseKind(_)
ReverseKind(k) ==
    CASE k.weight = "string" -> [k EXCEPT !.type = ReverseStringType(@)]
      [] k.weight = "gallic" -> [k EXCEPT !.type = ReverseStringType(@),
                                          !.first = ReverseKind(@)]
      [] OTHER -> k

RECURSIVE ReverseOf(_, _)
ReverseOf(k, a) ==
    CASE k.weight = "string" -> Reverse(a)
      [] k.weight \in Pairs -> [v1 |-> ReverseOf(k.first, a.v1),
                                v2 |-> ReverseOf(k.second, a.v2)]
      [] k.weight = "union" -> UnionReverse(k, a)
      [] k.weight = "power" -> [i \in 1 .. k.n |-> ReverseOf(k.of, a[i])]
      [] k.weight = "sparse" ->
             FoldLeft(LAMBDA r, p : PushPair(k, r, p.key, ReverseOf(k.of, p.value)),
                      Sparse(ReverseOf(k.of, a.default), <<>>), a.pairs)
      [] OTHER -> a

\* What the hash is computed from.
RECURSIVE HashKey(_, _)
HashKey(k, a) ==
    CASE k.weight \in Floats -> a
      [] k.weight = "signed_log" ->
             <<IF EqFloats(a.v2, 0) \/ IsPositive(a) THEN 1 ELSE -1, a.v2>>
      [] k.weight = "string" -> a
      [] k.weight = "set" ->
             IF k.type # "boolean" THEN a
             ELSE IF SetEq(k.type, a, SetZero(k.type)) THEN <<0>> ELSE <<1>>
      [] k.weight \in Pairs -> <<HashKey(k.first, a.v1), HashKey(k.second, a.v2)>>
      [] k.weight = "union" -> [i \in 1 .. Len(a) |-> HashKey(k.of, a[i])]
      [] k.weight = "power" -> [i \in 1 .. k.n |-> HashKey(k.of, a[i])]
      [] k.weight = "sparse" -> [i \in 1 .. Len(a.pairs) |->
             <<a.pairs[i].key, HashKey(k.of, a.pairs[i].value)>>]

kNoKey == -1

\* Write: the numbers of the binary representation.
RECURSIVE Written(_, _)
Written(k, a) ==
    CASE k.weight \in Floats -> <<a>>
      [] k.weight \in {"string", "set"} -> <<Len(a)>> \o a
      [] k.weight = "signed_log" -> <<a.v1, a.v2>>
      [] k.weight \in Pairs -> Written(k.first, a.v1) \o Written(k.second, a.v2)
      [] k.weight = "union" ->
             <<Len(a)>> \o FlattenSeq([i \in 1 .. Len(a) |-> Written(k.of, a[i])])
      [] k.weight = "power" -> FlattenSeq([i \in 1 .. k.n |-> Written(k.of, a[i])])
      [] k.weight = "sparse" ->
             LET Pair(p) == <<p.key>> \o Written(k.of, p.value)
                 first == IF a.pairs = <<>>
                          THEN Pair([key |-> kNoKey, value |-> NoWeight(k.of)])
                          ELSE Pair(a.pairs[1])
                 rest == IF a.pairs = <<>> THEN <<>> ELSE Tail(a.pairs)
             IN Written(k.of, a.default) \o first \o <<Len(rest)>>
                    \o FlattenSeq([i \in 1 .. Len(rest) |-> Pair(rest[i])])

Taken(weight, rest) == [weight |-> weight, rest |-> rest]

\* n weights, or n pairs of a key and a weight.
RECURSIVE ReadFrom(_, _), ReadMany(_, _, _), ReadPairs(_, _, _)
ReadMany(k, n, stream) ==
    IF n = 0 THEN Taken(<<>>, stream)
    ELSE LET head == ReadFrom(k, stream)
             others == ReadMany(k, n - 1, head.rest)
         IN Taken(<<head.weight>> \o others.weight, others.rest)

ReadPairs(k, n, stream) ==
    IF n = 0 THEN Taken(<<>>, stream)
    ELSE LET head == ReadFrom(k, Tail(stream))
             others == ReadPairs(k, n - 1, head.rest)
         IN Taken(<<[key |-> stream[1], value |-> head.weight]>> \o others.weight,
                  others.rest)

\* Read: the weight and what is left of the stream.
ReadFrom(k, stream) ==
    CASE k.weight \in Floats -> Taken(stream[1], Tail(stream))
      [] k.weight = "signed_log" ->
             Taken(Signed(stream[1], stream[2]), SubSeq(stream, 3, Len(stream)))
      [] k.weight \in {"string", "set"} ->
             LET labels == SubSeq(stream, 2, stream[1] + 1)
             IN Taken(FoldLeft(LAMBDA s, label :
                          IF k.weight = "string" THEN PushLabel(s, label)
                          ELSE PushElement(s, label), <<>>, labels),
                      SubSeq(stream, stream[1] + 2, Len(stream)))
      [] k.weight \in Pairs ->
             LET v1 == ReadFrom(k.first, stream)
                 v2 == ReadFrom(k.second, v1.rest)
             IN Taken([v1 |-> v1.weight, v2 |-> v2.weight], v2.rest)
      [] k.weight = "union" ->
             LET read == ReadMany(k.of, stream[1], Tail(stream))
             IN Taken(UnionOf(k, read.weight), read.rest)
      [] k.weight = "power" -> ReadMany(k.of, k.n, stream)
      [] k.weight = "sparse" ->
             LET default == ReadFrom(k.of, stream)
                 first == ReadPairs(k.of, 1, default.rest)
                 others == ReadPairs(k.of, first.rest[1], Tail(first.rest))
                 kept == SelectSeq(first.weight, LAMBDA p : p.key # kNoKey)
             IN Taken(Sparse(default.weight, kept \o others.weight), others.rest)

\* Adder(w): the product and expectation adders keep one adder per component.
RECURSIVE NewAdder(_, _)
NewAdder(k, a) ==
    CASE k.weight \in {"product", "expectation"} ->
             [v1 |-> NewAdder(k.first, a.v1), v2 |-> NewAdder(k.second, a.v2)]
      [] k.weight = "signed_log" -> [ssum |-> IsPositive(a), sum |-> a.v2]
      [] OTHER -> a

RECURSIVE AdderSum(_, _)
AdderSum(k, s) ==
    CASE k.weight \in {"product", "expectation"} ->
             [v1 |-> AdderSum(k.first, s.v1), v2 |-> AdderSum(k.second, s.v2)]
      [] k.weight = "signed_log" -> SignedAdderSum(s)
      [] OTHER -> s

RECURSIVE Added(_, _, _)
Added(k, s, a) ==
    CASE k.weight \in {"product", "expectation"} ->
             [v1 |-> Added(k.first, s.v1, a.v1), v2 |-> Added(k.second, s.v2, a.v2)]
      [] k.weight = "signed_log" -> SignedAdded(s, a)
      [] k.weight = "log" ->
             IF EqFloats(a, 0) THEN s
             ELSE IF EqFloats(s, 0) THEN a ELSE AddFloats(s, a)
      [] k.weight = "real" -> AddFloats(s, a)
      [] OTHER -> Plus(k, s, a)

-----------------------------------------------------------------------------
(***************************************************************************)
(* A program that computes with weights.                                   *)
(***************************************************************************)
\* Weights whose representation stays within the bound.
Bounded(k, a) ==
    LET numbers == Written(k, a) IN
    /\ Len(numbers) <= MaxSize
    /\ \A i \in 1 .. Len(numbers) :
           numbers[i] \in (-MaxSize .. MaxSize) \cup {Inf, NegInf}

DoPlus ==
    \E x \in Basic[kind] :
    \E sum \in {s \in {Plus(kind, w, x)} : Member(kind, s) /\ Bounded(kind, s)} :
        /\ w' = sum
        /\ adder' = Added(kind, adder, x)
        /\ UNCHANGED kind

DoTimes ==
    \E x \in Basic[kind] :
    \E p \in {q \in {Times(kind, w, x), Times(kind, x, w)} : Bounded(kind, q)} :
        /\ w' = p
        /\ adder' = NewAdder(kind, p)
        /\ UNCHANGED kind

DoReverse ==
    /\ kind' = ReverseKind(kind)
    /\ w' = ReverseOf(kind, w)
    /\ adder' = NewAdder(kind', w')

DoSetValue ==
    /\ kind.weight = "sparse"
    /\ \E key \in 0 .. 2, x \in Basic[kind] :
       \E set \in {s \in {SetValue(kind, w, key, Component(x, key))} : Bounded(kind, s)} :
           w' = set
    /\ adder' = NewAdder(kind, w')
    /\ UNCHANGED kind

Init ==
    /\ kind \in Kinds
    /\ w \in Basic[kind]
    /\ adder = NewAdder(kind, w)

Next == DoPlus \/ DoTimes \/ DoReverse \/ DoSetValue

Spec == Init /\ [][Next]_weightVars

-----------------------------------------------------------------------------
(***************************************************************************)
(* Properties.                                                             *)
(***************************************************************************)
\* The classes whose Plus refuses operands that differ, by NoWeight.
Partial(k) == k.weight \in {"string", "set", "gallic"} /\ k.type = "restrict"

\* Terms over the weights a, b, c and the constants, and their values.
A == <<"a">>
B == <<"b">>
C == <<"c">>
Z == <<"zero">>
I == <<"one">>
Bad == <<"bad">>
x ++ y == <<"plus", x, y>>
x ** y == <<"times", x, y>>
Left(x, y) == <<"left", x, y>>
Right(x, y) == <<"right", x, y>>
Both(x, y) == <<"both", x, y>>
Rev(x) == <<"reverse", x>>

\* The value of a term for weights of kind k.  What is reversed is computed
\* by the reverse class; Both is the pair of two values.
Applied(op, k, a, b) ==
    CASE op = "plus" -> Plus(k, a, b)
      [] op = "times" -> Times(k, a, b)
      [] op = "both" -> <<a, b>>
      [] OTHER -> Divide(k, a, b, op)

Constant(k, name) ==
    CASE name = "zero" -> Zero(k) [] name = "one" -> One(k) [] OTHER -> NoWeight(k)

RECURSIVE Value(_, _, _)
Value(k, term, env) ==
    CASE Len(term) = 1 -> IF term[1] \in DOMAIN env THEN env[term[1]]
                          ELSE Constant(k, term[1])
      [] Len(term) = 2 ->
             LET back == ReverseKind(k) IN
             CHOOSE v \in {ReverseOf(back, a) : a \in {Value(back, term[2], env)}} : TRUE
      [] OTHER ->
             CHOOSE v \in {Applied(term[1], k, p[1], p[2]) :
                              p \in {[i \in 1 .. 2 |-> Value(k, term[i + 1], env)]}} : TRUE

Law(needs, left, right) == [needs |-> needs, left |-> left, right |-> right]

\* weight.h 42-53 and 110-119; the tests also want NoWeight to be kept, for
\* which the right side is Bad.
Laws ==
    {Law({}, (A ++ B) ++ C, A ++ (B ++ C)),
     Law({}, (A ** B) ** C, A ** (B ** C)),
     Law({"commutative plus"}, A ++ B, B ++ A),
     Law({}, A ++ Z, A), Law({}, Z ++ A, A),
     Law({}, A ** I, A), Law({}, I ** A, A),
     Law({}, A ** Z, Z), Law({}, Z ** A, Z),
     Law({"left"}, A ** (B ++ C), (A ** B) ++ (A ** C)),
     Law({"right"}, (A ++ B) ** C, (A ** C) ++ (B ** C)),
     Law({"commutative"}, A ** B, B ** A),
     Law({"idempotent"}, A ++ A, A),
     Law({"commutative plus"}, A ++ Bad, Bad), Law({"commutative plus"}, Bad ++ A, Bad),
     Law({}, A ** Bad, Bad), Law({}, Bad ** A, Bad)}

\* weight.h 75-98: the quotient, and its product with the divisor, which is
\* the dividend when the quotient is a weight.
DivisionLaws ==
    {Law({"left"}, Left(A ** B, A), Both(A ** Left(A ** B, A), A ** B)),
     Law({"right"}, Right(A ** B, B), Both(Right(A ** B, B) ** B, A ** B))}

\* weight.h 105-109.
ReversalLaws ==
    {Law({}, Rev(Rev(A)), A),
     Law({}, Rev(Rev(A) ++ Rev(B)), A ++ B),
     Law({}, Rev(Rev(B) ** Rev(A)), A ** B)}

\* Plus of min gallic weights keeps either of two weights that differ only
\* in the string, the second, and NoWeight may be lost in it.
Claims(k) ==
    Properties(k) \cup
        (IF k.weight = "gallic" /\ k.type = "min" THEN {} ELSE {"commutative plus"})

Environments(k) ==
    {[a |-> t[1], b |-> t[2], c |-> t[3]] :
         t \in UNION {{<<w, x, y>>, <<x, w, y>>, <<x, y, w>>} :
                         x \in Basic[k], y \in Basic[k]}}

\* The two sides of a law are the same weight, Plus of a restricted class
\* may refuse, and then nothing is said; a left side that has to be refused;
\* a product that has to be the dividend.
Obeyed(k, law, left, right) ==
    CASE law.right = Bad -> ~Member(k, left) /\ ~Member(k, right)
      [] law.right[1] = "both" -> Member(k, left) => Eq(k, right[1], right[2])
      [] Partial(k) -> Member(k, left) /\ Member(k, right) => Eq(k, left, right)
      [] OTHER -> Member(k, left) /\ Eq(k, left, right)

Hold(k, laws) ==
    \A law \in {l \in laws : l.needs \subseteq Claims(k)}, env \in Environments(k) :
    \A sides \in {Value(k, Both(law.left, law.right), env)} :
        Obeyed(k, law, sides[1], sides[2])

\* The contract of weight.h for every class, for weights that a sequence of
\* operations has reached, against all the operands: Plus and Times are
\* closed and associative, Plus is commutative, Zero and One are their
\* identities and Zero annihilates, the properties the class claims hold, and
\* NoWeight is kept by every operation; a product divided by its left factor
\* gives a weight whose product with that factor is the same, unless it is
\* refused, and on the right in the same way; Reverse is an involution that
\* keeps sums and turns products around; Power is the iterated product.
SemiringLaws ==
    /\ Hold(kind, Laws \cup DivisionLaws \cup ReversalLaws)
    /\ "path" \in Properties(kind) =>
           \A x \in Basic[kind] : \A sum \in {Plus(kind, w, x)} :
               Eq(kind, sum, w) \/ Eq(kind, sum, x)
    /\ \A n \in 0 .. 3 :
       \A power \in {Power(kind, w, n)}, product \in {IteratedProduct(kind, w, n)} :
           Eq(kind, power, product)

\* An Adder, which keeps its sum in a form of its own, gives the sum that
\* Plus computes; equal weights have equal hashes, which the hash tables of
\* the library rely on; and a weight that is written and read again is the
\* same, with nothing of the stream left over.
WeightsKept ==
    /\ Eq(kind, AdderSum(kind, adder), w)
    /\ \A x \in Basic[kind] :
           LET y == Plus(kind, w, x) IN
           /\ Eq(kind, w, x) => HashKey(kind, w) = HashKey(kind, x)
           /\ Eq(kind, y, w) => HashKey(kind, y) = HashKey(kind, w)
    /\ LET read == ReadFrom(kind, Written(kind, w))
       IN Eq(kind, read.weight, w) /\ read.rest = <<>>
=============================================================================
