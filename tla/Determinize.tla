---------------------------- MODULE Determinize -----------------------------
(***************************************************************************)
(* Determinization (determinize.h) with gallic weights (string-weight.h)   *)
(* and the factoring of what is left over at the end of a path             *)
(* (factor-weight.h).                                                      *)
(*                                                                         *)
(* A gallic weight gives output strings their costs.  It has one string    *)
(* for a functional machine, and for the weights of an acceptor that is    *)
(* the empty string: one construction serves both, as the common divisor   *)
(* is then the common divisor of the costs.                                *)
(***************************************************************************)
EXTENDS ShortestPath

Gallic(string, w) == string :> w
GZero == [x \in {} |-> Zero]
GOne == Gallic(<<>>, One)
IsZero(v) == DOMAIN v = {}

\* GALLIC_RESTRICT and GALLIC unite the strings; for the former two strings
\* are an error.  GALLIC_MIN keeps the cheaper string, of two equals the second.
GPlus(type, v, w) ==
    IF type = "DETERMINIZE_DISAMBIGUATE"
    THEN IF PlusAll(Range(v)) < PlusAll(Range(w)) THEN v ELSE w
    ELSE [x \in DOMAIN v \cup DOMAIN w |->
            PlusAll({u[x] : u \in {y \in {v, w} : x \in DOMAIN y}})]

GTimes(v, w) ==
    LET pairs == (DOMAIN v) \X (DOMAIN w)
    IN  [x \in {p[1] \o p[2] : p \in pairs} |->
            PlusAll({Times(v[p[1]], w[p[2]]) : p \in {q \in pairs : q[1] \o q[2] = x}})]

\* Left division by the weight of a single string, a prefix of all others.
GDivide(v, string, w) ==
    LET Rest(x) == SubSeq(x, Len(string) + 1, Len(x))
    IN  [y \in {Rest(x) : x \in DOMAIN v} |-> Divide(v[string \o y], w)]

\* LabelCommonDivisor: at most one letter, the first of every string.
LabelCommonDivisor(strings) ==
    LET first == {IF x = <<>> THEN 0 ELSE x[1] : x \in strings}
    IN  IF Cardinality(first) = 1 THEN Symbol(CHOOSE l \in first : TRUE) ELSE <<>>

\* GallicCommonDivisor, of all the weights of a sequence.
CommonDivisor(weights) ==
    [string |-> LabelCommonDivisor(UNION {DOMAIN v : v \in Range(weights)}),
     weight |-> PlusAll(UNION {Range(v) : v \in Range(weights)})]

\* ToGallicMapper.
ToGallic(f) ==
    LET acceptor == IsAcceptor(f)
        Mapped(a) == [a EXCEPT !.weight =
                          Gallic(IF acceptor THEN <<>> ELSE Symbol(a.olabel), @)]
    IN  [start |-> f.start,
         final |-> [s \in States(f) |-> IF IsFinal(f, s) THEN Gallic(<<>>, f.final[s]) ELSE GZero],
         arcs |-> [s \in States(f) |-> MapSeq(f.arcs[s], Mapped)]]

-----------------------------------------------------------------------------
(* DeterminizeFsaImpl: a state is a subset, a sequence of states in their  *)
(* order, each with the weight that is still to be paid.                   *)

\* The elements that the arcs with a label lead to, the last one first.
GetLabelMap(f, subset, label) ==
    LET Onward(e) == MapSeq(SelectSeq(f.arcs[e[1]], LAMBDA a : a.ilabel = label),
                            LAMBDA a : << a.nextstate, GTimes(e[2], a.weight) >>)
    IN  Reverse(FlattenSeq(MapSeq(subset, Onward)))

\* The arc for a label takes the common divisor of all the elements, and what
\* is left of each is kept in the subset, with the same states merged.
NormArc(type, label, elements) ==
    LET SumAt(t) == FoldLeft(LAMBDA v, e : GPlus(type, v, e[2]), GZero,
                             SelectSeq(elements, LAMBDA e : e[1] = t))
        d == CommonDivisor(MapSeq(elements, LAMBDA e : e[2]))
    IN  [ilabel |-> label, olabel |-> d.string, weight |-> d.weight,
         nextstate |-> MapSeq(Ascending({e[1] : e \in Range(elements)}),
                              LAMBDA t : << t, GDivide(SumAt(t), d.string, d.weight) >>)]

FinalWeight(f, type, subset) ==
    FoldLeft(LAMBDA v, e : GPlus(type, v, GTimes(e[2], f.final[e[1]])), GZero, subset)

\* The machine of gallic weights; olabel holds the string of an arc's weight.
DeterminizeFsa(f, type) ==
    LET g == ToGallic(f)
        Labels(subset) ==
            Ascending({a.ilabel : a \in UNION {Range(g.arcs[e[1]]) : e \in Range(subset)}})
        Expanded(subset) ==
            MapSeq(Labels(subset), LAMBDA l : NormArc(type, l, GetLabelMap(g, subset, l)))
    IN  Delayed(<< << f.start, GOne >> >>, Expanded, LAMBDA s : FinalWeight(g, type, s))

\* The distance to the end of a path, from the distances in the input.
ComputeDistance(in_dist, subset) ==
    PlusAll({Times(PlusAll(Range(e[2])), in_dist[e[1]]) : e \in Range(subset)})

\* A functional machine never has a weight with two strings.
DeterminizeError(f, type) ==
    LET d == DeterminizeFsa(f, type)
        weights == Range(d.final) \cup UNION {{e[2] : e \in Range(s)} : s \in States(d)}
    IN  HasStart(f) /\ type = "DETERMINIZE_FUNCTIONAL" /\ \E v \in weights : Cardinality(DOMAIN v) > 1

-----------------------------------------------------------------------------
(* FactorWeightFst over final weights, and FromGallicMapper.               *)

\* The military order of strings.
StringLess(x, y) ==
    \/ Len(x) < Len(y)
    \/ Len(x) = Len(y) /\ \E i \in DOMAIN x : x[i] < y[i] /\ \A j \in 1 .. (i - 1) : x[j] = y[j]

\* GallicFactor: nothing to do for at most one string of at most one letter.
Factored(v) == IsZero(v) \/ (Cardinality(DOMAIN v) = 1 /\ \A x \in DOMAIN v : Len(x) <= 1)

\* States are subsets, or what is left of a string at the end of a path.
AtSubset(s) == << "subset", s >>
AtRest(string) == << "rest", string >>
Superfinal2 == << "superfinal" >>

\* The arcs that write the string of a final weight letter by letter; a single
\* letter goes to a superfinal state.
FinalArcs(v, label, increment) ==
    LET strings == SetToSortSeq(DOMAIN v, StringLess)
        Letter(x) == IF x = <<>> THEN 0 ELSE x[1]
        Written(i) == Arc(label + IF increment THEN i - 1 ELSE 0, Letter(strings[i]),
                          v[strings[i]], AtRest(SubSeq(strings[i], 2, Len(strings[i]))))
    IN  IF Factored(v)
        THEN MapSeq(SelectSeq(strings, LAMBDA x : x # <<>>),
                    LAMBDA x : Arc(label, x[1], v[x], Superfinal2))
        ELSE [i \in DOMAIN strings |-> Written(i)]

FinalCost(v) == IF Factored(v) /\ <<>> \in DOMAIN v THEN v[<<>>] ELSE Zero

FactorFinals(d, label, increment) ==
    LET Weight(s) == CASE s[1] = "subset" -> d.final[s[2]]
                       [] s[1] = "rest" -> Gallic(s[2], One)
                       [] s[1] = "superfinal" -> GOne
        Back(a) == Arc(a.ilabel, IF a.olabel = <<>> THEN 0 ELSE a.olabel[1],
                       a.weight, AtSubset(a.nextstate))
        ArcsAt(s) == (IF s[1] = "subset" THEN MapSeq(d.arcs[s[2]], Back) ELSE <<>>)
                     \o FinalArcs(Weight(s), label, increment)
    IN  Delayed(AtSubset(d.start), ArcsAt, LAMBDA s : FinalCost(Weight(s)))

DeterminizeTransducer(f, type, label, increment) ==
    FactorFinals(DeterminizeFsa(f, type), label, increment)

\* States numbered as a breadth-first traversal meets them.
Numbered(f) ==
    LET RECURSIVE Order(_, _)
        Order(order, i) ==
            IF i > Len(order) THEN order
            ELSE Order(FoldLeft(LAMBDA o, a : IF a.nextstate \in Range(o) THEN o
                                              ELSE Append(o, a.nextstate),
                                order, f.arcs[order[i]]), i + 1)
        Number(order, s) == (CHOOSE i \in DOMAIN order : order[i] = s) - 1
        By(order) ==
            [start |-> 0,
             final |-> [n \in 0 .. (Len(order) - 1) |-> f.final[order[n + 1]]],
             arcs |-> [n \in 0 .. (Len(order) - 1) |->
                         MapSeq(f.arcs[order[n + 1]], LAMBDA a : [a EXCEPT !.nextstate = Number(order, @)])],
             names |-> order]
    IN  By(Order(<< f.start >>, 1))

DeterminizeAcceptor(f) ==
    LET CostsOf(d) == [d EXCEPT !.final = [s \in States(d) |-> PlusAll(Range(@[s]))],
                               !.arcs = [s \in States(d) |->
                                   MapSeq(@[s], LAMBDA a : [a EXCEPT !.olabel = a.ilabel])]]
    IN  Numbered(CostsOf(DeterminizeFsa(f, "DETERMINIZE_FUNCTIONAL")))

Distances(d, in_dist) ==
    [n \in States(d) |-> ComputeDistance(in_dist, d.names[n + 1])]

\* Determinize, with pruning when a threshold is set: while it expands, if the
\* bit kAcceptor is stored (known), and in the result otherwise.
Determinize(f, known, type, label, increment, threshold, max_states) ==
    LET prune == threshold # Zero \/ max_states # kNoStateId
        Expanded(d) == IF prune THEN PruneInPlace(d, threshold, max_states) ELSE d
        Expanding(d) == PruneCopy(d, Distances(d, ReverseDistance(f)), threshold, max_states)
    IN  IF ~ HasStart(f) THEN EmptyMachine
        ELSE IF IsAcceptor(f) /\ known /\ prune THEN Expanding(DeterminizeAcceptor(f))
        ELSE IF IsAcceptor(f) THEN Expanded(DeterminizeAcceptor(f))
        ELSE Expanded(Numbered(DeterminizeTransducer(f, type, label, increment)))

\* ShortestPath with the option unique, for acceptors: the best paths with
\* distinct strings are the best paths of the determinized reverse.
UniqueShortestPaths(f, nshortest, threshold, max_states, oldest) ==
    LET BestOf(d) == NShortestPath(d, Distances(d, ShiftedDistance(f)), nshortest, threshold, max_states, oldest)
    IN  IF ~ HasStart(f) THEN EmptyMachine ELSE BestOf(DeterminizeAcceptor(ReverseFst(f)))
=============================================================================
