------------------------------ MODULE Minimize ------------------------------
(***************************************************************************)
(* Weight and label pushing (push.h, reweight.h), encoding (encode.h), and *)
(* minimization (minimize.h, partition.h) by Revuz's algorithm for acyclic *)
(* deterministic machines and by Hopcroft's for all others.                *)
(***************************************************************************)
EXTENDS Determinize

-----------------------------------------------------------------------------
(* Reweight and Push.                                                      *)

InitialAcyclic(f) == f.start \notin ReachableFrom(f, Post(f, {f.start}))

\* A start state that only has an arc with a weight to the old one.
AddStart(f, arc, none) ==
    LET s == Max(States(f)) + 1
    IN  [start |-> s, final |-> f.final @@ (s :> none),
         arcs |-> f.arcs @@ (s :> << [arc EXCEPT !.nextstate = f.start] >>)]

\* Multiplies the weight of every path by w, at the start state.
TimesAtStart(f, w) ==
    IF w \in {One, Zero} THEN f
    ELSE IF InitialAcyclic(f)
    THEN [f EXCEPT !.final[f.start] = Times(w, @),
                   !.arcs[f.start] = MapSeq(@, LAMBDA a : [a EXCEPT !.weight = Times(w, @)])]
    ELSE AddStart(f, Arc(0, 0, w, f.start), Zero)

Reweight(f, potential, type) ==
    LET ToInitial == type = "REWEIGHT_TO_INITIAL"
        Moved(s, a) ==
            IF potential[s] = Zero \/ potential[a.nextstate] = Zero THEN a
            ELSE [a EXCEPT !.weight =
                     IF ToInitial THEN Divide(Times(@, potential[a.nextstate]), potential[s])
                     ELSE Divide(Times(potential[s], @), potential[a.nextstate])]
        FinalAt(s) == IF ~ ToInitial THEN Times(potential[s], f.final[s])
                      ELSE IF potential[s] = Zero THEN f.final[s]
                      ELSE Divide(f.final[s], potential[s])
        moved == [f EXCEPT !.final = [s \in States(f) |-> FinalAt(s)],
                           !.arcs = [s \in States(f) |-> MapSeq(@[s], LAMBDA a : Moved(s, a))]]
        w == potential[f.start]
    IN  IF ~ HasStart(f) THEN f
        ELSE TimesAtStart(moved, IF ToInitial \/ w = Zero THEN w ELSE Divide(One, w))

\* RemoveWeight.
RemoveWeight(f, w, at_final) ==
    IF w \in {One, Zero} THEN f
    ELSE IF at_final
    THEN [f EXCEPT !.final = [s \in States(f) |-> Divide(f.final[s], w)]]
    ELSE [f EXCEPT !.final[f.start] = Divide(@, w),
                   !.arcs[f.start] = MapSeq(@, LAMBDA a : [a EXCEPT !.weight = Divide(@, w)])]

\* Push, of weights.
PushWeights(f, type, remove_total_weight) ==
    LET reverse == type = "REWEIGHT_TO_INITIAL"
        distance == IF reverse THEN ReverseDistance(f) ELSE DistancesIn(f, "any", f.start)
        total == IF reverse THEN distance[f.start]
                 ELSE PlusAll({Times(distance[s], f.final[s]) : s \in States(f)})
        g == Reweight(f, distance, type)
    IN  IF ~ HasStart(f) THEN f
        ELSE IF remove_total_weight THEN RemoveWeight(g, total, ~ reverse) ELSE g

-----------------------------------------------------------------------------
(* Pushing in the left gallic semiring, where the sum of two strings is    *)
(* their longest common prefix.  Arcs of a gallic machine have their       *)
(* string in olabel and their cost in weight; a final weight is <<>> or    *)
(* << string, cost >>.                                                     *)

\* ToGallicMapper; without strings it is the machine of the costs alone.
GallicMachine(f, strings) ==
    LET Text(a) == IF strings THEN Symbol(a.olabel) ELSE <<>>
    IN  [start |-> f.start,
         final |-> [s \in States(f) |-> IF IsFinal(f, s) THEN << <<>>, f.final[s] >> ELSE <<>>],
         arcs |-> [s \in States(f) |-> MapSeq(f.arcs[s], LAMBDA a : [a EXCEPT !.olabel = Text(a)])]]

GallicPlus(v, w) ==
    IF v = <<>> THEN w ELSE IF w = <<>> THEN v
    ELSE << LongestCommonPrefix({v[1], w[1]}), Plus(v[2], w[2]) >>
GallicTimes(v, w) == IF v = <<>> \/ w = <<>> THEN <<>> ELSE << v[1] \o w[1], Times(v[2], w[2]) >>
GallicDivide(v, w) ==
    IF v = <<>> THEN <<>>
    ELSE << SubSeq(v[1], Len(w[1]) + 1, Len(v[1])), Divide(v[2], w[2]) >>

WeightOf(a) == << a.olabel, a.weight >>
WithWeight(a, v) == [a EXCEPT !.olabel = v[1], !.weight = v[2]]

\* The distances to the end; without costs when only labels are pushed.
GallicDistance(g, costs) ==
    LET Cost(v) == IF costs \/ v = <<>> THEN v ELSE << v[1], One >>
        RECURSIVE Limit(_)
        Limit(d) ==
            LET Onward(s) == MapSeq(g.arcs[s], LAMBDA a : GallicTimes(Cost(WeightOf(a)), d[a.nextstate]))
                e == [s \in States(g) |-> FoldLeft(GallicPlus, Cost(g.final[s]), Onward(s))]
            IN  IF e = d THEN d ELSE Limit(e)
    IN  Limit([s \in States(g) |-> <<>>])

\* Reweight, towards the initial state.
GallicReweight(g, d) ==
    LET Moved(s, a) ==
            IF d[s] = <<>> \/ d[a.nextstate] = <<>> THEN a
            ELSE WithWeight(a, GallicDivide(GallicTimes(WeightOf(a), d[a.nextstate]), d[s]))
        moved == [g EXCEPT
                    !.final = [s \in States(g) |-> IF d[s] = <<>> THEN g.final[s] ELSE GallicDivide(g.final[s], d[s])],
                    !.arcs = [s \in States(g) |-> MapSeq(@[s], LAMBDA a : Moved(s, a))]]
        w == d[g.start]
    IN  IF w \in {<<>>, << <<>>, One >>} THEN moved
        ELSE IF InitialAcyclic(g)
        THEN [moved EXCEPT !.final[g.start] = GallicTimes(w, @),
                           !.arcs[g.start] = MapSeq(@, LAMBDA a : WithWeight(a, GallicTimes(w, WeightOf(a))))]
        ELSE AddStart(moved, Arc(0, w[1], w[2], g.start), <<>>)

\* FactorWeightFst, of arcs and final weights, and FromGallicMapper.
FactorWeight(g) ==
    LET At(s, rest) == << "state", s, rest >>
        Letter(x) == IF x = <<>> THEN 0 ELSE x[1]
        Step(rest, a) ==
            LET x == rest \o a.olabel
            IN  Arc(a.ilabel, Letter(x), a.weight, At(a.nextstate, SubSeq(x, 2, Len(x))))
        Ending(p) ==
            CASE p[1] = "state" -> IF g.final[p[2]] = <<>> THEN GZero
                                   ELSE Gallic(p[3] \o g.final[p[2]][1], g.final[p[2]][2])
              [] p[1] = "rest" -> Gallic(p[2], One)
              [] p[1] = "superfinal" -> GOne
        ArcsAt(p) == (IF p[1] = "state" THEN MapSeq(g.arcs[p[2]], LAMBDA a : Step(p[3], a)) ELSE <<>>)
                     \o FinalArcs(Ending(p), 0, FALSE)
    IN  Numbered(Delayed(At(g.start, <<>>), ArcsAt, LAMBDA p : FinalCost(Ending(p))))

\* Push, of labels, and of costs when these count.  The removal of a total is
\* that of its string or of its cost; what is One is left.
PushLabels(f, costs, remove) ==
    LET Total(sum) == << IF "kPushRemoveCommonAffix" \in remove /\ sum # <<>> THEN sum[1] ELSE <<>>,
                         IF "kPushRemoveTotalWeight" \in remove /\ sum # <<>> THEN sum[2] ELSE One >>
        Removed(h, total) ==
            IF total = << <<>>, One >> THEN h
            ELSE [h EXCEPT !.final[h.start] = GallicDivide(@, total),
                           !.arcs[h.start] = MapSeq(@, LAMBDA a : WithWeight(a, GallicDivide(WeightOf(a), total)))]
        FactoredOf(g, d) == FactorWeight(Removed(GallicReweight(g, d), Total(d[f.start])))
        GallicOf(g) == FactoredOf(g, GallicDistance(g, costs))
    IN  IF HasStart(f) THEN GallicOf(GallicMachine(f, TRUE)) ELSE f

-----------------------------------------------------------------------------
(* Encode and Decode, with labels and weights: a label stands for all that *)
(* an arc has, or for a final weight, which becomes an arc.                *)

\* RmFinalEpsilon: arcs without a label into states that only end a path.  The
\* string is part of the weight here and does not count as a label.
RmFinalEpsilon(g) ==
    LET coaccess == {s \in States(g) : \E t \in ReachableFrom(g, {s}) : g.final[t] # <<>>}
        finals == {s \in States(g) : g.final[s] # <<>> /\ Post(g, {s}) \cap coaccess = {}}
        Ends(a) == a.ilabel = 0 /\ a.nextstate \in finals
        FinalAt(s) == FoldLeft(GallicPlus, g.final[s],
                               MapSeq(SelectSeq(g.arcs[s], Ends),
                                      LAMBDA a : GallicTimes(WeightOf(a), g.final[a.nextstate])))
        h == [g EXCEPT !.final = [s \in States(g) |-> FinalAt(s)],
                       !.arcs = [s \in States(g) |-> SelectSeq(@[s], LAMBDA a : ~ Ends(a))]]
        access == ReachableFrom(h, {h.start})
        keep == {s \in access : \E t \in ReachableFrom(h, {s}) : h.final[t] # <<>>}
    IN  [start |-> h.start, final |-> [s \in keep |-> h.final[s]],
         arcs |-> [s \in keep |-> SelectSeq(h.arcs[s], LAMBDA a : a.nextstate \in keep)]]

\* The table: the first arc with a triple gives it the next label.
Triple(a) == << a.ilabel, a.olabel, a.weight >>
EndTriple(v) == << kNoLabel, v[1], v[2] >>
EncodeTable(g) ==
    LET Add(table, triple) == IF triple \in Range(table) THEN table ELSE Append(table, triple)
        Triples(s) == MapSeq(g.arcs[s], Triple)
                      \o IF g.final[s] = <<>> THEN <<>> ELSE << EndTriple(g.final[s]) >>
    IN  FoldLeft(Add, <<>>, FlattenSeq(MapSeq(Ascending(States(g)), Triples)))

Encode(g, table) ==
    LET superfinal == Max(States(g)) + 1
        Code(triple) == CHOOSE i \in DOMAIN table : table[i] = triple
        Coded(s) == MapSeq(g.arcs[s], LAMBDA a : Arc(Code(Triple(a)), Code(Triple(a)), One, a.nextstate))
                    \o IF g.final[s] = <<>> THEN <<>>
                       ELSE << Arc(Code(EndTriple(g.final[s])), Code(EndTriple(g.final[s])), One, superfinal) >>
    IN  [start |-> g.start,
         final |-> [s \in States(g) |-> Zero] @@ (superfinal :> One),
         arcs |-> [s \in States(g) |-> Coded(s)] @@ (superfinal :> <<>>)]

\* The triple of a final weight becomes an arc without labels.
Decode(f, table) ==
    LET Decoded(a) ==
            LET t == table[a.ilabel]
            IN  Arc(IF t[1] = kNoLabel THEN 0 ELSE t[1], t[2], t[3], a.nextstate)
    IN  RmFinalEpsilon(
            [start |-> f.start,
             final |-> [s \in States(f) |-> IF IsFinal(f, s) THEN << <<>>, One >> ELSE <<>>],
             arcs |-> [s \in States(f) |-> MapSeq(f.arcs[s], Decoded)]])

-----------------------------------------------------------------------------
(* The partition of the states of an unweighted acceptor, a sequence of    *)
(* sets, and the machine with a state for each set.                        *)

\* AcyclicMinimizer: by height, then by the finality, the labels and the
\* classes of the next states, which are lower.
AcyclicPartition(f) ==
    LET RECURSIVE HeightOf(_)
        HeightOf(s) == IF f.arcs[s] = <<>> THEN 0 ELSE 1 + Max({HeightOf(t) : t \in Post(f, {s})})
        height == [s \in States(f) |-> HeightOf(s)]
        RECURSIVE Refine(_, _)
        Refine(classes, h) ==
            LET level == {s \in States(f) : height[s] = h}
                ClassId(t) == CHOOSE i \in DOMAIN classes : t \in classes[i]
                Key(s) == << f.final[s], MapSeq(f.arcs[s], LAMBDA a : << a.ilabel, ClassId(a.nextstate) >>) >>
                new == {{t \in level : Key(t) = Key(s)} : s \in level}
            IN  IF level = {} THEN classes
                ELSE Refine(classes \o SetToSortSeq(new, LAMBDA A, B : Min(A) < Min(B)), h + 1)
    IN  Refine(<<>>, 0)

\* Partition::SplitRefine: the smaller part gets a new class, which is to be
\* processed; the larger part keeps the old one.
SplitRefine(p, class, yes) ==
    LET no == p.classes[class] \ yes
        smaller == IF Cardinality(no) < Cardinality(yes) THEN no ELSE yes
    IN  IF no = {} THEN p
        ELSE [classes |-> Append([p.classes EXCEPT ![class] = @ \ smaller], smaller),
              queue |-> << Len(p.classes) + 1 >> \o p.queue]

\* FinalizeSplit, for the states with an arc with a label into a class.
SplitOn(p, from) ==
    LET visited == Ascending({i \in DOMAIN p.classes : Cardinality(p.classes[i]) > 1 /\ p.classes[i] \cap from # {}})
    IN  FoldLeft(LAMBDA q, i : SplitRefine(q, i, p.classes[i] \cap from), p, visited)

\* CyclicMinimizer::Split.
Split(f, p, C) ==
    LET labels == Ascending({a.ilabel : a \in {b \in AllArcs(f) : b.nextstate \in C}})
        Into(l) == {s \in States(f) : \E a \in ArcsOf(f, s) : a.ilabel = l /\ a.nextstate \in C}
    IN  FoldLeft(LAMBDA q, l : SplitOn(q, Into(l)), p, labels)

\* PrePartition: by the finality and the labels in their order, without
\* repeats.  The hash of the labels is taken to be injective.
PrePartition(f) ==
    LET Labels(s) == MapSeq(f.arcs[s], LAMBDA a : a.ilabel)
        NoRepeats(x) == FoldLeft(LAMBDA y, l : IF y # <<>> /\ y[Len(y)] = l THEN y ELSE Append(y, l), <<>>, x)
        Key(s) == << IsFinal(f, s), NoRepeats(Labels(s)) >>
        classes == {{t \in States(f) : Key(t) = Key(s)} : s \in States(f)}
    IN  SetToSortSeq(classes, LAMBDA A, B : Min(A) < Min(B))

\* The classes to process are a stack.
CyclicPartition(f) ==
    LET RECURSIVE Compute(_)
        Compute(p) == IF p.queue = <<>> THEN p.classes
                      ELSE Compute(Split(f, [p EXCEPT !.queue = Tail(@)], p.classes[p.queue[1]]))
        initial == PrePartition(f)
    IN  Compute([classes |-> initial, queue |-> Reverse([i \in DOMAIN initial |-> i])])

\* MergeStates and ArcUniqueMapper: the arcs of all the states of a class, each
\* once, in the order of labels and next states.
MergeStates(f, classes) ==
    LET Of(s) == Min(CHOOSE C \in Range(classes) : s \in C)
        Merged(s) == {[a EXCEPT !.nextstate = Of(@)] : a \in UNION {ArcsOf(f, t) : t \in {u \in States(f) : Of(u) = s}}}
        Onto(A, l) == MapSeq(Ascending({a.nextstate : a \in {b \in A : b.ilabel = l}}), LAMBDA t : Arc(l, l, One, t))
        Unique(A) == FlattenSeq(MapSeq(Ascending({a.ilabel : a \in A}), LAMBDA l : Onto(A, l)))
        firsts == {Of(s) : s \in States(f)}
    IN  [start |-> Of(f.start),
         final |-> [s \in firsts |-> f.final[s]],
         arcs |-> [s \in firsts |-> Unique(Merged(s))]]

AcceptorMinimize(f) ==
    LET g == Connect(f)
        Sort(arcs) == MapSeq(Ascending({a.ilabel : a \in Range(arcs)}),
                             LAMBDA l : CHOOSE a \in Range(arcs) : a.ilabel = l)
        h == [g EXCEPT !.arcs = [s \in States(g) |-> Sort(@[s])]]
    IN  IF ~ HasStart(g) THEN g
        ELSE IF Acyclic(g) /\ IDeterministic(g)
        THEN Connect(MergeStates(h, AcyclicPartition(h)))
        ELSE Connect(MergeStates(g, CyclicPartition(g)))

\* Minimize: weights and strings are pushed to the start and encoded.
MinimizeError(f, allow_nondet) == ~ IDeterministic(f) /\ ~ allow_nondet

EncodedMinimize(pushed, table) ==
    LET Decoded(m) == IF HasStart(m) THEN FactorWeight(Decode(m, table)) ELSE EmptyMachine
    IN  Decoded(AcceptorMinimize(Encode(pushed, table)))
GallicMinimize(g) ==
    LET Minimized(pushed) == EncodedMinimize(pushed, EncodeTable(pushed))
    IN  Minimized(GallicReweight(g, GallicDistance(g, TRUE)))

Minimize(f) ==
    LET Acceptor(d) ==
            [d EXCEPT !.arcs = [s \in States(d) |-> MapSeq(@[s], LAMBDA a : [a EXCEPT !.olabel = a.ilabel])]]
    IN  IF ~ HasStart(f) THEN f
        ELSE IF IsAcceptor(f) /\ IsUnweighted(f) THEN AcceptorMinimize(f)
        ELSE IF IsAcceptor(f) THEN Acceptor(GallicMinimize(GallicMachine(f, FALSE)))
        ELSE GallicMinimize(GallicMachine(f, TRUE))
=============================================================================
