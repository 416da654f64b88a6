---------------------------- MODULE Algorithms ------------------------------
(***************************************************************************)
(* The algorithms on weighted machines, each run on inputs from a set of   *)
(* small machines and compared with a definition of what it has to return. *)
(***************************************************************************)
EXTENDS RmEpsilon, Minimize, Rational

CONSTANTS
    Tasks,              \* the operations to run, each with its arguments
    Operands,           \* the other arguments of the operations of FstOps
    RationalOperands,   \* and those of the delayed rational operations
    MaxSteps            \* bound: calls on a delayed rational operation

VARIABLES task, result
vars == << task, result >>

\* The operations that change a VectorFst in place, applied to a task's machine.
R == INSTANCE FstRelation WITH
        fst <- task.f, MaxStates <- 2, MaxArcs <- 2, MaxLen <- 2,
        ArcKinds <- {}, FinalWeights <- {}, Masks <- {}, OpArcKinds <- {}, OpFinalWeights <- {}, MaxOpArcs <- 2,
        Mappers <- {"Invert", "ProjectInput", "ProjectOutput", "RmWeight", "SuperFinal", "SuperFinalLabel"}

None == [op |-> "None"]

Init == task \in Tasks /\ result = None

Runs(op) == task.op = op /\ result = None
Returns(value) == result' = value /\ UNCHANGED task

\* The difference is a composition with the complement.
Matchers == IF task.op = "Compose" THEN << task.m1, task.m2 >>
            ELSE DifferenceMatchers(task.f1, task.f2, task.known)

DoCompose ==
    /\ Runs("Compose") \/ (Runs("Difference") /\ ~ ComplementError(task.f2))
    /\ \E m \in {Matchers} : \E composed \in {ComposeFst(task.filter, m[1], m[2])} :
        /\ ~ ComposeError(m[1], m[2], composed)
        /\ Returns(Connect(composed))

DoShortestPaths ==
    /\ Runs("ShortestPaths")
    /\ Returns(ShortestPaths(task.f, task.n, task.threshold, task.max_states, task.oldest))

DoPruneInPlace ==
    /\ Runs("PruneInPlace")
    /\ Returns(PruneInPlace(task.f, task.threshold, task.max_states))

DoPruneCopy ==
    /\ Runs("PruneCopy")
    /\ Returns(PruneCopy(task.f, ReverseDistance(task.f), task.threshold, task.max_states))

DoRmEpsilon ==
    /\ Runs("RmEpsilon")
    /\ Returns(RmEpsilon(task.f, task.known, task.connect, task.threshold))

DoRmEpsilonFst ==
    /\ Runs("RmEpsilonFst")
    /\ Returns(RmEpsilonFst(task.f))

DoDeterminize ==
    /\ Runs("Determinize")
    /\ Returns(Determinize(task.f, task.known, task.type, task.label, task.increment, task.threshold, task.max_states))

DoUniqueShortestPaths ==
    /\ Runs("UniqueShortestPaths")
    /\ Returns(UniqueShortestPaths(task.f, task.n, task.threshold, task.max_states, task.oldest))

DoReweight ==
    /\ Runs("Reweight")
    /\ Returns(Reweight(task.f, task.potential, task.type))

DoPushWeights ==
    /\ Runs("PushWeights")
    /\ Returns(PushWeights(task.f, task.type, task.remove_total_weight))

DoPushLabels ==
    /\ Runs("PushLabels")
    /\ Returns(PushLabels(task.f, task.costs, task.remove))

DoMinimize ==
    /\ Runs("Minimize")
    /\ ~ MinimizeError(task.f, task.allow_nondet)
    /\ Returns(Minimize(task.f))

\* The operations of FstOps in turn: R applies each of them to the machine.
DoInPlace ==
    /\ Runs("InPlace")
    /\ Returns(task.f)

DoReplace ==
    /\ Runs("Replace")
    /\ Returns(ReplaceFst(task.rtn, task.opts))

DoReplaceUtil ==
    /\ Runs("ReplaceUtil")
    /\ \E way \in [by : {"labels"}, labels : SUBSET {task.rtn[i][1] : i \in DOMAIN task.rtn}]
                  \cup [by : {"size"}, nstates : 1 .. 3, narcs : 1 .. 3, nnonterms : {1}]
                  \cup [by : {"instances"}, ninstances : 0 .. 2] :
        Returns([rtn |-> ReplaceBy(task.rtn, task.opts, way), way |-> way])

DoConnectNetwork ==
    /\ Runs("ReplaceUtil")
    /\ \E kept \in BOOLEAN :
        Returns([rtn |-> UtilConnect(task.rtn, task.opts.root, kept), way |-> [by |-> "trimming"]])

\* A delayed rational operation: the implementation, the relation that it must
\* have, the number of calls, and whether an operand was put in front.
Rational(impl, rel, steps, front) ==
    Returns([impl |-> impl, rel |-> rel, steps |-> steps, front |-> front])

DoRational ==
    /\ Runs("Rational")
    /\ \E f \in RationalOperands :
        \/ \E g \in RationalOperands :
            \/ Rational(InitUnion(f, g), R!Rel(f) \cup R!Rel(g), 0, FALSE)
            \/ Rational(InitConcat(f, g), R!Product(R!Rel(f), R!Rel(g)), 0, FALSE)
        \/ Rational(InitClosure(f, TRUE), R!Plus(R!Rel(f)) \cup R!Unity, 0, FALSE)
        \/ Rational(InitClosure(f, FALSE), R!Plus(R!Rel(f)), 0, FALSE)

\* A question, a copy, or an operation on what is there.
DoAdd ==
    /\ task.op = "Rational" /\ result # None
    /\ result.steps < MaxSteps
    /\ LET impl == result.impl
           rel == result.rel
           n == result.steps + 1
       IN  \/ Rational(MakeReplace(impl), rel, n, result.front)
           \/ Rational(CopyImpl(impl), rel, n, result.front)
           \/ Rational(AddClosure(impl, TRUE), R!Plus(rel) \cup R!Unity, n, result.front)
           \/ Rational(AddClosure(impl, FALSE), R!Plus(rel), n, result.front)
           \/ \E f \in RationalOperands :
                \/ Rational(AddUnion(impl, f), rel \cup R!Rel(f), n, result.front)
                \/ Rational(AddConcat(impl, f, TRUE), R!Product(rel, R!Rel(f)), n, result.front)
                \/ Rational(AddConcat(impl, f, FALSE), R!Product(R!Rel(f), rel), n, TRUE)

Next == \/ DoCompose \/ DoShortestPaths \/ DoPruneInPlace \/ DoPruneCopy
        \/ DoRmEpsilon \/ DoRmEpsilonFst \/ DoDeterminize \/ DoUniqueShortestPaths
        \/ DoReweight \/ DoPushWeights \/ DoPushLabels \/ DoMinimize
        \/ DoInPlace \/ DoReplace \/ DoReplaceUtil \/ DoConnectNetwork \/ DoRational \/ DoAdd
Spec == Init /\ [][Next]_vars

Done(op) == task.op = op /\ result # None

-----------------------------------------------------------------------------
(* In-place operations.                                                    *)

\* Union, both forms of Concat, and Closure give the union, the product and
\* the closure of the relations, for any machine the mutators can build and
\* any bits stored in it (union.h trusts the bit kInitialAcyclic when it
\* reuses the start state). The delayed operations (rational.h) have these
\* relations after any sequence of operations and questions, so that none is
\* answered from before an operation, and the bits that they claim are true
\* unless an operand was put in front.
RationalOpsCorrect ==
    /\ Done("InPlace") => R!RationalOpsCorrect
    /\ Done("Rational") =>
        LET found == AsVector(RationalReplace(result.impl))
        IN  /\ R!Rel(found) = result.rel
            /\ HasStart(RationalReplace(result.impl)) /\ ~ result.front =>
                result.impl.props \cap R!kTrinaryProperties \subseteq R!Truth(found)

\* Mapping arcs, sorting arcs, renumbering states, trimming and reversing give
\* the relations they stand for (arc-map.h, arcsort.h, statesort.h, topsort.h,
\* connect.h, reverse.h).
RewritesCorrect == Done("InPlace") => R!RewritesCorrect

-----------------------------------------------------------------------------
(* Composition.                                                            *)

\* The words that a matcher's special arc stands for, spelled out.
Unfolded(m, words) ==
    LET f == m.fst
        Own(s, l) == SelectSeq(f.arcs[s], LAMBDA a : GetLabel(m, a) = l)
        Plain(s) == SelectSeq(f.arcs[s], LAMBDA a : GetLabel(m, a) # m.label)
        Renamed(s, l) == MapSeq(Own(s, m.label), LAMBDA a : Rewritten(m, a, l))
        \* The states that follow s by failure arcs, each with the cost so far.
        RECURSIVE Chain(_, _)
        Chain(s, w) ==
            << << s, w >> >>
            \o (IF Own(s, m.label) = <<>> \/ Own(s, m.label)[1].nextstate = s THEN <<>>
                ELSE Chain(Own(s, m.label)[1].nextstate, Times(w, Own(s, m.label)[1].weight)))
        Failing(s, l) ==
            LET c == Chain(s, One)
                own == {i \in DOMAIN c : Own(c[i][1], l) # <<>>}
                last == c[Len(c)]
                pick == IF own = {} THEN last ELSE c[Min(own)]
                arcs == IF own = {} THEN Renamed(last[1], l) ELSE Own(pick[1], l)
            IN  MapSeq(arcs, LAMBDA a : [a EXCEPT !.weight = Times(pick[2], @)])
        Spelled(s, l) ==
            CASE m.kind = "Rho" -> IF Own(s, l) = <<>> THEN Renamed(s, l) ELSE <<>>
              [] m.kind = "Sigma" -> Renamed(s, l)
              [] m.kind = "Phi" -> IF Own(s, l) = <<>> THEN Failing(s, l) ELSE <<>>
        FinalOf(s) ==
            LET c == Chain(s, One)
                fin == {i \in DOMAIN c : IsFinal(f, c[i][1])}
            IN  IF m.kind # "Phi" THEN f.final[s]
                ELSE IF fin = {} THEN Zero
                ELSE Times(c[Min(fin)][2], f.final[c[Min(fin)][1]])
    IN  IF m.kind = "Sorted" THEN f
        ELSE [start |-> f.start,
              final |-> [s \in States(f) |-> FinalOf(s)],
              arcs |-> [s \in States(f) |->
                            Plain(s) \o FlattenSeq([i \in DOMAIN words |-> Spelled(s, words[i])])]]

\* The first machine is acyclic; the second takes no more arcs than bound 5.
PathPairs(f1, f2) == {pq \in Paths(f1) \X PathsUpTo(f2, 5) : pq[1].y = pq[2].x}
PairValue(pq) == << pq[1].x, pq[2].y, Times(pq[1].w, pq[2].w) >>
Counted(f) == Multiplicity(Paths(f), PathValue)

ExactFilters == {"Sequence", "AltSequence", "Match"}

\* Composition pairs every path of the first machine with every path of the
\* second one that reads what it writes, once: the epsilon filters
\* (compose-filter.h) let exactly one way through a grid of epsilons pass,
\* whatever matchers (matcher.h) spell out special arcs and whichever side
\* they search. The trivial filter may repeat a pair, without epsilons no
\* filter does. The difference keeps the paths whose input the second machine
\* does not accept, by composition with its complement (difference.h).
CompositionExact ==
    /\ Done("Compose") =>
        LET words == << 1, 2 >>
            NoEpsilons(f1, f2) == /\ \A a \in AllArcs(f1) : a.olabel # 0
                                  /\ \A a \in AllArcs(f2) : a.ilabel # 0
            Exact(f1, f2, pairs) ==
                IF task.filter \in ExactFilters \/ NoEpsilons(f1, f2)
                THEN Counted(result) = Multiplicity(pairs, PairValue)
                ELSE task.filter # "Null" => DOMAIN Counted(result) = {PairValue(pq) : pq \in pairs}
            ExactFor(f1, f2) == Exact(f1, f2, PathPairs(f1, f2))
        IN  ExactFor(Unfolded(task.m1, words), Unfolded(task.m2, words))
    /\ Done("Difference") =>
        LET kept == {p \in Paths(task.f1) : \A q \in PathsUpTo(task.f2, 3) : q.x # p.x}
        IN  IF task.filter \in ExactFilters
            THEN Counted(result) = Multiplicity(kept, PathValue)
            ELSE task.filter # "Null" => DOMAIN Counted(result) = {PathValue(p) : p \in kept}

-----------------------------------------------------------------------------
(* Recursive transition networks.                                          *)

\* The successful paths of machine id of a network with no cycles, by
\* substitution: a call is the call label, a path of the machine that is
\* called, and the return label.
Derivations(rtn, opts, id) ==
    LET Label(keep, l) == IF keep THEN Symbol(l) ELSE <<>>
        Joined(p, q) == [x |-> p.x \o q.x, y |-> p.y \o q.y, w |-> Times(p.w, q.w), via |-> p.via \o q.via]
        CallOf(a) ==
            [x |-> Label(opts.call_label_type \in {"INPUT", "BOTH"}, a.ilabel),
             y |-> Label(opts.call_label_type \in {"OUTPUT", "BOTH"},
                         IF opts.call_output_label = kNoLabel THEN a.olabel ELSE opts.call_output_label),
             w |-> a.weight, via |-> << -1 >>]
        return == [x |-> Label(opts.return_label_type \in {"INPUT", "BOTH"}, opts.return_label),
                   y |-> Label(opts.return_label_type \in {"OUTPUT", "BOTH"}, opts.return_label),
                   w |-> One, via |-> << -2 >>]
        RECURSIVE From(_, _)
        Through(a) ==
            LET callee == FstId(rtn, a.olabel)
            IN  IF a.olabel = 0 \/ callee = 0
                THEN {[x |-> Symbol(a.ilabel), y |-> Symbol(a.olabel), w |-> a.weight, via |-> <<>>]}
                ELSE IF ~ HasStart(rtn[callee][2]) THEN {}
                ELSE {Joined(Joined(CallOf(a), p), return) : p \in From(callee, rtn[callee][2].start)}
        From(i, s) ==
            LET f == rtn[i][2]
            IN  (IF IsFinal(f, s) THEN {[x |-> <<>>, y |-> <<>>, w |-> f.final[s], via |-> <<>>]} ELSE {})
                \cup UNION {{Joined(Joined([x |-> <<>>, y |-> <<>>, w |-> One, via |-> <<n>>], p), q) :
                                p \in Through(f.arcs[s][n]), q \in From(i, f.arcs[s][n].nextstate)} :
                            n \in DOMAIN f.arcs[s]}
    IN  IF HasStart(rtn[id][2]) THEN From(id, rtn[id][2].start) ELSE {}

\* The relation of an acyclic machine, with the cheapest of equal paths.
FullRelation(f) ==
    LET P == Paths(f)
    IN  {<< p.x, p.y, p.w >> : p \in {q \in P : \A r \in P : (r.x = q.x /\ r.y = q.y) => q.w <= r.w}}

\* The arcs of a state that a search for a label has to find.
Sought(f, t, type, label) ==
    SelectSeq(f.arcs[t], LAMBDA a : (IF type = MATCH_INPUT THEN a.ilabel ELSE a.olabel) = label)
SameBag(s, t) == Multiplicity(DOMAIN s, LAMBDA i : s[i]) = Multiplicity(DOMAIN t, LAMBDA i : t[i])

\* Calls keep a negative label, or get a label, that the code does not put in order.
CallsOutOfOrder(rtn, opts) ==
    /\ opts.call_label_type # "NEITHER"
    /\ opts.call_output_label # kNoLabel \/ \E i \in DOMAIN rtn : rtn[i][1] < 0

\* The facts that do not hold in any case: the order of the arcs if calls are
\* out of order, and what a machine that is never called would pass on.
Doubtful(rtn, opts) ==
    (IF CallsOutOfOrder(rtn, opts) THEN {"kILabelSorted", "kOLabelSorted"} ELSE {})
    \cup (IF ReachableFrom(GetDependencies(rtn, opts.root), {Root(rtn, opts)}) = DOMAIN rtn THEN {}
          ELSE {"kNonIDeterministic", "kIEpsilons", "kOEpsilons", "kEpsilons", "kWeighted", "kCyclic"})

\* Replacement (replace.h) has exactly the paths that substitution gives, with
\* their multiplicities, whatever labels are kept on calls and returns. The
\* counts that it returns for a state without expanding it, the facts that it
\* claims (but for the doubtful ones), and what its matcher finds are those of
\* the expanded machine.
\* Replacing some labels in the machines (replace-util.h), chosen by hand, by
\* size or by the number of calls, and trimming the network keep the relation
\* of the root.
ReplacementExact ==
    /\ Done("Replace") =>
        LET rtn == task.rtn
            opts == task.opts
            claimed == ReplaceProperties(rtn, opts)
            EpsilonOnSide(type) ==
                \A l \in {opts.call_label_type, opts.return_label_type} :
                    EpsilonOn(type, l)
        IN  /\ Counted(result) = Multiplicity(Derivations(rtn, opts, Root(rtn, opts)), PathValue)
            /\ ~ AlwaysCache(rtn, opts) => \A t \in States(result) :
                /\ NumArcsUncached(rtn, opts, t) = NumArcs(result, t)
                /\ "kILabelSorted" \in claimed =>
                    NumEpsilonsUncached(rtn, opts, t, MATCH_INPUT)
                    = Len(Sought(result, t, MATCH_INPUT, 0))
                /\ "kOLabelSorted" \in claimed =>
                    NumEpsilonsUncached(rtn, opts, t, MATCH_OUTPUT)
                    = Len(Sought(result, t, MATCH_OUTPUT, 0))
            /\ claimed \ Doubtful(rtn, opts) \subseteq Facts(result)
            /\ AllNonEmpty(rtn) => \A t \in States(result), type \in {MATCH_INPUT, MATCH_OUTPUT} :
                EpsilonOnSide(type) /\ LabelsSorted(rtn[t[2]][2], type) =>
                    /\ \A label \in {5, 6} :
                        SameBag(ReplaceFind(rtn, opts, type, t, label), Sought(result, t, type, label))
                    /\ SameBag(ReplaceFind(rtn, opts, type, t, kNoLabel), Sought(result, t, type, 0))
    /\ Done("ReplaceUtil") =>
        /\ FullRelation(ReplaceFst(result.rtn, task.opts)) = FullRelation(ReplaceFst(task.rtn, task.opts))
        /\ result.way.by = "labels" =>
            \A i \in DOMAIN result.rtn : \A a \in AllArcs(result.rtn[i][2]) :
                a.olabel \notin result.way.labels \ {task.opts.root}

-----------------------------------------------------------------------------
(* Best paths.                                                             *)

\* The cost of the best successful path.
Best(f) == IF HasStart(f) THEN Estimate(f)[f.start] ELSE Zero

\* All that is on a successful path within the limit, and nothing else.
WithinLimit(f, limit) ==
    LET d == DistancesIn(f, "any", f.start)
        est == Estimate(f)
        keep == {s \in States(f) : Times(d[s], est[s]) # Zero /\ Times(d[s], est[s]) <= limit}
        Good(s, a) == LET c == Times(Times(d[s], a.weight), est[a.nextstate])
                      IN  c # Zero /\ c <= limit
    IN  IF f.start \notin keep THEN EmptyMachine
        ELSE [start |-> f.start,
              final |-> [s \in keep |-> IF Times(d[s], f.final[s]) <= limit THEN f.final[s] ELSE Zero],
              arcs |-> [s \in keep |-> SelectSeq(f.arcs[s], LAMBDA a : Good(s, a))]]

\* The n shortest paths (shortest-path.h) are n paths of the machine, none
\* listed more often than it occurs, sorted, and no cheaper one is missing;
\* with "unique", n inputs with the cost of their best path. A limit on states
\* may leave some out but lets no wrong one in. Pruning (prune.h) keeps exactly
\* what is on a path within the limit; with too low a limit on states it keeps
\* a part of that.
BestPathsRight ==
    /\ Done("ShortestPaths") =>
        LET limit == Times(Best(task.f), task.threshold)
            good == {p \in PathsUpTo(task.f, 8) : p.w <= limit}
            found == Paths(result)
            Cheaper(p) == Cardinality({q \in good : q.w < p.w})
            n == IF Cardinality(good) < task.n THEN Cardinality(good) ELSE task.n
            all == Multiplicity(good, PathValue)
        IN  /\ Cardinality(found) <= n
            /\ task.max_states = kNoStateId =>
                  /\ Cardinality(found) = n
                  /\ \A p \in good : Cheaper(p) < n => \E q \in found : q.w >= p.w
            /\ \A k \in DOMAIN Counted(result) :
                  k \in DOMAIN all /\ Counted(result)[k] <= all[k]
            /\ \A p, q \in found : p.via[1] < q.via[1] => p.w <= q.w
            /\ \A p \in found : Cheaper(p) < n
    /\ Done("UniqueShortestPaths") =>
        LET limit == Times(Best(task.f), task.threshold)
            good == {r \in FullRelation(task.f) : r[3] <= limit}
            found == Paths(result)
            Cheaper(w) == Cardinality({r \in good : r[3] < w})
            n == IF Cardinality(good) < task.n THEN Cardinality(good) ELSE task.n
        IN  /\ \A p \in found : PathValue(p) \in good /\ Cheaper(p.w) < task.n
            /\ \A p, q \in found : p.x = q.x => p = q
            /\ \A p, q \in found : p.via[1] < q.via[1] => p.w <= q.w
            /\ Cardinality(found) <= n
            /\ task.max_states = kNoStateId => Cardinality(found) = n
    /\ Done("PruneInPlace") \/ Done("PruneCopy") =>
        LET limit == Times(Best(task.f), task.threshold)
        IN  IF task.max_states = kNoStateId
            THEN result = WithinLimit(task.f, limit)
            ELSE /\ Cardinality(States(result)) <= task.max_states
                 /\ States(result) \subseteq States(WithinLimit(task.f, limit))
                 /\ Done("PruneInPlace") /\ Cardinality(States(WithinLimit(task.f, limit))) <= task.max_states =>
                        result = WithinLimit(task.f, limit)

-----------------------------------------------------------------------------
(* Normal forms.                                                           *)

\* Labels from this one on stand for the end of the input.
SubsequentialLabel == 8

\* The parts of NormalFormsExact, over what they compare.
NormalForm(in4, found4, best, est, dist, all, new) ==
    /\ Done("RmEpsilon") \/ Done("RmEpsilonFst") => \A a \in AllArcs(result) : ~ IsEpsilon(a)
    /\ Done("RmEpsilonFst") \/ Done("Reweight") => found4 = in4
    /\ Done("RmEpsilon") =>
        /\ IF task.threshold = Zero THEN found4 = in4
           ELSE LET limit == Times(best, task.threshold)
                IN  \A r \in in4 : r[3] <= limit => r \in found4
        /\ task.connect => Connect(result) = result
    /\ Done("Determinize") =>
        LET limit == Times(best, task.threshold)
            Plain(x) == SelectSeq(x, LAMBDA l : l < SubsequentialLabel)
            found == {<< Plain(r[1]), r[2], r[3] >> : r \in new}
            Cheapest(r) == \A q \in all : q[1] = r[1] => r[3] <= q[3]
        IN  /\ ~ DeterminizeError(task.f, task.type)
            /\ \/ task.label = 0 /\ ~ IsAcceptor(task.f)
               \/ task.type = "DETERMINIZE_NONFUNCTIONAL" /\ ~ task.increment
               \/ IDeterministic(result)
            /\ found \subseteq all
            /\ Cardinality({r[1] : r \in found}) = Cardinality(found) \/ task.type = "DETERMINIZE_NONFUNCTIONAL"
            /\ IF task.max_states # kNoStateId THEN Cardinality(States(result)) <= task.max_states
               ELSE \A r \in all : Cheapest(r) \/ task.type = "DETERMINIZE_NONFUNCTIONAL" =>
                       r[3] > limit \/ \E q \in found : q[1] = r[1] /\ q[3] = r[3]
    /\ Done("PushWeights") =>
        LET total == IF task.remove_total_weight /\ best # Zero THEN best ELSE One
            Onward(s) == PlusAll({result.final[s]} \cup {Times(a.weight, One) :
                                    a \in {b \in ArcsOf(result, s) : est[b.nextstate] # Zero}})
            Into(s) == PlusAll(UNION {{a.weight : a \in {b \in ArcsOf(result, t) : b.nextstate = s}} :
                                        t \in {u \in States(task.f) : dist[u] # Zero}})
            inner == States(task.f) \ {result.start, task.f.start}
        IN  /\ found4 = {<< r[1], r[2], Divide(r[3], total) >> : r \in in4}
            /\ IF task.type = "REWEIGHT_TO_INITIAL"
               THEN \A s \in inner : est[s] # Zero => Onward(s) = One
               ELSE \A s \in inner : dist[s] # Zero => Into(s) = One
    /\ Done("PushLabels") =>
        LET strings == {r[2] : r \in Relation(task.f, 8)}
            affix == IF "kPushRemoveCommonAffix" \in task.remove /\ strings # {}
                     THEN LongestCommonPrefix(strings) ELSE <<>>
            total == IF "kPushRemoveTotalWeight" \in task.remove /\ task.costs THEN best ELSE One
        IN  found4 =
            {<< r[1], SubSeq(r[2], Len(affix) + 1, Len(r[2])), Divide(r[3], total) >> :
                r \in Relation(task.f, 4 + Len(affix))}
    /\ Done("Minimize") =>
        LET From(s) == Relation([result EXCEPT !.start = s], 2 * Cardinality(States(result)))
        IN  /\ Relation(result, 6) = Relation(task.f, 6)
            /\ IsAcceptor(task.f) => \A s, t \in States(result) : From(s) = From(t) => s = t

\* What the rewriting algorithms promise. Epsilon removal (rmepsilon.h) leaves
\* no epsilon and the same relation, in whatever order it visits states.
\* Determinization (determinize.h) leaves one path for each input, with the
\* cost of the cheapest and an output that it has in the machine. Reweighting
\* (reweight.h) keeps all costs; pushing (push.h) makes what follows, or leads
\* to, each state cost One in total and takes the total or the common prefix
\* away only when asked to. Minimization (minimize.h) keeps the relation, and
\* no two states of a minimized acceptor have the same future.
NormalFormsExact ==
    \/ result = None
    \/ ~ task.op \in {"RmEpsilon", "RmEpsilonFst", "Determinize", "Reweight", "PushWeights", "PushLabels", "Minimize"}
    \/ NormalForm(Relation(task.f, 4), Relation(result, 4), Best(task.f), Estimate(task.f),
                  DistancesIn(task.f, "any", task.f.start), FullRelation(task.f), FullRelation(result))

\* Minimize keeps the relation of a machine, of a nondeterministic one too:
\* CyclicMinimizer (minimize.h) is said to apply there as well.
MinimizeKeepsRelation ==
    Done("Minimize") => Relation(result, 8) = Relation(task.f, 8)
=============================================================================
