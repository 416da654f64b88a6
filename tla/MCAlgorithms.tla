---------------------------- MODULE MCAlgorithms ----------------------------
EXTENDS Algorithms

\* The machine with n states whose arcs are the pairs <<state, arc>> of a sequence.
Built(n, final, pool) ==
    [start |-> 0,
     final |-> [s \in 0..(n-1) |-> IF s \in DOMAIN final THEN final[s] ELSE Zero],
     arcs |-> [s \in 0..(n-1) |->
                 MapSeq(SelectSeq(pool, LAMBDA p : p[1] = s), LAMBDA p : p[2])]]

Subsequences(s) == {SelectSeq(s, LAMBDA p : p \in A) : A \in SUBSET Range(s)}

Pool1 == << << 0, Arc(1, 0, 1, 1) >>, << 0, Arc(1, 1, 0, 1) >>, << 0, Arc(2, 1, 4, 2) >>,
            << 1, Arc(2, 0, 2, 2) >>, << 1, Arc(2, 2, 0, 2) >> >>
Pool2 == << << 0, Arc(0, 1, 8, 1) >>, << 0, Arc(1, 1, 0, 1) >>, << 0, Arc(1, 2, 32, 2) >>,
            << 1, Arc(0, 2, 16, 2) >>, << 1, Arc(2, 2, 0, 2) >> >>
F1 == {Built(3, f, p) : f \in {(2 :> 0), (1 :> 3) @@ (2 :> 0)}, p \in Subsequences(Pool1)}
F2 == {Built(3, f, p) : f \in {(2 :> 0), (1 :> 5) @@ (2 :> 0)}, p \in Subsequences(Pool2)}

\* Machines with special arcs, labelled 3: for the rest and for any word on
\* one side, and failure chains that end in a loop.
Special2 == << << 0, Arc(0, 1, 8, 1) >>, << 0, Arc(1, 1, 0, 1) >>, << 0, Arc(3, 3, 32, 2) >>,
               << 1, Arc(2, 2, 0, 2) >>, << 1, Arc(3, 3, 16, 2) >> >>
Phi2 == << << 0, Arc(1, 1, 0, 1) >>, << 0, Arc(3, 3, 8, 1) >>, << 1, Arc(2, 2, 0, 2) >>,
           << 1, Arc(3, 3, 16, 2) >>, << 2, Arc(3, 3, 32, 2) >> >>
Special1 == << << 0, Arc(1, 1, 0, 1) >>, << 0, Arc(1, 3, 1, 1) >>, << 1, Arc(2, 2, 0, 2) >>,
               << 1, Arc(3, 3, 2, 2) >> >>
Words1 == << << 0, Arc(1, 1, 1, 1) >>, << 0, Arc(2, 0, 2, 1) >>, << 1, Arc(1, 1, 0, 2) >>,
             << 1, Arc(2, 2, 4, 2) >> >>
Final2 == {(2 :> 0), (1 :> 5) @@ (2 :> 0)}
All(pool) == {Built(3, f, p) : f \in Final2, p \in Subsequences(pool)}

PlainTasks ==
    [op : {"Compose"}, filter : Filters,
     m1 : {Sorted(f, MATCH_OUTPUT) : f \in F1}, m2 : {Sorted(f, MATCH_INPUT) : f \in F2}]
SpecialTasks ==
    [op : {"Compose"}, filter : {"Sequence"},
     m1 : {Sorted(f, MATCH_OUTPUT) : f \in All(Words1)} \cup
          {Matcher(f, MATCH_OUTPUT, kind, 3, TRUE) : f \in All(Special1), kind \in {"Rho", "Sigma"}},
     m2 : {Matcher(f, MATCH_INPUT, kind, 3, TRUE) : f \in All(Special2), kind \in {"Rho", "Sigma"}}
          \cup {Matcher(f, MATCH_INPUT, "Phi", 3, TRUE) : f \in All(Phi2)}]
\* The difference needs a second machine that is deterministic.
Acceptor1 == << << 0, Arc(0, 0, 1, 1) >>, << 0, Arc(1, 1, 2, 1) >>, << 0, Arc(2, 2, 0, 2) >>,
                << 1, Arc(0, 0, 4, 2) >>, << 1, Arc(1, 1, 0, 2) >> >>
Acceptor2 == << << 0, Arc(1, 1, 0, 1) >>, << 0, Arc(2, 2, 0, 1) >>, << 1, Arc(1, 1, 0, 1) >>,
                << 1, Arc(2, 2, 0, 0) >> >>
DifferenceTasks ==
    [op : {"Difference"}, filter : Filters, known : BOOLEAN, f1 : All(Acceptor1),
     f2 : {EmptyMachine} \cup {Built(2, f, p) : f \in {(0 :> 0), (1 :> 0)}, p \in Subsequences(Acceptor2)}]

\* Machines with cycles, of epsilons too.
Cyclic == << << 0, Arc(0, 0, 2, 1) >>, << 0, Arc(1, 2, 1, 2) >>, << 0, Arc(0, 0, 5, 3) >>,
             << 1, Arc(0, 0, 0, 2) >>, << 1, Arc(1, 1, 2, 3) >>, << 2, Arc(0, 0, 1, 1) >>,
             << 2, Arc(0, 0, 1, 3) >>, << 2, Arc(2, 0, 3, 0) >>, << 3, Arc(0, 0, 1, 0) >> >>
CyclicMachines == {Built(4, f, p) : f \in {(3 :> 0), (1 :> 3) @@ (3 :> 1)}, p \in Subsequences(Cyclic)}
TopSorted(f) == \A s \in States(f) : \A a \in ArcsOf(f, s) : a.nextstate > s
Knowable(f) == (IF TopSorted(f) THEN {"kTopSorted"} ELSE {}) \cup (IF Acyclic(f) THEN {"kAcyclic"} ELSE {})
RmEpsilonTasks ==
    UNION { [op : {"RmEpsilon"}, f : {f}, known : SUBSET Knowable(f), connect : BOOLEAN, threshold : {Zero, 1}] :
            f \in CyclicMachines }
    \cup [op : {"RmEpsilonFst"}, f : CyclicMachines]

\* A loop whose cost keeps the n best paths short, and ties.
Weighted == << << 0, Arc(1, 1, 1, 1) >>, << 0, Arc(2, 2, 1, 1) >>, << 0, Arc(1, 1, 0, 2) >>,
               << 1, Arc(1, 1, 1, 2) >>, << 1, Arc(2, 2, 0, 3) >>, << 2, Arc(2, 2, 1, 3) >>,
               << 2, Arc(1, 1, 5, 2) >>, << 2, Arc(2, 2, 2, 1) >> >>
WeightedMachines == {Built(4, f, p) : f \in {(3 :> 1), (1 :> 2) @@ (2 :> 3)}, p \in Subsequences(Weighted)}
ShortestPathTasks ==
    [op : {"ShortestPaths"}, f : WeightedMachines, n : 2 .. 3, threshold : {Zero, 1},
     max_states : {kNoStateId, 5}, oldest : BOOLEAN]
PruneTasks ==
    [op : {"PruneInPlace", "PruneCopy"}, f : WeightedMachines, threshold : {0, 2, 5},
     max_states : {kNoStateId, 0, 1, 2, 3}]
\* Acyclic machines: a functional one, one with several outputs, an acceptor.
Functional == << << 0, Arc(1, 1, 0, 1) >>, << 0, Arc(1, 1, 2, 2) >>, << 0, Arc(2, 0, 1, 2) >>,
                 << 1, Arc(1, 2, 1, 3) >>, << 1, Arc(2, 1, 0, 3) >>, << 2, Arc(1, 2, 3, 3) >>,
                 << 2, Arc(3, 0, 0, 3) >>, << 3, Arc(1, 2, 0, 4) >> >>
Ambiguous == << << 0, Arc(1, 1, 0, 1) >>, << 0, Arc(1, 2, 2, 2) >>, << 0, Arc(1, 0, 1, 2) >>,
                << 1, Arc(1, 2, 1, 3) >>, << 1, Arc(1, 1, 1, 3) >>, << 2, Arc(1, 2, 3, 3) >>,
                << 2, Arc(0, 1, 0, 3) >> >>
Acceptors == << << 0, Arc(1, 1, 0, 1) >>, << 0, Arc(1, 1, 2, 2) >>, << 0, Arc(2, 2, 1, 2) >>,
                << 1, Arc(1, 1, 1, 3) >>, << 1, Arc(2, 2, 0, 3) >>, << 2, Arc(1, 1, 0, 3) >>,
                << 2, Arc(1, 1, 4, 4) >>, << 3, Arc(2, 2, 1, 4) >> >>
Machines(pool) == {Built(5, f, p) : f \in {(4 :> 0) @@ (3 :> 1), (2 :> 3) @@ (4 :> 1)}, p \in Subsequences(pool)}
DeterminizeTasks ==
    [op : {"Determinize"}, f : {Connect(g) : g \in Machines(Functional)},
     known : {TRUE}, type : {"DETERMINIZE_FUNCTIONAL"}, label : {0, 9}, increment : {FALSE},
     threshold : {Zero, 1}, max_states : {kNoStateId, 3}]
    \cup {t \in
         [op : {"Determinize"}, f : {g \in Machines(Ambiguous) : ~ IsAcceptor(g)},
          known : {TRUE}, type : {"DETERMINIZE_NONFUNCTIONAL", "DETERMINIZE_DISAMBIGUATE"}, label : {0, 9}, increment : BOOLEAN,
          threshold : {Zero}, max_states : {kNoStateId}] : t.increment => t.label # 0}
    \cup [op : {"Determinize"}, f : Machines(Acceptors), known : BOOLEAN, type : {"DETERMINIZE_FUNCTIONAL"}, label : {0}, increment : {FALSE},
          threshold : {Zero, 0, 2}, max_states : {kNoStateId, 3}]
UniqueTasks ==
    [op : {"UniqueShortestPaths"}, f : Machines(Acceptors), n : 2 .. 3, threshold : {Zero, 1},
     max_states : {kNoStateId, 5}, oldest : BOOLEAN]
\* A machine whose start state is on a cycle, and outputs that can move ahead.
Late == << << 0, Arc(1, 0, 1, 1) >>, << 0, Arc(2, 2, 0, 1) >>, << 1, Arc(1, 2, 2, 2) >>, << 1, Arc(2, 2, 3, 3) >>,
           << 2, Arc(1, 1, 0, 3) >>, << 2, Arc(2, 1, 1, 0) >>, << 3, Arc(1, 1, 1, 2) >> >>
LateMachines == {Built(4, f, p) : f \in {(3 :> 1), (2 :> 2) @@ (3 :> 0)}, p \in Subsequences(Late)}
PushTasks ==
    [op : {"PushWeights"}, f : CyclicMachines, type : {"REWEIGHT_TO_INITIAL", "REWEIGHT_TO_FINAL"},
     remove_total_weight : BOOLEAN]
    \cup [op : {"Reweight"}, f : {f \in CyclicMachines : f.final[1] = Zero}, type : {"REWEIGHT_TO_INITIAL", "REWEIGHT_TO_FINAL"},
          potential : {[s \in 0..3 |-> IF s = 0 THEN p ELSE IF s = 2 THEN q ELSE s] : p \in {0, 2}, q \in {1, 4}}]
    \cup [op : {"PushLabels"}, f : LateMachines, costs : BOOLEAN,
          remove : SUBSET {"kPushRemoveTotalWeight", "kPushRemoveCommonAffix"}]

\* Deterministic machines, with states to merge: acceptors with and without
\* costs and cycles, and transducers without costs that can be moved to meet.
Loops == << << 0, Arc(1, 1, 0, 1) >>, << 0, Arc(2, 2, 0, 2) >>, << 1, Arc(1, 1, 0, 1) >>, << 1, Arc(2, 2, 0, 3) >>,
            << 2, Arc(1, 1, 0, 2) >>, << 2, Arc(2, 2, 0, 3) >>, << 3, Arc(1, 1, 0, 1) >>, << 3, Arc(2, 2, 0, 2) >> >>
Charges == << << 0, Arc(1, 1, 1, 1) >>, << 0, Arc(2, 2, 0, 2) >>, << 1, Arc(1, 1, 2, 3) >>, << 1, Arc(2, 2, 1, 4) >>,
            << 2, Arc(1, 1, 3, 3) >>, << 2, Arc(2, 2, 2, 4) >>, << 3, Arc(2, 2, 1, 4) >>, << 4, Arc(1, 1, 0, 0) >> >>
Outputs == << << 0, Arc(1, 1, 1, 1) >>, << 0, Arc(2, 0, 0, 2) >>, << 1, Arc(1, 2, 2, 3) >>, << 1, Arc(2, 0, 1, 3) >>,
              << 2, Arc(0, 2, 3, 3) >>, << 2, Arc(2, 1, 2, 3) >>, << 3, Arc(2, 2, 1, 0) >> >>
MinimizeTasks ==
    [op : {"Minimize"}, allow_nondet : {FALSE},
     f : {Built(4, f, p) : f \in {(3 :> 0), (1 :> 0) @@ (2 :> 0)}, p \in Subsequences(Loops)}
         \cup {Built(5, f, p) : f \in {(4 :> 1), (1 :> 2) @@ (2 :> 3)}, p \in Subsequences(Charges)}
         \cup {Built(4, f, p) : f \in {(3 :> 1), (1 :> 2) @@ (3 :> 0)}, p \in Subsequences(Outputs)}]

\* Nondeterministic machines: a state with two arcs with one label.
Nondet == << << 0, Arc(1, 1, 0, 5) >>, << 0, Arc(2, 2, 0, 6) >>, << 1, Arc(3, 3, 0, 2) >>, << 3, Arc(2, 2, 0, 2) >>,
             << 4, Arc(2, 2, 0, 1) >>, << 5, Arc(1, 1, 0, 3) >>, << 5, Arc(1, 1, 0, 4) >>, << 6, Arc(1, 1, 0, 3) >> >>
NondetTasks ==
    [op : {"Minimize"}, allow_nondet : {TRUE}, f : {Built(7, (2 :> 0), p) : p \in Subsequences(Nondet)}]

\* VectorFst machines of two states and at most two arcs: an epsilon, a label
\* with a weight and one without an output; with the bits that the mutators
\* leave, and with all bits known.
InPlaceArcs == {<< s, V!Arc(k[1], k[2], k[3], t) >> : s \in 0..1, t \in 0..1,
                    k \in {<< 0, 0, "One" >>, << 1, 1, "Other" >>, << 1, 0, "One" >>}}
Shape(start, finals, arcs) ==
    FoldLeft(LAMBDA f, p : V!AddArc(f, p[1], p[2]),
             FoldLeft(LAMBDA f, s : V!SetFinal(f, s, "One"), V!SetStart(V!AddStates(V!EmptyFst, 2), start), Ascending(finals)),
             arcs)
Shapes == {Shape(start, finals, arcs) : start \in 0..1, finals \in SUBSET (0..1),
              arcs \in {<<>>} \cup {<< p >> : p \in InPlaceArcs} \cup {<< p, q >> : p \in InPlaceArcs, q \in InPlaceArcs}}
Tested(f) == {V!TestProperties(f, r) : r \in V!TestResults(f, V!kFstProperties)}
InPlaceTasks == [op : {"InPlace"}, f : Shapes \cup UNION {Tested(f) : f \in Shapes} \cup {V!EmptyFst}]

\* Operands: an empty machine, the string 2, and a loop at the start state.
Two == V!AddArc(V!SetFinal(V!SetStart(V!AddStates(V!EmptyFst, 2), 0), 1, "One"), 0, V!Arc(2, 2, "One", 1))
Cycle2 == V!AddArc(V!SetFinal(V!SetStart(V!AddState(V!EmptyFst), 0), 0, "Other"), 0, V!Arc(2, 0, "Other", 0))
MCOperands == {V!EmptyFst, Two, Cycle2}
MCRationalOperands == {V!EmptyFst} \cup Tested(Two) \cup Tested(Cycle2)

\* Networks of a root and two machines, called twice or not at all, with
\* nonterminals that are negative, dense, or neither, and terminals 5 and 6.
\* A call reads what it writes, its nonterminal.
CallOn(l, w, t) == Arc(l, l, w, t)
RootPool(n) == << << 0, CallOn(n[2], 1, 1) >>, << 0, CallOn(n[3], 0, 1) >>, << 0, Arc(5, 6, 0, 1) >>,
                  << 1, Arc(0, 0, 2, 2) >>, << 1, CallOn(n[2], 4, 2) >> >>
SecondPool(n) == << << 0, CallOn(n[3], 8, 1) >>, << 0, Arc(5, 5, 0, 1) >>, << 0, Arc(6, 0, 0, 1) >> >>
Thirds == { EmptyMachine, Built(2, (1 :> 16), << << 0, Arc(5, 5, 0, 1) >>, << 0, Arc(6, 5, 0, 1) >> >>), Built(1, (0 :> 0), <<>>) }
Networks(n) ==
    {<< << n[1], Built(3, (2 :> 0), r) >>, << n[2], Built(2, f, s) >>, << n[3], t >> >> :
        r \in Subsequences(RootPool(n)), f \in {(1 :> 0), (0 :> 32) @@ (1 :> 0)}, s \in Subsequences(SecondPool(n)), t \in Thirds}
Options(n) == {ReplaceOptions(n[1], c, "NEITHER", kNoLabel, 0) : c \in {"NEITHER", "INPUT"}}
OtherOptions(n) == {ReplaceOptions(n[1], "OUTPUT", "NEITHER", kNoLabel, 0), ReplaceOptions(n[1], "BOTH", "BOTH", kNoLabel, 9),
                    ReplaceOptions(n[1], "OUTPUT", "INPUT", 8, 9)}
Negative == << -4, -3, -2 >>
Dense == << 1, 2, 3 >>
NegativeTasks == [op : {"Replace"}, rtn : Networks(Negative), opts : Options(Negative)]
ReplaceTasks ==
    NegativeTasks
    \cup [op : {"Replace"}, rtn : Networks(Dense), opts : Options(Dense) \cup OtherOptions(Dense)]
    \cup [op : {"Replace"}, rtn : Networks(<< 1, 2, 4 >>), opts : Options(<< 1, 2, 4 >>)]
    \cup [op : {"ReplaceUtil"}, rtn : Networks(Dense), opts : {ReplaceOptions(Dense[1], "INPUT", "NEITHER", kNoLabel, 0)}]
RationalTasks == [op : {"Rational"}]

MCTasks == ReplaceTasks \cup PlainTasks \cup SpecialTasks \cup DifferenceTasks \cup RmEpsilonTasks \cup ShortestPathTasks \cup PruneTasks
           \cup DeterminizeTasks \cup UniqueTasks \cup PushTasks \cup MinimizeTasks \cup InPlaceTasks \cup RationalTasks
=============================================================================
