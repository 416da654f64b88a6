----------------------------- MODULE VectorFst -----------------------------
(***************************************************************************)
(* VectorFst (vector-fst.h): the mutable FST whose states and arcs are     *)
(* vectors, its mutators, its mutable arc iterator, and the property bits  *)
(* it stores and tests (properties.h, test-properties.h, fst.h).           *)
(*                                                                         *)
(* An FST is a record: the start state, the states (numbered from 0) and   *)
(* the stored property bits.  A VectorState is its final weight, its arcs  *)
(* and its two epsilon counters.  Weights are told apart as far as the     *)
(* bits do: Zero, One, and anything else.                                  *)
(***************************************************************************)
EXTENDS FstProps, FiniteSets, SequencesExt

CONSTANTS
    ArcKinds,           \* ilabel, olabel and weight of an arc; label 0 is epsilon
    FinalWeights,       \* weights of states
    Masks,              \* the masks a client tests
    MaxStates,          \* bound: states of the FST
    MaxArcs             \* bound: arcs of the FST

ASSUME MasksAssumption == Masks \subseteq SUBSET kFstProperties
ASSUME BoundsAssumption == MaxStates \in Nat /\ MaxArcs \in Nat

kNoStateId == -1

Weights == {"Zero", "One", "Other"}
ASSUME KindsAssumption ==
    ArcKinds \subseteq Nat \X Nat \X Weights /\ FinalWeights \subseteq Weights

Nontrivial(w) == w \notin {"Zero", "One"}

Arc(il, ol, w, t) == [ilabel |-> il, olabel |-> ol, weight |-> w, nextstate |-> t]

VectorState == [final |-> "Zero", arcs |-> <<>>, niepsilons |-> 0, noepsilons |-> 0]

EmptyFst == [start |-> kNoStateId, states |-> <<>>,
             props |-> kNullProperties \cup kStaticProperties]

NumStates(f) == Cardinality(DOMAIN f.states)
States(f) == 0 .. NumStates(f) - 1
ArcsOf(f, s) == Range(f.states[s].arcs)
NumArcs(f) == FoldLeft(LAMBDA n, s : n + Len(f.states[s].arcs), 0,
                       [i \in 1 .. NumStates(f) |-> i - 1])

\* The positions of input and of output epsilons among the positions I.
IEpsilonsAt(arcs, I) == {i \in I : arcs[i].ilabel = 0}
OEpsilonsAt(arcs, I) == {i \in I : arcs[i].olabel = 0}

\* The types of the states and arcs of a machine with n states, and a machine
\* whose epsilon counters are right.
ArcType(n) == [ilabel : Nat, olabel : Nat, weight : Weights, nextstate : 0 .. n - 1]
StateType(n) ==
    [final : Weights, arcs : Seq(ArcType(n)), niepsilons : Int, noepsilons : Int]
Counted(st) ==
    /\ st.niepsilons = Cardinality(IEpsilonsAt(st.arcs, DOMAIN st.arcs))
    /\ st.noepsilons = Cardinality(OEpsilonsAt(st.arcs, DOMAIN st.arcs))

IsVectorFst(f) ==
    /\ NumStates(f) \in Nat
    /\ f \in [start : States(f) \cup {kNoStateId},
              states : [States(f) -> StateType(NumStates(f))],
              props : SUBSET kFstProperties]
    /\ \A s \in States(f) : Counted(f.states[s])

-----------------------------------------------------------------------------
(* VectorState and VectorFstImpl: one operator per mutator.                *)

One(cond) == IF cond THEN 1 ELSE 0

StateAddArc(st, a) ==
    [st EXCEPT !.arcs = Append(@, a),
               !.niepsilons = @ + One(a.ilabel = 0),
               !.noepsilons = @ + One(a.olabel = 0)]

StateSetArc(st, a, n) ==
    [st EXCEPT !.arcs[n] = a,
               !.niepsilons = @ - One(st.arcs[n].ilabel = 0) + One(a.ilabel = 0),
               !.noepsilons = @ - One(st.arcs[n].olabel = 0) + One(a.olabel = 0)]

\* The loop drops n arcs from the end, and counts down for each epsilon.
StateDeleteArcs(st, n) ==
    LET rest == Len(st.arcs) - n
        gone == rest + 1 .. Len(st.arcs)
    IN  IF rest <= 0
        THEN [st EXCEPT !.arcs = <<>>, !.niepsilons = 0, !.noepsilons = 0]
        ELSE [st EXCEPT !.arcs = SubSeq(@, 1, rest),
                        !.niepsilons = @ - Cardinality(IEpsilonsAt(st.arcs, gone)),
                        !.noepsilons = @ - Cardinality(OEpsilonsAt(st.arcs, gone))]

SetStart(f, s) ==
    [f EXCEPT !.start = s,
              !.props = StoreProperties(@, SetStartProperties(@))]

SetFinal(f, s, w) ==
    [f EXCEPT !.states[s].final = w,
              !.props = StoreProperties(@,
                            SetFinalProperties(@, Nontrivial(f.states[s].final),
                                               Nontrivial(w)))]

AddStates(f, n) ==
    [f EXCEPT !.states = [s \in 0 .. NumStates(f) + n - 1 |->
                              IF s \in States(f) THEN f.states[s]
                                                 ELSE VectorState],
              !.props = StoreProperties(@, AddStateProperties(@))]

AddState(f) == AddStates(f, 1)

AddArc(f, s, a) ==
    [f EXCEPT !.states[s] = StateAddArc(@, a),
              !.props = StoreProperties(@,
                            AddArcProperties(@, s, a, Nontrivial(a.weight),
                                             f.states[s].arcs))]

DeleteArcs(f, s, n) ==
    [f EXCEPT !.states[s] = StateDeleteArcs(@, n),
              !.props = StoreProperties(@, DeleteArcsProperties(@))]

\* The member of a set K of positions that becomes the n-th one when the others
\* are dropped.
Nth(K, n) == CHOOSE i \in K : Cardinality({j \in K : j <= i}) = n

\* The mutation StateRetargetStale drops arcs but renumbers none.
StateRetargetStale(st, newid) ==
    LET kept == {i \in DOMAIN st.arcs : newid[st.arcs[i].nextstate] # kNoStateId}
    IN  [st EXCEPT !.arcs = [n \in 1 .. Cardinality(kept) |-> st.arcs[Nth(kept, n)]]]

\* The arcs into a deleted state go, the others are renumbered.
StateRetarget(st, newid) ==
    LET kept == {i \in DOMAIN st.arcs : newid[st.arcs[i].nextstate] # kNoStateId}
        gone == DOMAIN st.arcs \ kept
    IN  [st EXCEPT
            !.arcs = [n \in 1 .. Cardinality(kept) |->
                        [st.arcs[Nth(kept, n)] EXCEPT !.nextstate = newid[@]]],
            !.niepsilons = @ - Cardinality(IEpsilonsAt(st.arcs, gone)),
            !.noepsilons = @ - Cardinality(OEpsilonsAt(st.arcs, gone))]

NewIds(f, dstates) ==
    [s \in States(f) |-> IF s \in dstates THEN kNoStateId
                         ELSE s - Cardinality({d \in dstates : d < s})]

\* ImplToMutableFst::DeleteStates returns at once when dstates is empty.
DeleteStates(f, dstates) ==
    LET newid == NewIds(f, dstates)
        OldId(t) == CHOOSE s \in States(f) : newid[s] = t
        n == NumStates(f) - Cardinality(dstates)
    IN  IF dstates = {} THEN f
        ELSE [start |-> IF f.start = kNoStateId THEN f.start ELSE newid[f.start],
              states |-> [t \in 0 .. n - 1 |->
                              StateRetarget(f.states[OldId(t)], newid)],
              props |-> StoreProperties(f.props, DeleteStatesProperties(f.props))]

DeleteAllStates(f) ==
    [start |-> kNoStateId, states |-> <<>>,
     props |-> StoreProperties(f.props,
                   DeleteAllStatesProperties(f.props, kStaticProperties))]

\* MutableArcIterator::SetValue at position i, which stores the word as it is.
SetValue(f, s, i, a) ==
    LET oarc == f.states[s].arcs[i]
    IN  [f EXCEPT !.states[s] = StateSetArc(@, a, i),
                  !.props = SetValueProperties(@, oarc, Nontrivial(oarc.weight),
                                               a, Nontrivial(a.weight))]

SetProperties(f, props, mask) ==
    [f EXCEPT !.props = StoreMasked(@, props, mask)]

\* VectorFstImpl(fst): what a copy-on-write clone holds.
CopyOf(f) ==
    [f EXCEPT !.props = (@ \cap kCopyProperties) \cup kStaticProperties]

-----------------------------------------------------------------------------
(* What the bits mean: the facts the comments of properties.h state.       *)

Decide(cond, yes, no) == IF cond THEN {yes} ELSE {no}

\* The states that a path from s leads to: paths without a cycle are shorter
\* than the number of states.
WithNext(f, S) == S \cup {a.nextstate : a \in UNION {ArcsOf(f, s) : s \in S}}

ReachedFrom(f, s) ==
    LET Within[n \in Nat] == IF n = 0 THEN {s} ELSE WithNext(f, Within[n - 1])
    IN  Within[NumStates(f)]

Reaches(f, s, t) == t \in ReachedFrom(f, s)

OnCycle(f, s) == \E a \in ArcsOf(f, s) : Reaches(f, a.nextstate, s)
IsFinal(f, s) == f.states[s].final # "Zero"
Coaccessible(f, s) == \E t \in States(f) : IsFinal(f, t) /\ Reaches(f, s, t)
Accessible(f, s) == f.start # kNoStateId /\ Reaches(f, f.start, s)

UniqueLabels(arcs, L(_)) == \A i, j \in DOMAIN arcs : L(arcs[i]) = L(arcs[j]) => i = j
SortedLabels(arcs, L(_)) == \A i, j \in DOMAIN arcs : i < j => L(arcs[i]) <= L(arcs[j])

EachState(f, P(_)) == \A s \in States(f) : P(s)
EachArc(f, P(_, _)) == \A s \in States(f) : \A a \in ArcsOf(f, s) : P(s, a)

IsString(f) ==
    /\ f.start \in {kNoStateId, 0}
    /\ EachArc(f, LAMBDA s, a : a.nextstate = s + 1)
    /\ EachState(f, LAMBDA s : IF IsFinal(f, s)
                               THEN s = NumStates(f) - 1
                               ELSE Len(f.states[s].arcs) = 1)

ILabel(a) == a.ilabel
OLabel(a) == a.olabel

LabelFacts(f) ==
    Decide(EachArc(f, LAMBDA s, a : a.ilabel = a.olabel), "Acceptor", "NotAcceptor")
    \cup Decide(EachState(f, LAMBDA s : UniqueLabels(f.states[s].arcs, ILabel)),
                "IDeterministic", "NonIDeterministic")
    \cup Decide(EachState(f, LAMBDA s : UniqueLabels(f.states[s].arcs, OLabel)),
                "ODeterministic", "NonODeterministic")
    \cup Decide(EachArc(f, LAMBDA s, a : a.ilabel # 0 \/ a.olabel # 0),
                "NoEpsilons", "Epsilons")
    \cup Decide(EachArc(f, LAMBDA s, a : a.ilabel # 0), "NoIEpsilons", "IEpsilons")
    \cup Decide(EachArc(f, LAMBDA s, a : a.olabel # 0), "NoOEpsilons", "OEpsilons")
    \cup Decide(EachState(f, LAMBDA s : SortedLabels(f.states[s].arcs, ILabel)),
                "ILabelSorted", "NotILabelSorted")
    \cup Decide(EachState(f, LAMBDA s : SortedLabels(f.states[s].arcs, OLabel)),
                "OLabelSorted", "NotOLabelSorted")

OrderFacts(f) ==
    Decide(/\ EachArc(f, LAMBDA s, a : ~ Nontrivial(a.weight))
           /\ EachState(f, LAMBDA s : ~ Nontrivial(f.states[s].final)),
           "Unweighted", "Weighted")
    \cup Decide(EachArc(f, LAMBDA s, a : a.nextstate > s), "TopSorted", "NotTopSorted")
    \cup Decide(IsString(f), "String", "NotString")

CycleFacts(f) ==
    Decide(EachState(f, LAMBDA s : ~ OnCycle(f, s)), "Acyclic", "Cyclic")
    \cup Decide(f.start # kNoStateId /\ OnCycle(f, f.start),
                "InitialCyclic", "InitialAcyclic")
    \cup Decide(EachState(f, LAMBDA s : Accessible(f, s)), "Accessible", "NotAccessible")
    \cup Decide(EachState(f, LAMBDA s : Coaccessible(f, s)),
                "CoAccessible", "NotCoAccessible")

CycleWeightFacts(f) ==
    Decide(EachArc(f, LAMBDA s, a : ~ (Nontrivial(a.weight) /\ Reaches(f, a.nextstate, s))),
           "UnweightedCycles", "WeightedCycles")

Truth(f) == LabelFacts(f) \cup OrderFacts(f) \cup CycleFacts(f) \cup CycleWeightFacts(f)

-----------------------------------------------------------------------------
(* ComputeProperties and TestProperties: how fst.Properties(mask, true)    *)
(* finds the bits.  What SccVisitor finds in a depth-first search is taken *)
(* from the definitions above; the pass over states and arcs is that of    *)
(* the code.  DfsVisit visits nothing of an FST without a start state, so  *)
(* the bits of the visitor are then those of the empty machine, and the    *)
(* component numbers it would have assigned are missing: whether two of    *)
(* them read as equal is arbitrary.                                        *)

kDfsProps == Bits({ <<"Cyclic", "Acyclic">>, <<"InitialCyclic", "InitialAcyclic">>,
                    <<"Accessible", "NotAccessible">>,
                    <<"CoAccessible", "NotCoAccessible">> })
kCycleWeights == {"WeightedCycles", "UnweightedCycles"}

DfsFacts(f) ==
    IF f.start = kNoStateId
    THEN {"Acyclic", "InitialAcyclic", "Accessible", "CoAccessible"}
    ELSE CycleFacts(f)

\* scc[s] == scc[t], for the choice junk of what is read without a search.
SameScc(f, s, t, junk) ==
    IF f.start = kNoStateId THEN junk ELSE Reaches(f, s, t) /\ Reaches(f, t, s)

\* What the pass over states and arcs refutes of the assumed bits: pairs of the
\* bit that is set and the bit that is cleared.  No bit is in both roles, so that
\* the order does not matter.  An arc at position i of s:
ArcRefutes(assumed, f, s, i, junk) ==
    LET arcs == f.states[s].arcs
        arc == arcs[i]
        Seen(L(_)) == \E j \in 1 .. i - 1 : L(arcs[j]) = L(arc)
    IN  ArcPairs(arc, Nontrivial(arc.weight))
        \cup If("IDeterministic" \in assumed /\ Seen(ILabel),
                {<<"NonIDeterministic", "IDeterministic">>})
        \cup If("ODeterministic" \in assumed /\ Seen(OLabel),
                {<<"NonODeterministic", "ODeterministic">>})
        \cup If(i > 1 /\ arc.ilabel < arcs[i - 1].ilabel,
                {<<"NotILabelSorted", "ILabelSorted">>})
        \cup If(i > 1 /\ arc.olabel < arcs[i - 1].olabel,
                {<<"NotOLabelSorted", "OLabelSorted">>})
        \cup If(/\ Nontrivial(arc.weight) /\ "UnweightedCycles" \in assumed
                /\ SameScc(f, s, arc.nextstate, junk),
                {<<"WeightedCycles", "UnweightedCycles">>})
        \cup If(arc.nextstate <= s, {<<"NotTopSorted", "TopSorted">>})
        \cup If(arc.nextstate # s + 1, {<<"NotString", "String">>})

\* The mutation StateRefutesAnyFinal overlooks states after the final one.
StateRefutesAnyFinal(f, s) ==
    If(Nontrivial(f.states[s].final), {<<"Weighted", "Unweighted">>})
    \cup If(~ IsFinal(f, s) /\ Len(f.states[s].arcs) # 1, {<<"NotString", "String">>})

\* A string has one final state, the last one, and one arc at every other.
StateRefutes(f, s) ==
    If(\E t \in 0 .. s - 1 : IsFinal(f, t), {<<"NotString", "String">>})
    \cup If(Nontrivial(f.states[s].final), {<<"Weighted", "Unweighted">>})
    \cup If(~ IsFinal(f, s) /\ Len(f.states[s].arcs) # 1, {<<"NotString", "String">>})

Refuted(f, assumed, junk) ==
    (UNION {StateRefutes(f, s) : s \in States(f)})
    \cup (UNION {UNION {ArcRefutes(assumed, f, s, i, junk) : i \in DOMAIN f.states[s].arcs} :
                     s \in States(f)})
    \cup If(f.start \notin {kNoStateId, 0}, {<<"NotString", "String">>})

Scan(f, assumed, junk) == Raise(assumed, Refuted(f, assumed, junk))

ComputeProperties(f, mask, junk) ==
    LET dfs == mask \cap (kDfsProps \cup kCycleWeights) # {}
        scan == mask \ (kBinaryProperties \cup kDfsProps) # {}
        known == (f.props \cap kBinaryProperties) \cup If(dfs, DfsFacts(f))
        Asked(yes, no) == If(mask \cap {yes, no} # {}, {yes})
        assumed == { "Acceptor", "NoEpsilons", "NoIEpsilons", "NoOEpsilons",
                     "ILabelSorted", "OLabelSorted", "Unweighted", "TopSorted",
                     "String" }
                   \cup Asked("IDeterministic", "NonIDeterministic")
                   \cup Asked("ODeterministic", "NonODeterministic")
                   \cup If(dfs, {"UnweightedCycles"})
    IN  IF scan THEN Scan(f, known \cup assumed, junk) ELSE known

ComputeResults(f, mask) ==
    {ComputeProperties(f, mask, junk) :
        junk \in IF f.start = kNoStateId THEN BOOLEAN ELSE {FALSE}}

\* The possible results of TestProperties: the stored bits where they suffice.
TestResults(f, mask) ==
    IF mask \subseteq KnownProperties(f.props) THEN {f.props} ELSE ComputeResults(f, mask)

\* Properties(mask, true) also stores what the result knows.
TestProperties(f, result) ==
    [f EXCEPT !.props = UpdateProperties(@, result, KnownProperties(result))]

-----------------------------------------------------------------------------
(* The state machine: a client calls the mutators in any order.            *)

VARIABLE fst

AllArcs == {Arc(k[1], k[2], k[3], t) : k \in ArcKinds, t \in States(fst)}

Init == fst = EmptyFst

DoSetStart == \E s \in States(fst) : fst' = SetStart(fst, s)

DoSetFinal == \E s \in States(fst), w \in FinalWeights : fst' = SetFinal(fst, s, w)

DoAddStates ==
    \E n \in 0 .. MaxStates - NumStates(fst) : fst' = AddStates(fst, n)

DoAddArc ==
    /\ NumArcs(fst) < MaxArcs
    /\ \E s \in States(fst), a \in AllArcs : fst' = AddArc(fst, s, a)

DoDeleteArcs ==
    \E s \in States(fst), n \in 0 .. MaxArcs : fst' = DeleteArcs(fst, s, n)

DoDeleteStates ==
    \E dstates \in SUBSET States(fst) : fst' = DeleteStates(fst, dstates)

DoDeleteAllStates == fst' = DeleteAllStates(fst)

DoSetValue ==
    \E s \in States(fst) : \E i \in DOMAIN fst.states[s].arcs, a \in AllArcs :
        fst' = SetValue(fst, s, i, a)

\* The client goes on with a clone, as MutateCheck does for a shared machine.
DoCopy == fst' = CopyOf(fst)

\* The convention of the library (docs/conventions.md): only the empty machine
\* has no start state.  Before SetStart a client neither tests a machine nor
\* passes it to an operation.
Conventional(f) == f.start # kNoStateId \/ NumStates(f) = 0

DoTestProperties ==
    /\ Conventional(fst)
    /\ \E mask \in Masks : \E result \in TestResults(fst, mask) :
            fst' = TestProperties(fst, result)

Next ==
    \/ DoSetStart \/ DoSetFinal \/ DoAddStates \/ DoAddArc \/ DoDeleteArcs
    \/ DoDeleteStates \/ DoDeleteAllStates \/ DoSetValue
    \/ DoTestProperties \/ DoCopy

Spec == Init /\ [][Next]_fst

-----------------------------------------------------------------------------
(* Properties.                                                             *)

\* The type invariant: the start state and every arc lead to states that exist,
\* also after DeleteStates has renumbered them, and the epsilon counters of a
\* VectorState count the epsilons of its arcs, also after arcs were replaced in
\* place, dropped from the end, or lost to a deleted state (vector-fst.h SetArc,
\* DeleteArcs, DeleteStates).
VectorTypeOK == IsVectorFst(fst)

\* Every stored bit is true of the machine, whatever mutators and tests came
\* before: no mutator keeps a bit that its change falsifies (vector-fst.h with
\* the masks and functions of properties.h).
PropsSound == fst.props \cap kTrinaryProperties \subseteq Truth(fst)

\* What a client is told by Properties(mask, true) is the truth and leaves no
\* bit of the mask unknown, whether the bits were stored or computed
\* (test-properties.h ComputeOrUseStoredProperties).
AnswersTrue ==
    LET Agrees(truth) ==
            \A mask \in Masks \cup {kDfsProps, kCycleWeights} : \A result \in TestResults(fst, mask) :
                result \cap mask \cap kTrinaryProperties = truth \cap mask
    IN  fst.start # kNoStateId /\ NumStates(fst) <= MaxStates /\ NumArcs(fst) <= MaxArcs => Agrees(Truth(fst))
=============================================================================
