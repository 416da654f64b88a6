------------------------------- MODULE FstOps -------------------------------
(***************************************************************************)
(* The operations that modify a mutable FST in place: Union, Concat,       *)
(* Closure, ArcMap with its mappers (Invert, Project, ...), ArcSort,       *)
(* StateSort, TopSort and Connect, and Reverse, which writes a new FST.    *)
(* Each builds its result with the mutators of VectorFst and then          *)
(* overwrites the stored bits with what its property function derives from *)
(* the bits its arguments had before.                                      *)
(***************************************************************************)
EXTENDS VectorFst

CONSTANTS
    Operands,           \* the FSTs a client passes as the other argument
    Mappers,            \* the mappers a client passes to ArcMap
    OpArcKinds,         \* the labels and weights of the arcs of its machines
    OpFinalWeights,     \* and their final weights
    MaxOpArcs           \* bound: arcs of a machine that is passed to an operation

ASSUME MappersAssumption ==
    Mappers \subseteq { "Invert", "ProjectInput", "ProjectOutput", "RmWeight",
                        "SuperFinal", "SuperFinalLabel" }
ASSUME OperandsAssumption == \A g \in Operands : IsVectorFst(g)
ASSUME OpKindsAssumption ==
    OpArcKinds \subseteq Nat \X Nat \X Weights /\ OpFinalWeights \subseteq Weights

SetError(f) == SetProperties(f, {"Error"}, {"Error"})
PassError(f, g) == IF "Error" \in g.props THEN SetError(f) ELSE f

Epsilon(w, t) == Arc(0, 0, w, t)

\* A loop is a function: what is there after each of its rounds.
AddArcs(f, s, arcs) ==
    LET after[i \in 0 .. Len(arcs)] ==
            IF i = 0 THEN f ELSE AddArc(after[i - 1], s, arcs[i])
    IN  after[Len(arcs)]

Shifted(arcs, n) == [i \in DOMAIN arcs |-> [arcs[i] EXCEPT !.nextstate = @ + n]]

\* Appends the states of g to f: state 0 of g becomes state n.
CopyState(f, g, s, n) ==
    LET t == NumStates(f)
    IN  AddArcs(SetFinal(AddState(f), t, g.states[s].final), t,
                Shifted(g.states[s].arcs, n))

CopyStates(f, g) ==
    LET after[i \in 0 .. NumStates(g)] ==
            IF i = 0 THEN f ELSE CopyState(after[i - 1], g, i - 1, NumStates(f))
    IN  after[NumStates(g)]

\* The mutation UnionAtCycle always reuses the start state of f.
UnionAtCycle(f, g) ==
    LET start2 == g.start + NumStates(f)
    IN  IF g.start = kNoStateId \/ f.start = kNoStateId THEN f
        ELSE SetProperties(AddArc(CopyStates(f, g), f.start, Epsilon("One", start2)),
                           UnionProperties(f.props, g.props, FALSE), kFstProperties)

Union(f, g) ==
    LET start2 == g.start + NumStates(f)
        copied == CopyStates(f, g)
        started == SetStart(copied, start2)
        nstart == NumStates(copied)
        joined == IF "InitialAcyclic" \in f.props
                  THEN AddArc(copied, f.start, Epsilon("One", start2))
                  ELSE AddArcs(SetStart(AddState(copied), nstart), nstart,
                               << Epsilon("One", f.start), Epsilon("One", start2) >>)
    IN  CASE g.start = kNoStateId -> PassError(f, g)
          [] g.start # kNoStateId /\ f.start = kNoStateId /\ NumStates(f) = 0 ->
                SetProperties(started, g.props \cup (f.props \cap {"Error"}),
                              kCopyProperties)
          [] g.start # kNoStateId /\ f.start = kNoStateId /\ NumStates(f) > 0 ->
                PassError(started, g)
          [] OTHER -> SetProperties(joined, UnionProperties(f.props, g.props, FALSE),
                                    kFstProperties)

\* The final weight of s moves to an arc to the start state of the second FST,
\* which is start2 there and start2 + n here.
Redirect(f, s, start2, n) ==
    LET w == f.states[s].final
        cleared == SetFinal(f, s, "Zero")
    IN  CASE w = "Zero" -> f
          [] w # "Zero" /\ start2 = kNoStateId -> cleared
          [] OTHER -> AddArc(cleared, s, Epsilon(w, start2 + n))

RedirectStates(f, g) ==
    LET n == NumStates(f)
        after[i \in 0 .. n] ==
            IF i = 0 THEN CopyStates(f, g) ELSE Redirect(after[i - 1], i - 1, g.start, n)
    IN  after[n]

\* Concat(fst1, fst2) that modifies its first argument f.
ConcatAppend(f, g) ==
    LET joined == RedirectStates(f, g)
    IN  IF f.start = kNoStateId THEN PassError(f, g)
        ELSE IF g.start = kNoStateId THEN PassError(joined, g)
        ELSE SetProperties(joined, ConcatProperties(f.props, g.props, FALSE),
                           kFstProperties)

\* Appends a state of g, its final weight as an arc to the state start.
LinkState(f, g, s, n, start) ==
    LET t == NumStates(f)
        w == g.states[s].final
        linked == IF w = "Zero" THEN AddState(f)
                  ELSE AddArc(AddState(f), t, Epsilon(w, start))
    IN  AddArcs(linked, t, Shifted(g.states[s].arcs, n))

LinkStates(g, f) ==
    LET after[i \in 0 .. NumStates(g)] ==
            IF i = 0 THEN f ELSE LinkState(after[i - 1], g, i - 1, NumStates(f), f.start)
    IN  after[NumStates(g)]

\* Concat(fst1, fst2) that modifies its second argument f.
ConcatPrepend(g, f) ==
    LET joined == LinkStates(g, f)
    IN  CASE f.start = kNoStateId -> PassError(f, g)
          [] f.start # kNoStateId /\ g.start # kNoStateId ->
                SetProperties(SetStart(joined, g.start + NumStates(f)),
                              ConcatProperties(g.props, f.props, FALSE), kFstProperties)
          [] OTHER -> IF "Error" \in g.props THEN SetError(joined)
                      ELSE SetStart(AddState(joined), NumStates(joined))

\* A final state gets an arc back to the start state.
LoopBack(f, s) ==
    IF IsFinal(f, s) THEN AddArc(f, s, Epsilon(f.states[s].final, f.start)) ELSE f

LoopStates(f) ==
    LET after[i \in 0 .. NumStates(f)] ==
            IF i = 0 THEN f ELSE LoopBack(after[i - 1], i - 1)
    IN  after[NumStates(f)]

Closure(f, star) ==
    LET looped == IF f.start = kNoStateId THEN f ELSE LoopStates(f)
        nstart == NumStates(f)
        started == SetFinal(SetStart(AddState(looped), nstart), nstart, "One")
        result == CASE ~ star -> looped
                    [] star /\ f.start = kNoStateId -> started
                    [] OTHER -> AddArc(started, nstart, Epsilon("One", f.start))
    IN  SetProperties(result, ClosureProperties(f.props, FALSE), kFstProperties)

-----------------------------------------------------------------------------
(* ArcMap and its mappers.                                                 *)

RemovedWeight(w) == IF w = "Zero" THEN "Zero" ELSE "One"

InvertArc(a) == Arc(a.olabel, a.ilabel, a.weight, a.nextstate)
ProjectArc(a, label) == Arc(label, label, a.weight, a.nextstate)

MapArc(mapper, a) ==
    CASE mapper = "Invert" -> InvertArc(a)
      [] mapper = "ProjectInput" -> ProjectArc(a, a.ilabel)
      [] mapper = "ProjectOutput" -> ProjectArc(a, a.olabel)
      [] mapper = "RmWeight" -> [a EXCEPT !.weight = RemovedWeight(@)]
      [] OTHER -> a

MapperProperties(mapper, props) ==
    CASE mapper = "Invert" -> InvertProperties(props)
      [] mapper = "ProjectInput" -> ProjectProperties(props, InputBits, OutputBits)
      [] mapper = "ProjectOutput" -> ProjectProperties(props, OutputBits, InputBits)
      [] mapper = "RmWeight" -> (props \cap kWeightInvariantProperties) \cup {"Unweighted"}
      [] mapper = "SuperFinal" -> props \cap kAddSuperFinalProperties
      [] OTHER -> props \cap kAddSuperFinalProperties \cap kILabelInvariantProperties
                        \cap kOLabelInvariantProperties

\* Every arc of a state goes through SetValue.
MapArcs(mapper, f, s) ==
    LET arcs == f.states[s].arcs
        after[i \in 0 .. Len(arcs)] ==
            IF i = 0 THEN f ELSE SetValue(after[i - 1], s, i, MapArc(mapper, arcs[i]))
    IN  after[Len(arcs)]

\* MAP_NO_SUPERFINAL: a final weight is mapped as an epsilon arc.
MapFinal(mapper, f, s) ==
    SetFinal(f, s, MapArc(mapper, Epsilon(f.states[s].final, kNoStateId)).weight)

\* MAP_REQUIRE_SUPERFINAL: a final weight becomes an arc to the superfinal state.
RedirectFinal(f, s, superfinal, label) ==
    LET w == f.states[s].final
        linked == IF w = "Zero" THEN f
                  ELSE AddArc(f, s, Arc(label, label, w, superfinal))
    IN  IF s = superfinal THEN f ELSE SetFinal(linked, s, "Zero")

RequiresSuperFinal(mapper) == mapper \in {"SuperFinal", "SuperFinalLabel"}

MapState(mapper, f, s, superfinal) ==
    LET mapped == MapArcs(mapper, f, s)
        label == IF mapper = "SuperFinalLabel" THEN 1 ELSE 0
    IN  IF RequiresSuperFinal(mapper) THEN RedirectFinal(mapped, s, superfinal, label)
                                      ELSE MapFinal(mapper, mapped, s)

MapStates(mapper, f, superfinal) ==
    LET after[i \in 0 .. NumStates(f)] ==
            IF i = 0 THEN f ELSE MapState(mapper, after[i - 1], i - 1, superfinal)
    IN  after[NumStates(f)]

ArcMap(mapper, f) ==
    LET superfinal == NumStates(f)
        prepared == IF RequiresSuperFinal(mapper)
                    THEN SetFinal(AddState(f), superfinal, "One") ELSE f
    IN  IF f.start = kNoStateId THEN f
        ELSE SetProperties(MapStates(mapper, prepared, superfinal),
                           MapperProperties(mapper, f.props), kFstProperties)

-----------------------------------------------------------------------------
(* ArcSort, StateSort, TopSort and Connect.                                *)

Key(a, side) == IF side = "I" THEN <<a.ilabel, a.olabel>> ELSE <<a.olabel, a.ilabel>>
Less(k, l) == k[1] < l[1] \/ (k[1] = l[1] /\ k[2] < l[2])

\* std::stable_sort: equal arcs keep their order.
SortedArcs(arcs, side) ==
    LET Before(i, j) == \/ Less(Key(arcs[i], side), Key(arcs[j], side))
                        \/ Key(arcs[i], side) = Key(arcs[j], side) /\ i < j
        Rank(i) == 1 + Cardinality({j \in DOMAIN arcs : Before(j, i)})
    IN  [r \in DOMAIN arcs |-> arcs[CHOOSE i \in DOMAIN arcs : Rank(i) = r]]

ReplaceArcs(f, s, arcs) == AddArcs(DeleteArcs(f, s, Len(f.states[s].arcs)), s, arcs)

SortState(f, s, side) ==
    SetFinal(ReplaceArcs(f, s, SortedArcs(f.states[s].arcs, side)), s, f.states[s].final)

SortStates(f, side) ==
    LET after[i \in 0 .. NumStates(f)] ==
            IF i = 0 THEN SetStart(f, f.start) ELSE SortState(after[i - 1], i - 1, side)
    IN  after[NumStates(f)]

\* StateMap with an ArcSortMapper.
ArcSort(f, side) ==
    LET props == IF side = "I"
                 THEN ArcSortProperties(f.props, "ILabelSorted", "OLabelSorted")
                 ELSE ArcSortProperties(f.props, "OLabelSorted", "ILabelSorted")
    IN  IF f.start = kNoStateId THEN f
        ELSE SetProperties(SortStates(f, side), props, kFstProperties)

Relabeled(arcs, order) ==
    [i \in DOMAIN arcs |-> [arcs[i] EXCEPT !.nextstate = order[@]]]

\* The mutation MoveStateUnsaved forgets to save the state it overwrites.
MoveStateUnsaved(acc, order) ==
    LET s2 == order[acc.s]
    IN  IF acc.s \in acc.done THEN acc
        ELSE [acc EXCEPT
                !.f = ReplaceArcs(SetFinal(@, s2, acc.held.final), s2,
                                  Relabeled(acc.held.arcs, order)),
                !.done = @ \cup {acc.s}, !.s = s2]

\* One move along a cycle of the permutation: what is held from state acc.s goes
\* to order[acc.s], whose own contents are held next.
MoveState(acc, order) ==
    LET s2 == order[acc.s]
    IN  IF acc.s \in acc.done THEN acc
        ELSE [acc EXCEPT
                !.f = ReplaceArcs(SetFinal(@, s2, acc.held.final), s2,
                                  Relabeled(acc.held.arcs, order)),
                !.held = acc.f.states[s2],
                !.done = @ \cup {acc.s}, !.s = s2]

\* The cycle of s: n moves are enough, and those after the last change nothing.
MoveCycle(acc, s, order, n) ==
    LET after[i \in 0 .. n] ==
            IF i = 0 THEN [acc EXCEPT !.s = s, !.held = acc.f.states[s]]
            ELSE MoveState(after[i - 1], order)
    IN  IF s \in acc.done THEN acc ELSE after[n]

MoveCycles(f, order) ==
    LET n == NumStates(f)
        after[i \in 0 .. n] ==
            IF i = 0 THEN [f |-> SetStart(f, order[f.start]), done |-> {}, s |-> 0,
                           held |-> VectorState]
            ELSE MoveCycle(after[i - 1], i - 1, order, n)
    IN  after[n].f

\* The result holds state s at order[s].
StateSort(f, order) ==
    IF f.start = kNoStateId THEN f
    ELSE SetProperties(MoveCycles(f, order), f.props \cap kStateSortProperties,
                       kFstProperties)

Orders(f) == {p \in [States(f) -> States(f)] : IsInjective(p)}

TopologicalOrders(f) ==
    {p \in Orders(f) : EachArc(f, LAMBDA s, a : p[s] < p[a.nextstate])}

\* TopOrderVisitor leaves some topological order if there is one.  Without a
\* start state nothing is visited: the order is empty, the machine counts as
\* acyclic, and StateSort rejects the order unless there are no states.
TopSortResults(f) ==
    LET sorted == {"Acyclic", "InitialAcyclic", "TopSorted"}
        cyclic == {"Cyclic", "NotTopSorted"}
    IN  IF f.start = kNoStateId
        THEN {SetProperties(IF NumStates(f) = 0 THEN f ELSE SetError(f), sorted, sorted)}
        ELSE IF TopologicalOrders(f) = {} THEN {SetProperties(f, cyclic, cyclic)}
        ELSE {SetProperties(StateSort(f, p), sorted, sorted) : p \in TopologicalOrders(f)}

\* SccVisitor visits nothing without a start state: nothing is then deleted.
Connect(f) ==
    LET trimmed == {"Accessible", "CoAccessible"}
        useless == IF f.start = kNoStateId THEN {}
                   ELSE {s \in States(f) : ~ (Accessible(f, s) /\ Coaccessible(f, s))}
    IN  SetProperties(DeleteStates(f, useless), trimmed, trimmed)

-----------------------------------------------------------------------------
(* Reverse into a new FST.  prod stands for the product of two weights     *)
(* that are neither Zero nor One: it may be One, but not Zero.             *)

Times(v, w, prod) ==
    CASE v = "Zero" \/ w = "Zero" -> "Zero"
      [] v = "One" -> w
      [] v # "One" /\ w = "One" -> v
      [] OTHER -> prod

GrowTo(f, s) == IF s < NumStates(f) THEN f ELSE AddStates(f, s + 1 - NumStates(f))

Finals(f) == {s \in States(f) : IsFinal(f, s)}

\* May the only final state become the start state?
SingleFinal(f) == Cardinality(Finals(f)) = 1

\* How a machine is reversed: the state that becomes the start state, the shift
\* of the states, and the weight that is moved to the arcs of the start state.
Plan(f, reused, last, prod) ==
    [reused |-> reused, offset |-> IF reused THEN 0 ELSE 1,
     ostart |-> IF reused THEN last ELSE 0,
     moved |-> IF reused THEN f.states[last].final ELSE "One", prod |-> prod]

\* An arc of state s.
ReverseArc(acc, s, a, plan) ==
    LET t == a.nextstate + plan.offset
        w == IF plan.reused /\ t = plan.ostart THEN Times(plan.moved, a.weight, plan.prod)
                                               ELSE a.weight
    IN  AddArc(GrowTo(acc, t), t, Arc(a.ilabel, a.olabel, w, s + plan.offset))

ReverseState(acc, f, s, plan) ==
    LET os == s + plan.offset
        grown == GrowTo(acc, os)
        marked == IF s = f.start THEN SetFinal(grown, os, "One") ELSE grown
        linked == IF IsFinal(f, s) /\ ~ plan.reused
                  THEN AddArc(marked, 0, Epsilon(f.states[s].final, os)) ELSE marked
        arcs == f.states[s].arcs
        after[i \in 0 .. Len(arcs)] ==
            IF i = 0 THEN linked ELSE ReverseArc(after[i - 1], s, arcs[i], plan)
    IN  after[Len(arcs)]

ReverseStates(f, plan) ==
    LET after[i \in 0 .. NumStates(f)] ==
            IF i = 0 THEN GrowTo(EmptyFst, plan.offset - 1)
            ELSE ReverseState(after[i - 1], f, i - 1, plan)
    IN  after[NumStates(f)]

ReverseFst(f, require_superinitial, prod) ==
    LET single == ~ require_superinitial /\ SingleFinal(f)
        last == CHOOSE s \in Finals(f) : TRUE
        visited == single /\ f.states[last].final # "One"
        reused == single /\ (visited => ~ OnCycle(f, last))
        plan == Plan(f, reused, last, prod)
        started == SetStart(ReverseStates(f, plan), plan.ostart)
        result == IF reused /\ last = f.start
                  THEN SetFinal(started, last, f.states[last].final) ELSE started
        iprops == (f.props \cap kCopyProperties)
                      \cup (IF visited THEN CycleFacts(f) ELSE {})
        oprops == result.props
                      \cup (IF visited /\ reused THEN {"InitialAcyclic"} ELSE {})
    IN  SetProperties(result, ReverseProperties(iprops, ~ reused) \cup oprops,
                      kFstProperties)

-----------------------------------------------------------------------------
(* The state machine: a client builds a machine with the mutators and      *)
(* applies operations to it, in any order.                                 *)

Small == NumStates(fst) <= MaxStates /\ NumArcs(fst) <= MaxOpArcs
Applicable == Small /\ Conventional(fst)

BuildFinal == \E s \in States(fst), w \in OpFinalWeights : fst' = SetFinal(fst, s, w)
BuildArc ==
    /\ NumArcs(fst) < MaxOpArcs
    /\ \E s, t \in States(fst), k \in OpArcKinds : fst' = AddArc(fst, s, Arc(k[1], k[2], k[3], t))
Build == Small /\ (DoAddStates \/ DoSetStart \/ BuildFinal \/ BuildArc)
DoTest == Small /\ DoTestProperties

DoUnion == Applicable /\ \E g \in Operands : fst' = Union(fst, g)
DoConcatAppend == Applicable /\ \E g \in Operands : fst' = ConcatAppend(fst, g)
DoConcatPrepend == Applicable /\ \E g \in Operands : fst' = ConcatPrepend(g, fst)
\* A call that rejects its arguments: Union and Concat of machines whose symbol
\* tables do not match, StateSort with an order of another length.
DoReject == Applicable /\ fst' = SetError(fst)
DoClosure == Applicable /\ \E star \in BOOLEAN : fst' = Closure(fst, star)
DoArcMap == Applicable /\ \E mapper \in Mappers : fst' = ArcMap(mapper, fst)
DoArcSort == Applicable /\ \E side \in {"I", "O"} : fst' = ArcSort(fst, side)
DoStateSort == Applicable /\ \E order \in Orders(fst) : fst' = StateSort(fst, order)
DoTopSort == Applicable /\ fst' \in TopSortResults(fst)
DoConnect == Applicable /\ fst' = Connect(fst)
DoReverse ==
    /\ Applicable
    /\ \E super \in BOOLEAN, prod \in {"One", "Other"} : fst' = ReverseFst(fst, super, prod)

OpsNext ==
    \/ Build \/ DoTest \/ DoDeleteAllStates \/ DoUnion \/ DoConcatAppend \/ DoConcatPrepend
    \/ DoClosure \/ DoArcMap \/ DoArcSort \/ DoStateSort \/ DoTopSort
    \/ DoConnect \/ DoReverse \/ DoReject

OpsSpec == Init /\ [][OpsNext]_fst

-----------------------------------------------------------------------------
(* Properties, besides those of VectorFst.                                 *)

Failed(f) == "Error" \in f.props

\* An error of either argument is an error of the result, on every path through
\* an operation: empty arguments return early and must pass it on, the others
\* rely on the property functions.  Once set, the error bit also survives the
\* mutators, the one that stores the bits of a changed arc directly included
\* (vector-fst.h SetValue).  It is enough to look at machines all of whose bits
\* are known: an unknown bit acts like one that is known to be false.
ErrorPropagates ==
    Applicable /\ KnownProperties(fst.props) = kFstProperties =>
        LET bad == SetError(fst)
        IN  /\ \A g \in Operands :
                  /\ Failed(Union(bad, g)) /\ Failed(Union(fst, SetError(g)))
                  /\ Failed(ConcatAppend(bad, g)) /\ Failed(ConcatAppend(fst, SetError(g)))
                  /\ Failed(ConcatPrepend(g, bad)) /\ Failed(ConcatPrepend(SetError(g), fst))
            /\ \A mapper \in Mappers : Failed(ArcMap(mapper, bad))
            /\ \A super \in BOOLEAN : Failed(ReverseFst(bad, super, "Other"))
            /\ Failed(Closure(bad, TRUE)) /\ Failed(Connect(bad)) /\ Failed(DeleteAllStates(bad))
            /\ \A s \in States(fst) :
                  LET a == Epsilon("One", s)
                  IN  /\ Failed(AddArc(bad, s, a)) /\ Failed(DeleteArcs(bad, s, 1))
                      /\ Failed(SetFinal(bad, s, "Other")) /\ Failed(DeleteStates(bad, {s}))
                      /\ \A i \in DOMAIN fst.states[s].arcs : Failed(SetValue(bad, s, i, a))
=============================================================================
