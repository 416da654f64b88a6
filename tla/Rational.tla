------------------------------ MODULE Rational ------------------------------
(***************************************************************************)
(* RationalFst (rational.h), the delayed union, concatenation and closure: *)
(* a small machine with an arc for every operand, which the operations of  *)
(* FstOps rewrite, and a ReplaceFst over it that is made when it is first  *)
(* asked for and thrown away when the machine is rewritten.                *)
(***************************************************************************)
EXTENDS Replace

V == INSTANCE FstOps WITH
        fst <- EmptyMachine, MaxStates <- 2, MaxArcs <- 2, ArcKinds <- {}, FinalWeights <- {},
        Masks <- {}, OpArcKinds <- {}, OpFinalWeights <- {}, MaxOpArcs <- 2, Mappers <- {}, Operands <- {}

\* A VectorFst as a weighted machine, and a weighted machine as a VectorFst
\* with its states in some order.
Cost(w) == CASE w = "Zero" -> Zero [] w = "One" -> One [] w = "Other" -> 3
AsMachine(f) ==
    IF f.start = kNoStateId THEN EmptyMachine
    ELSE [start |-> f.start,
          final |-> [s \in DOMAIN f.states |-> Cost(f.states[s].final)],
          arcs |-> [s \in DOMAIN f.states |->
                      MapSeq(f.states[s].arcs, LAMBDA a : [a EXCEPT !.weight = Cost(@)])]]
RECURSIVE Listed(_)
Listed(S) == IF S = {} THEN <<>> ELSE LET x == CHOOSE y \in S : TRUE IN << x >> \o Listed(S \ {x})
AsVector(m) ==
    LET order == Listed(States(m))
        Number(s) == (CHOOSE i \in DOMAIN order : order[i] = s) - 1
        Weight(w) == IF w = Zero THEN "Zero" ELSE IF w = One THEN "One" ELSE "Other"
        Numbered(a) == [a EXCEPT !.weight = Weight(@), !.nextstate = Number(@)]
    IN  [start |-> IF HasStart(m) THEN Number(m.start) ELSE kNoStateId, props |-> {},
         states |-> [n \in 0 .. Len(order) - 1 |->
                       [final |-> Weight(m.final[order[n + 1]]),
                        arcs |-> MapSeq(m.arcs[order[n + 1]], Numbered)]]]

-----------------------------------------------------------------------------

CallArc(n, t) == V!Arc(0, 0 - n, "One", t)
Topology(n, final, arcs) ==
    FoldLeft(LAMBDA f, p : V!AddArc(f, p[1], p[2]),
             V!SetFinal(V!SetStart(V!AddStates(V!EmptyFst, n), 0), final, "One"), arcs)

NotMade == [rtn |-> <<>>]
Impl(rfst, tuples, props) ==
    [rfst |-> rfst, nonterminals |-> Len(tuples), fst_tuples |-> tuples, props |-> props, replace |-> NotMade]

InitUnion(fst1, fst2) ==
    Impl(Topology(2, 1, << << 0, CallArc(1, 1) >>, << 0, CallArc(2, 1) >> >>),
         << << -1, fst1 >>, << -2, fst2 >> >>, V!UnionProperties(fst1.props, fst2.props, TRUE))

InitConcat(fst1, fst2) ==
    Impl(Topology(3, 2, << << 0, CallArc(1, 1) >>, << 1, CallArc(2, 2) >> >>),
         << << -1, fst1 >>, << -2, fst2 >> >>, V!ConcatProperties(fst1.props, fst2.props, TRUE))

InitClosure(fst1, star) ==
    Impl(IF star THEN Topology(1, 0, << << 0, CallArc(1, 0) >> >>)
         ELSE Topology(2, 1, << << 0, CallArc(1, 1) >>, << 1, V!Arc(0, 0, "One", 0) >> >>),
         << << -1, fst1 >> >>, V!ClosureProperties(fst1.props, TRUE))

\* The machine that calls one operand more, and nothing else.
AfstTopology(n) == Topology(2, 1, << << 0, CallArc(n, 1) >> >>)
\* One operand more: rfst already calls it.
AddOperand(impl, rfst, fst2, props) ==
    [rfst |-> rfst, nonterminals |-> impl.nonterminals + 1,
     fst_tuples |-> Append(impl.fst_tuples, << 0 - (impl.nonterminals + 1), fst2 >>),
     props |-> props, replace |-> NotMade]

AddUnion(impl, fst2) ==
    AddOperand(impl, V!Union(impl.rfst, AfstTopology(impl.nonterminals + 1)), fst2,
               V!UnionProperties(impl.props, fst2.props, TRUE))

AddConcat(impl, fst2, append) ==
    LET afst == AfstTopology(impl.nonterminals + 1)
    IN  AddOperand(impl, IF append THEN V!ConcatAppend(impl.rfst, afst)
                         ELSE V!ConcatPrepend(afst, impl.rfst),
                   fst2, V!ConcatProperties(impl.props, fst2.props, TRUE))

AddClosure(impl, star) ==
    [impl EXCEPT !.rfst = V!Closure(@, star), !.props = V!ClosureProperties(@, TRUE), !.replace = NotMade]

\* Any question that a client asks goes through this.
MakeReplace(impl) ==
    LET operands == MapSeq(impl.fst_tuples, LAMBDA p : << p[1], AsMachine(p[2]) >>)
    IN  IF impl.replace # NotMade THEN impl
        ELSE [impl EXCEPT !.replace = [rtn |-> << << 0, AsMachine(impl.rfst) >> >> \o operands]]
\* The copy constructor copies what has been made, and no properties.
CopyImpl(impl) == [impl EXCEPT !.props = {}]
RationalReplace(impl) ==
    ReplaceFst(MakeReplace(impl).replace.rtn, ReplaceOptions(0, "INPUT", "NEITHER", kNoLabel, 0))
=============================================================================
