----------------------------- MODULE RmEpsilon ------------------------------
(***************************************************************************)
(* Epsilon removal (rmepsilon.h), in place and delayed.  A state gets the  *)
(* arcs of its epsilon closure, each with the distance at which it starts; *)
(* in place, the closure is searched in a machine that is partly rewritten.*)
(***************************************************************************)
EXTENDS ShortestPath, DfsVisit

IsEpsilon(a) == Passes("epsilon", a)

\* The states of the epsilon closure, in the order of a search with a stack.
Closure(f, source) ==
    LET RECURSIVE Visit(_, _)
        Visit(stack, seen) ==
            IF stack = <<>> THEN seen
            ELSE LET s == Last(stack)
                     eps == SelectSeq(f.arcs[s], IsEpsilon)
                     next == SelectSeq(MapSeq(eps, LAMBDA a : a.nextstate),
                                       LAMBDA t : t # s /\ t \notin Range(seen))
                 IN  IF s \in Range(seen) THEN Visit(Front(stack), seen)
                     ELSE Visit(Front(stack) \o next, Append(seen, s))
    IN  Visit(<< source >>, <<>>)

\* A second arc with the same labels and destination replaces the first one.
MergeLast(arcs, a) ==
    LET same == {i \in DOMAIN arcs : /\ arcs[i].ilabel = a.ilabel
                                     /\ arcs[i].olabel = a.olabel
                                     /\ arcs[i].nextstate = a.nextstate}
    IN  IF same = {} THEN Append(arcs, a) ELSE [arcs EXCEPT ![Min(same)] = a]

\* Arcs with the same labels and destination are merged.
MergeArc(arcs, a) ==
    LET same == {i \in DOMAIN arcs : /\ arcs[i].ilabel = a.ilabel
                                     /\ arcs[i].olabel = a.olabel
                                     /\ arcs[i].nextstate = a.nextstate}
    IN  IF same = {} THEN Append(arcs, a)
        ELSE [arcs EXCEPT ![Min(same)].weight = Plus(@, a.weight)]

\* RmEpsilonState::Expand; the caller takes the arcs from the back.
Expand(f, source) ==
    LET Onward(s, d) == MapSeq(SelectSeq(f.arcs[s], LAMBDA a : ~ IsEpsilon(a)),
                               LAMBDA a : [a EXCEPT !.weight = Times(d[s], @)])
        From(closure, d) ==
            [arcs |-> Reverse(FoldLeft(MergeArc, <<>>, FlattenSeq(MapSeq(closure, LAMBDA s : Onward(s, d))))),
             final |-> PlusAll({Times(d[s], f.final[s]) : s \in Range(closure)})]
    IN  From(Closure(f, source), DistancesIn(f, "epsilon", source))

StatesByOrder(f, order) == SetToSortSeq(States(f), LAMBDA s, t : order[s] < order[t])
StatesByScc(f, scc) ==
    SetToSortSeq(States(f), LAMBDA s, t : scc[s] < scc[t] \/ (scc[s] = scc[t] /\ s > t))

\* The order of the states: by number, topological, or by components.
ExpansionOrder(f, known) ==
    IF "kTopSorted" \in known THEN Ascending(States(f))
    ELSE IF "kAcyclic" \in known THEN StatesByOrder(f, TopOrderVisit(f, "epsilon").order)
    ELSE StatesByScc(f, SccVisit(f, "epsilon").scc)

\* RmEpsilon, with the options connect and weight_threshold.
RmEpsilon(f, known, connect, threshold) ==
    LET trim == connect \/ threshold # Zero
        noneps_in == {f.start} \cup {a.nextstate : a \in {b \in AllArcs(f) : ~ IsEpsilon(b)}}
        kept == IF trim THEN noneps_in ELSE States(f)
        Rewrite(g, s) ==
            IF s \notin kept THEN g
            ELSE LET e == Expand(g, s)
                 IN  [g EXCEPT !.arcs[s] = e.arcs, !.final[s] = e.final]
        Cleared(g) == [g EXCEPT !.arcs = [s \in States(f) |-> IF s \in kept THEN @[s] ELSE <<>>]]
        Trimmed(g) == IF threshold # Zero THEN PruneInPlace(g, threshold, kNoStateId)
                      ELSE IF connect THEN Connect(g) ELSE g
    IN  IF ~ HasStart(f) THEN f
        ELSE Trimmed(Cleared(FoldLeft(Rewrite, f, Reverse(ExpansionOrder(f, known)))))

RmEpsilonFst(f) ==
    IF ~ HasStart(f) THEN EmptyMachine
    ELSE Delayed(f.start, LAMBDA s : Expand(f, s).arcs, LAMBDA s : Expand(f, s).final)
=============================================================================
