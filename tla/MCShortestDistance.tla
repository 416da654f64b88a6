------------------------- MODULE MCShortestDistance -------------------------
\* Machines for ShortestDistance.tla: four states, the arcs any choice from a
\* pool that holds cycles of different kinds, epsilon and other labels, and one
\* negative cost, without negative cycles.
EXTENDS ShortestDistance

\* Two arcs lead back from state 2 and 3; state 2 has a loop that is no epsilon.
Pool == << << Arc(0, 0, 2, 1), Arc(0, 0, 1, 2), Arc(0, 0, 3, 3) >>,
           << Arc(0, 0, 0, 2), Arc(1, 1, 2, 3) >>,
           << Arc(0, 0, -1, 1), Arc(0, 0, 1, 3), Arc(2, 2, 0, 2) >>,
           << Arc(0, 0, 1, 1) >> >>

SomeOf(s) == {SelectSeq(s, LAMBDA a : a \in A) : A \in SUBSET Range(s)}

Built(start, arcs, finals) ==
    [start |-> start, arcs |-> [s \in 0 .. 3 |-> arcs[s + 1]],
     final |-> [s \in 0 .. 3 |-> finals[s + 1]]]

\* A negative cycle would improve the distance of a state from itself.
NoNegativeCycle(f) ==
    LET Further(d) == [t \in States(f) |-> PlusAll({d[t]} \cup UNION
            {{Times(d[u], b.weight) : b \in {c \in ArcsOf(f, u) : c.nextstate = t}} :
                u \in States(f)})]
    IN  \A s \in States(f) :
            Further(Further(Further(Further(
                [t \in States(f) |-> IF t = s THEN One ELSE Zero]))))[s] = One

SearchedMachines ==
    {f \in {Built(start, << a0, a1, a2, a3 >>, finals) :
              start \in {0, 1}, a0 \in SomeOf(Pool[1]) \ {<<>>}, a1 \in SomeOf(Pool[2]),
              a2 \in SomeOf(Pool[3]), a3 \in SomeOf(Pool[4]),
              finals \in {<< Zero, Zero, 2, 0 >>}} :
        /\ NoNegativeCycle(f)
        /\ f.start = 0 \/ NumArcs(f, 0) = 3}
=============================================================================
