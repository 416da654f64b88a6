---------------------------- MODULE ShortestPath ----------------------------
(***************************************************************************)
(* The n best paths (shortest-path.h) and pruning (prune.h): best-first    *)
(* searches in which a state is taken by the cost of the path to it and    *)
(* of the best way on from it.                                             *)
(***************************************************************************)
EXTENDS Wfst

H == INSTANCE Heap

-----------------------------------------------------------------------------
(* NShortestPath.                                                          *)

\* Reverse with a superinitial state; the other states move up by one.
ReverseFst(f) ==
    LET S == {0} \cup {s + 1 : s \in States(f)}
        order == Ascending(States(f))
        Into(t) == FlattenSeq(MapSeq(order, LAMBDA s :
                      MapSeq(SelectSeq(f.arcs[s], LAMBDA a : a.nextstate = t),
                             LAMBDA a : Arc(a.ilabel, a.olabel, a.weight, s + 1))))
        Ends == MapSeq(SelectSeq(order, LAMBDA s : IsFinal(f, s)),
                       LAMBDA s : Arc(0, 0, f.final[s], s + 1))
    IN  [start |-> 0,
         final |-> [s \in S |-> IF s = f.start + 1 THEN One ELSE Zero],
         arcs |-> [s \in S |-> IF s = 0 THEN Ends ELSE Into(s - 1)]]

\* ShortestDistance(fst, distance, reverse): the distances to the final states.
ReverseDistance(f) ==
    LET d == DistancesIn(ReverseFst(f), "any", 0) IN [s \in States(f) |-> d[s + 1]]

Superfinal == kNoStateId

\* Whether x comes after y: complete paths wait for others of the same cost.
ShortestPathCompare(pairs, distance, x, y) ==
    LET PWeight(s) == IF s = Superfinal THEN One ELSE distance[s]
        wx == Times(PWeight(pairs[x][1]), pairs[x][2])
        wy == Times(PWeight(pairs[y][1]), pairs[y][2])
    IN  \/ wy < wx
        \/ wx = wy /\ pairs[x][1] = Superfinal /\ pairs[y][1] # Superfinal

\* The machine f is searched from its start; the tree that is built hangs, read
\* the other way round, from state 1, and state 0 has an arc to each path.
\* pairs gives each state of the tree a state of f and the cost of its path.
\* Ties in the heap are taken in either order.
NShortestPath(f, distance, nshortest, threshold, max_states, oldest) ==
    LET limit == Times(distance[f.start], threshold)
        Limited(x, p) ==
            \/ limit < Times(IF p[1] = Superfinal THEN One ELSE distance[p[1]], p[2])
            \/ max_states # kNoStateId /\ Cardinality(DOMAIN x.arcs) >= max_states
        AddState(x, s, w, arc) ==
            LET new == Cardinality(DOMAIN x.arcs)
            IN  [x EXCEPT !.pairs = @ @@ (new :> << s, w >>), !.arcs = @ @@ (new :> << arc >>),
                          !.heap = @ \cup {new}]
        Extended(x, state) ==
            LET p == x.pairs[state]
                AddStep(y, a) ==
                    AddState(y, a.nextstate, Times(p[2], a.weight), [a EXCEPT !.nextstate = state])
                y == FoldLeft(AddStep, x, f.arcs[p[1]])
            IN  IF ~ IsFinal(f, p[1]) THEN y
                ELSE AddState(y, Superfinal, Times(p[2], f.final[p[1]]),
                              Arc(0, 0, f.final[p[1]], state))
        RECURSIVE Search(_)
        Search(x) ==
            LET first == {h \in x.heap : \A g \in x.heap :
                             ~ ShortestPathCompare(x.pairs, distance, h, g)}
                state == IF oldest THEN Min(first) ELSE Max(first)
                p == x.pairs[state]
                y == [x EXCEPT !.heap = @ \ {state}]
                n == y.r[p[1]] + 1
                z == [y EXCEPT !.r[p[1]] = n,
                               !.arcs[0] = IF p[1] = Superfinal
                                           THEN Append(@, Arc(0, 0, One, state)) ELSE @]
            IN  IF x.heap = {} THEN x
                ELSE IF Limited(x, p) THEN Search(y)
                ELSE IF p[1] = Superfinal THEN IF n = nshortest THEN z ELSE Search(z)
                ELSE IF n > nshortest THEN Search(z)
                ELSE Search(Extended(z, state))
        tree == Search([pairs |-> (1 :> << f.start, One >>), arcs |-> (0 :> <<>>) @@ (1 :> <<>>),
                        heap |-> {1}, r |-> [s \in States(f) \cup {Superfinal} |-> 0]])
    IN  IF \/ ~ HasStart(f) \/ distance[f.start] = Zero \/ threshold < One \/ max_states = 0
        THEN EmptyMachine
        ELSE Connect([start |-> 0, arcs |-> tree.arcs,
                      final |-> [s \in DOMAIN tree.arcs |-> IF s = 1 THEN One ELSE Zero]])

\* The distances from the start state of f, for the states of its reverse.
ShiftedDistance(f) ==
    LET distance == DistancesIn(f, "any", f.start)
        d == PlusAll({Times(a.weight, distance[a.nextstate - 1]) : a \in ArcsOf(ReverseFst(f), 0)})
    IN  (0 :> d) @@ [s \in {t + 1 : t \in States(f)} |-> distance[s - 1]]

\* ShortestPath for several paths: the search goes backwards, from the end of
\* the paths, with the distances from the start state.
ShortestPaths(f, nshortest, threshold, max_states, oldest) ==
    IF ~ HasStart(f) THEN EmptyMachine
    ELSE NShortestPath(ReverseFst(f), ShiftedDistance(f), nshortest, threshold, max_states, oldest)

-----------------------------------------------------------------------------
(* Prune.  The order of the heap is the cost of the best path through a    *)
(* state: PruneCompare.                                                    *)

Costs(idistance, fdistance) == [s \in DOMAIN idistance |-> Times(idistance[s], fdistance[s])]

\* The mutation LastDistance keeps the cost of the last path, not of the best.
LastDistance(idistance, s, a) == [idistance EXCEPT ![a.nextstate] = Times(idistance[s], a.weight)]

\* The arc leads to a state at the cost of the path so far.
Shortened(idistance, s, a) ==
    [idistance EXCEPT ![a.nextstate] = Plus(@, Times(idistance[s], a.weight))]

\* An arc or a final weight that no path within the limit uses.
Beyond(limit, x, s, a, fdistance) ==
    limit < Times(Times(x.idistance[s], a.weight), fdistance[a.nextstate])

Pushed(x, s, fdistance) ==
    LET costs == Costs(x.idistance, fdistance)
        in == H!Insert(x.heap, s, costs)
    IN  [x EXCEPT !.heap = in.heap, !.key = (s :> in.key) @@ @]

Popped(x, fdistance) ==
    [x EXCEPT !.heap = H!Pop(@, Costs(x.idistance, fdistance)),
              !.key = [@ EXCEPT ![H!Top(x.heap)] = kNoStateId],
              !.visited = @ \cup {H!Top(x.heap)}]

NewSearch(f) ==
    [heap |-> H!EmptyHeap, key |-> [s \in States(f) |-> kNoStateId], visited |-> {},
     idistance |-> [s \in States(f) |-> IF s = f.start THEN One ELSE Zero], n |-> 1, out |-> f]

\* Into the heap, or to its new place in it.
Requeued(x, t, fdistance) ==
    IF x.key[t] = kNoStateId THEN [Pushed(x, t, fdistance) EXCEPT !.n = @ + 1]
    ELSE [x EXCEPT !.heap = H!Update(@, x.key[t], Costs(x.idistance, fdistance))]

\* The search in a machine that it modifies: out is the machine; what leads
\* beyond the limit goes to a dead state.
PruneTo(f, fdistance, threshold, max_states) ==
    LET limit == Times(fdistance[f.start], threshold)
        TakeArc(s, x, i) ==
            LET a == f.arcs[s][i]
                y == [x EXCEPT !.idistance = Shortened(@, s, a)]
            IN  IF Beyond(limit, x, s, a, fdistance)
                THEN [x EXCEPT !.out.arcs[s][i].nextstate = kNoStateId]
                ELSE IF a.nextstate \in x.visited THEN y
                ELSE IF max_states # kNoStateId /\ x.n >= max_states THEN y
                ELSE Requeued(y, a.nextstate, fdistance)
        TakeState(x) ==
            LET s == H!Top(x.heap)
                y == Popped(x, fdistance)
                z == IF limit < Times(x.idistance[s], f.final[s])
                     THEN [y EXCEPT !.out.final[s] = Zero] ELSE y
            IN  FoldLeft(LAMBDA u, i : TakeArc(s, u, i), z, [i \in DOMAIN f.arcs[s] |-> i])
        RECURSIVE Search(_)
        Search(x) == IF x.heap.size = 0 THEN x ELSE Search(TakeState(x))
        Live(x) ==
            [start |-> f.start,
             final |-> [s \in x.visited |-> x.out.final[s]],
             arcs |-> [s \in x.visited |-> SelectSeq(x.out.arcs[s], LAMBDA a : a.nextstate \in x.visited)]]
    IN  IF ~ HasStart(f) THEN EmptyMachine
        ELSE IF max_states = 0 \/ fdistance[f.start] = Zero \/ limit < fdistance[f.start]
        THEN EmptyMachine
        ELSE Live(Search(Pushed(NewSearch(f), f.start, fdistance)))

PruneInPlace(f, threshold, max_states) == PruneTo(f, ReverseDistance(f), threshold, max_states)

\* The search that copies what it reaches: out is the copy, under the numbers
\* of the original states.  The distances to the end are given.
PruneCopy(f, fdistance, threshold, max_states) ==
    LET limit == Times(fdistance[f.start], threshold)
        AddState(g, s) ==
            IF s \in States(g) THEN g
            ELSE [g EXCEPT !.final = @ @@ (s :> Zero), !.arcs = @ @@ (s :> <<>>)]
        TakeArc(s, x, a) ==
            LET y == [x EXCEPT !.idistance = Shortened(@, s, a),
                               !.out = [AddState(@, a.nextstate) EXCEPT !.arcs[s] = Append(@, a)]]
            IN  IF Beyond(limit, x, s, a, fdistance) THEN x
                ELSE IF max_states # kNoStateId /\ Cardinality(States(x.out)) >= max_states THEN x
                ELSE IF a.nextstate \in x.visited THEN y
                ELSE Requeued(y, a.nextstate, fdistance)
        TakeState(x) ==
            LET s == H!Top(x.heap)
                y == Popped(x, fdistance)
                z == IF limit < Times(x.idistance[s], f.final[s]) THEN y
                     ELSE [y EXCEPT !.out.final[s] = f.final[s]]
            IN  FoldLeft(LAMBDA u, a : TakeArc(s, u, a), z, f.arcs[s])
        RECURSIVE Search(_)
        Search(x) == IF x.heap.size = 0 THEN x ELSE Search(TakeState(x))
        empty == [start |-> f.start, final |-> (f.start :> Zero), arcs |-> (f.start :> <<>>)]
    IN  IF \/ ~ HasStart(f) \/ threshold < One \/ max_states = 0 \/ fdistance[f.start] = Zero
        THEN EmptyMachine
        ELSE Search(Pushed([NewSearch(f) EXCEPT !.out = empty], f.start, fdistance)).out
=============================================================================
