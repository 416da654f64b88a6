-------------------------- MODULE ShortestDistance --------------------------
(***************************************************************************)
(* ShortestDistanceState (shortest-distance.h) and SingleShortestPath      *)
(* (shortest-path.h): the relaxation of arcs from a state queue, one state *)
(* and one arc at a time, for every queue discipline of queue.h.  A        *)
(* ShortestDistanceState is called several times and, with retain, keeps   *)
(* its arrays from one call to the next.                                   *)
(*                                                                         *)
(* Vectors that grow on demand are functions whose domain grows.           *)
(***************************************************************************)
EXTENDS StateQueue, DfsVisit

CONSTANTS Machines,     \* the machines that are searched
          Disciplines,  \* the queue disciplines that callers choose from
          MaxCalls      \* calls of one ShortestDistanceState

VARIABLES fst,      \* the machine
          opts,     \* ShortestDistanceOptions or ShortestPathOptions
          queue,    \* *opts.state_queue
          sd,       \* the fields of ShortestDistanceState
          path,     \* the local variables of SingleShortestPath
          pc        \* where the computation is

vars == << fst, opts, queue, sd, path, pc >>

-----------------------------------------------------------------------------
(* Options.                                                                *)

ArcFilter(a) == Passes(opts.filter, a)

Graph(f, filter) ==
    [f EXCEPT !.arcs = [s \in States(f) |->
                           SelectSeq(f.arcs[s], LAMBDA a : Passes(filter, a))]]

\* Stored property bits that an AutoQueue asks for: the true ones, or none.
TopSorted(f) == \A s \in States(f) : \A a \in ArcsOf(f, s) : a.nextstate > s
Knowable(f) ==
    (IF TopSorted(f) THEN {"kTopSorted"} ELSE {}) \cup
    (IF Acyclic(f) THEN {"kAcyclic"} ELSE {}) \cup
    (IF IsUnweighted(f) THEN {"kUnweighted"} ELSE {})

IsTrivialWeight(w) == w \in {Zero, One}

\* SccQueueType: what the arcs inside a component require of its queue, in the
\* order in which they are met.
QueueTypeAfter(type, a) ==
    CASE a.weight < One -> "FIFO"
      [] a.weight >= One /\ type \in {"TRIVIAL", "LIFO"} ->
            IF IsTrivialWeight(a.weight) THEN "LIFO" ELSE "SHORTEST_FIRST"
      [] OTHER -> type

SccQueueType(f, filter, scc, c) ==
    LET Inner(s) == SelectSeq(f.arcs[s], LAMBDA a : /\ Passes(filter, a)
                                                    /\ scc[a.nextstate] = c)
        members == Ascending({s \in States(f) : scc[s] = c})
    IN  FoldLeft(QueueTypeAfter, "TRIVIAL", FlattenSeq(MapSeq(members, Inner)))

AutoQueue(f, filter, known) ==
    LET scc == SccVisit(f, filter).scc
        types == [c \in Range(scc) |-> SccQueueType(f, filter, scc, c)]
        Chosen(type) == CASE type = "TRIVIAL" -> TrivialQueue
                          [] type = "SHORTEST_FIRST" -> ShortestFirstQueue(FALSE)
                          [] type = "LIFO" -> LifoQueue
                          [] type = "FIFO" -> FifoQueue
        unweighted == \A s \in States(f) : \A a \in Considered(f, filter, s) :
                          IsTrivialWeight(a.weight)
    IN  CASE "kTopSorted" \in known -> StateOrderQueue
          [] "kTopSorted" \notin known /\ "kAcyclic" \in known ->
                TopOrderQueue(TopOrderVisit(f, filter).order)
          [] known = {"kUnweighted"} -> LifoQueue
          [] known = {} ->
                IF unweighted THEN LifoQueue
                ELSE IF Range(types) = {"TRIVIAL"} THEN TopOrderQueue(scc)
                ELSE SccQueue(scc, [c \in DOMAIN types |-> Chosen(types[c])])

Distances(source) == DistancesIn(fst, opts.filter, source)

NewQueue(f, o) ==
    CASE o.discipline = "FIFO" -> FifoQueue
      [] o.discipline = "LIFO" -> LifoQueue
      [] o.discipline = "SHORTEST_FIRST" -> ShortestFirstQueue(TRUE)
      [] o.discipline = "A_STAR" -> NaturalAStarQueue(Estimate(f))
      [] o.discipline = "STATE_ORDER" -> StateOrderQueue
      [] o.discipline = "TOP_ORDER" ->
            TopOrderQueue(TopOrderVisit(f, o.filter).order)
      [] o.discipline = "AUTO" -> AutoQueue(f, o.filter, o.known)

-----------------------------------------------------------------------------
(* The options that callers may combine: a topological order needs an      *)
(* acyclic machine, the order of state numbers one that is sorted, and the *)
(* first path is the best one under the conditions that the code states.   *)

NonNegative(f) ==
    /\ \A a \in AllArcs(f) : a.weight >= One
    /\ \A s \in States(f) : f.final[s] >= One

Usable(f, o) ==
    /\ o.mode = "path" => o.filter = "any" /\ ~ o.retain
    /\ o.discipline = "A_STAR" => o.mode = "path"
    /\ o.discipline = "TOP_ORDER" => Acyclic(Graph(f, o.filter))
    /\ o.discipline = "STATE_ORDER" => TopSorted(Graph(f, o.filter))
    /\ o.known # {} => o.discipline = "AUTO" /\ o.known = Knowable(f)
    /\ o.first_path => \/ o.discipline = "A_STAR"
                       \/ o.discipline = "SHORTEST_FIRST" /\ NonNegative(f) /\ ~ o.retain

Options(f) ==
    {o \in [mode : {"distance", "path"}, discipline : Disciplines, retain : BOOLEAN,
            filter : {"any", "epsilon"}, first_path : BOOLEAN, known : {{}, Knowable(f)}] :
        /\ Usable(f, o)
        /\ o.retain <=> o.filter = "epsilon"}

\* What the shortest-first queues compare: the distances, for A* with the
\* estimate of what is still to come.
Compared(d) ==
    IF opts.discipline = "A_STAR"
    THEN [s \in DOMAIN d |-> Times(d[s], queue.estimate[s])] ELSE d

-----------------------------------------------------------------------------
(* ShortestDistanceState.                                                  *)

NewState ==
    [distance |-> <<>>, adder |-> <<>>, radder |-> <<>>, enqueued |-> <<>>,
     sources |-> <<>>, source_id |-> 0, source |-> kNoStateId]

NewPath ==
    [parent |-> <<>>, f_parent |-> kNoStateId, f_distance |-> Zero,
     final_seen |-> FALSE, ofst |-> EmptyMachine]

Idle(where) == [at |-> where, state |-> kNoStateId, r |-> One, next |-> 1]

Init ==
    /\ fst \in Machines
    /\ opts \in Options(fst)
    /\ queue = NewQueue(fst, opts)
    /\ sd = NewState
    /\ path = NewPath
    /\ pc = Idle("new")

\* Vectors grow up to an index.
Grown(v, i, x) == v @@ [s \in 0 .. i |-> x]

EnsureDistanceIndexIsValid(x, i) ==
    [x EXCEPT !.distance = Grown(@, i, Zero), !.adder = Grown(@, i, Zero),
              !.radder = Grown(@, i, Zero), !.enqueued = Grown(@, i, FALSE)]

EnsureSourcesIndexIsValid(x, i) == [x EXCEPT !.sources = Grown(@, i, kNoStateId)]

\* With retain, the first visit of a state in a call forgets the calls before.
RefreshKeepsAdders(x, t) ==
    IF ~ opts.retain \/ x.sources[t] = x.source_id THEN x
    ELSE [x EXCEPT !.distance[t] = Zero, !.enqueued[t] = FALSE, !.sources[t] = x.source_id]
Refresh(x, t) ==
    IF ~ opts.retain \/ x.sources[t] = x.source_id THEN x
    ELSE [x EXCEPT !.distance[t] = Zero, !.adder[t] = Zero, !.radder[t] = Zero,
                   !.enqueued[t] = FALSE, !.sources[t] = x.source_id]

\* ShortestDistance(source), up to its loop.
Call(source) ==
    LET old == IF opts.retain THEN sd
               ELSE [NewState EXCEPT !.source_id = sd.source_id]
        x == EnsureSourcesIndexIsValid(EnsureDistanceIndexIsValid(old, source), source)
        new == [x EXCEPT !.sources[source] = IF opts.retain THEN x.source_id ELSE @,
                         !.distance[source] = One, !.adder[source] = One,
                         !.radder[source] = One, !.enqueued[source] = TRUE,
                         !.source = source]
    IN  /\ opts.mode = "distance" /\ pc.at \in {"new", "done", "stopped"}
        /\ sd.source_id < (IF opts.retain THEN MaxCalls ELSE 1)
        /\ sd' = new
        /\ queue' = Enqueue(ClearQueue(queue), source, Compared(new.distance))
        /\ pc' = Idle("loop")
        /\ UNCHANGED << fst, opts, path >>

\* Where a state's expansion begins, and where it goes after an arc.
Begun(s, r) == IF NumArcs(fst, s) = 0 THEN Idle("loop")
               ELSE [at |-> "arcs", state |-> s, r |-> r, next |-> 1]
Onward == IF pc.next = NumArcs(fst, pc.state) THEN Idle("loop")
          ELSE [pc EXCEPT !.next = @ + 1]

\* The head of the queue is taken off, and its relaxation distance with it.
TakenKeepsFlag(s) == [sd EXCEPT !.radder[s] = Zero]
Taken(s) == [sd EXCEPT !.enqueued[s] = FALSE, !.radder[s] = Zero]

ExpandState ==
    LET q == Headed(queue)
        s == QueueHead(q)
    IN  /\ opts.mode = "distance" /\ pc.at = "loop" /\ ~ Empty(queue)
        /\ queue' = Dequeue(q, Compared(sd.distance))
        /\ IF opts.first_path /\ IsFinal(fst, s)
           THEN /\ sd' = [sd EXCEPT !.source_id = @ + 1]
                /\ pc' = Idle("stopped")
           ELSE /\ sd' = Taken(s)
                /\ pc' = Begun(s, sd.radder[s])
        /\ UNCHANGED << fst, opts, path >>

\* Whether a path of some weight is new to a state.
ImprovesOrTies(d, weight) == weight # Zero /\ Plus(d, weight) = weight
Improves(d, weight) == Plus(d, weight) # d

RelaxArc ==
    LET a == fst.arcs[pc.state][pc.next]
        t == a.nextstate
        x == Refresh(EnsureSourcesIndexIsValid(EnsureDistanceIndexIsValid(sd, t), t), t)
        weight == Times(pc.r, a.weight)
        better == Improves(x.distance[t], weight)
        sum == Plus(x.adder[t], weight)
        new == [x EXCEPT !.distance[t] = sum, !.adder[t] = sum,
                         !.radder[t] = Plus(@, weight), !.enqueued[t] = TRUE]
    IN  /\ opts.mode = "distance" /\ pc.at = "arcs"
        /\ sd' = IF ~ ArcFilter(a) THEN sd ELSE IF better THEN new ELSE x
        /\ queue' = IF ~ (ArcFilter(a) /\ better) THEN queue
                    ELSE IF x.enqueued[t] THEN UpdateQueue(queue, t, Compared(new.distance))
                    ELSE Enqueue(queue, t, Compared(new.distance))
        /\ pc' = Onward
        /\ UNCHANGED << fst, opts, path >>

EndCall ==
    /\ opts.mode = "distance" /\ pc.at = "loop" /\ Empty(queue)
    /\ sd' = [sd EXCEPT !.source_id = @ + 1]
    /\ pc' = Idle("done")
    /\ UNCHANGED << fst, opts, queue, path >>

-----------------------------------------------------------------------------
(* SingleShortestPath, which keeps a distance vector and flags of its own  *)
(* (here those of sd), the arc by which each state was reached best, and   *)
(* the best final state.                                                   *)

CallPath ==
    LET source == fst.start
    IN  /\ opts.mode = "path" /\ pc.at = "new"
        /\ sd' = [sd EXCEPT !.distance = [s \in 0 .. source |-> IF s = source THEN One ELSE Zero],
                            !.enqueued = [s \in 0 .. source |-> s = source],
                            !.source = source]
        /\ path' = [path EXCEPT !.parent = [s \in 0 .. source |-> << kNoStateId, 0 >>]]
        /\ queue' = Enqueue(ClearQueue(queue), source, Compared(sd'.distance))
        /\ pc' = Idle("loop")
        /\ UNCHANGED << fst, opts >>

\* SingleShortestPathBacktrace: states are made from the final one backwards.
Backtrace(p) ==
    LET RECURSIVE Trail(_)
        Trail(s) == IF s = kNoStateId THEN <<>> ELSE << s >> \o Trail(p.parent[s][1])
        trail == Trail(p.f_parent)
        n == Len(trail)
    IN  IF n = 0 THEN EmptyMachine
        ELSE [start |-> n - 1,
              final |-> [i \in 0 .. n - 1 |-> IF i = 0 THEN fst.final[p.f_parent] ELSE Zero],
              arcs |-> [i \in 0 .. n - 1 |->
                          IF i = 0 THEN <<>>
                          ELSE << [fst.arcs[trail[i + 1]][p.parent[trail[i]][2]]
                                     EXCEPT !.nextstate = i - 1] >>]]

\* Stops if no path through s, at distance d, can be better than the best.
FirstPath(s, d) ==
    LET through == IF opts.discipline = "A_STAR" THEN Times(d, queue.estimate[s]) ELSE d
    IN  /\ opts.first_path /\ path.final_seen
        /\ path.f_distance = Plus(through, path.f_distance)

KeepLastFinal(p, s, d) ==
    [p EXCEPT !.final_seen = TRUE, !.f_parent = s, !.f_distance = Times(d, fst.final[s])]
BestFinal(p, s, d) ==
    LET plus == Plus(p.f_distance, Times(d, fst.final[s]))
    IN  [p EXCEPT !.final_seen = TRUE, !.f_distance = plus,
                  !.f_parent = IF plus # p.f_distance THEN s ELSE @]

ExpandPathState ==
    LET q == Headed(queue)
        s == QueueHead(q)
        d == sd.distance[s]
    IN  /\ opts.mode = "path" /\ pc.at = "loop" /\ ~ Empty(queue)
        /\ queue' = Dequeue(q, Compared(sd.distance))
        /\ sd' = [sd EXCEPT !.enqueued[s] = FALSE]
        /\ IF FirstPath(s, d)
           THEN /\ path' = [path EXCEPT !.ofst = Backtrace(path)]
                /\ pc' = Idle("stopped")
           ELSE /\ path' = IF IsFinal(fst, s) THEN BestFinal(path, s, d) ELSE path
                /\ pc' = Begun(s, d)
        /\ UNCHANGED << fst, opts >>

RelaxPathArc ==
    LET a == fst.arcs[pc.state][pc.next]
        t == a.nextstate
        d == Grown(sd.distance, t, Zero)
        in == Grown(sd.enqueued, t, FALSE)
        parent == Grown(path.parent, t, << kNoStateId, 0 >>)
        plus == Plus(d[t], Times(pc.r, a.weight))
        better == plus # d[t]
    IN  /\ opts.mode = "path" /\ pc.at = "arcs"
        /\ sd' = [sd EXCEPT !.distance = [d EXCEPT ![t] = plus],
                            !.enqueued = [in EXCEPT ![t] = @ \/ better]]
        /\ path' = [path EXCEPT !.parent =
                        IF better THEN [parent EXCEPT ![t] = << pc.state, pc.next >>] ELSE parent]
        /\ queue' = IF ~ better THEN queue
                    ELSE IF in[t] THEN UpdateQueue(queue, t, Compared(sd'.distance))
                    ELSE Enqueue(queue, t, Compared(sd'.distance))
        /\ pc' = Onward
        /\ UNCHANGED << fst, opts >>

EndPath ==
    /\ opts.mode = "path" /\ pc.at = "loop" /\ Empty(queue)
    /\ path' = [path EXCEPT !.ofst = Backtrace(path)]
    /\ pc' = Idle("done")
    /\ UNCHANGED << fst, opts, queue, sd >>

-----------------------------------------------------------------------------

Next ==
    \/ \E source \in States(fst) : Call(source)
    \/ ExpandState \/ RelaxArc \/ EndCall
    \/ CallPath \/ ExpandPathState \/ RelaxPathArc \/ EndPath

\* A call that has begun runs: nothing in the loop waits for anything.
Fairness ==
    /\ WF_vars(ExpandState) /\ WF_vars(RelaxArc) /\ WF_vars(EndCall)
    /\ WF_vars(ExpandPathState) /\ WF_vars(RelaxPathArc) /\ WF_vars(EndPath)

Spec == Init /\ [][Next]_vars /\ Fairness

-----------------------------------------------------------------------------
(* Properties.                                                             *)

\* The arrays speak of the current (or, between calls, the last) call.
Current(s) ==
    /\ s \in DOMAIN sd.distance
    /\ opts.retain => /\ s \in DOMAIN sd.sources
                      /\ sd.sources[s] = sd.source_id - (IF pc.at \in {"done", "stopped"} THEN 1 ELSE 0)

\* A completed call has the least cost of a path to every state: states that
\* the call did not reach are not taken for reached ones, whatever a call before
\* left in the arrays; a call for the first path has it for the final state.
DistancesRight ==
    LET d == Distances(sd.source)
        found == {s \in States(fst) : Current(s)}
    IN  /\ pc.at = "done" => /\ {s \in States(fst) : d[s] # Zero} \subseteq found
                             /\ \A s \in found : sd.distance[s] = d[s]
        /\ pc.at = "stopped" /\ opts.mode = "distance" =>
               \E s \in found : IsFinal(fst, s) /\ sd.distance[s] = d[s]

\* Orders that make one expansion of each state enough: topological orders, the
\* shortest first if no cost is negative, the order of an A* search.
OncePerState ==
    \/ queue.type \in {"TOP_ORDER", "STATE_ORDER"}
    \/ opts.discipline = "SHORTEST_FIRST" /\ NonNegative(fst)
    \/ opts.discipline = "A_STAR"
    \/ queue.type = "SCC" /\ queue.queues[queue.scc[pc.state]].type = "TRIVIAL"

\* A state has its flag set exactly as long as it is in the queue, once; a queue
\* that keeps a window has all of its states inside the window, and the heap of a
\* shortest-first queue is in order and finds each state by its key.  With an
\* order for which one expansion of each state is enough, a state is expanded
\* when its distance is final.  (An A* queue puts the states from which nothing
\* can be accepted at its end.)
QueueMatchesFlags ==
    /\ pc.at \in {"loop", "arcs"} =>
          /\ \A s \in States(fst) :
                Count(queue, s) = IF Current(s) /\ sd.enqueued[s] THEN 1 ELSE 0
          /\ WindowOK(queue)
          /\ QueueInOrder(queue, Compared(sd.distance))
    /\ pc.at = "arcs" /\ OncePerState
          /\ (opts.discipline = "A_STAR" => queue.estimate[pc.state] # Zero) =>
              pc.r = Distances(sd.source)[pc.state]

\* The machine that SingleShortestPath returns is one successful path of the
\* input, of least cost; it is empty only if there is none.
Steps(f, S, a) ==
    {b.nextstate : b \in {c \in UNION {ArcsOf(f, s) : s \in S} :
        c.ilabel = a.ilabel /\ c.olabel = a.olabel /\ c.weight = a.weight}}

ShortestPathFound ==
    pc.at \in {"done", "stopped"} /\ opts.mode = "path" =>
        LET best == Estimate(fst)[fst.start]
            o == path.ofst
            n == Cardinality(States(o))
            reached == FoldLeft(LAMBDA S, i : Steps(fst, S, o.arcs[n - i][1]),
                                {fst.start}, [i \in 1 .. n - 1 |-> i])
        IN  IF best = Zero THEN o = EmptyMachine
            ELSE /\ \E s \in reached : fst.final[s] = o.final[0]
                 /\ Estimate(o)[o.start] = best

\* The components that AutoQueue orders its queues by are the strongly connected
\* ones, arcs lead to components of higher numbers, and accessibility,
\* coaccessibility and cyclicity are found on the way.
VisitsRight ==
    pc.at = "new" =>
        LET g == Graph(fst, opts.filter)
            v == SccVisit(fst, opts.filter)
            reach == [s \in States(g) |-> ReachableFrom(g, {s})]
        IN  /\ \A s, t \in States(g) :
                  /\ v.scc[s] = v.scc[t] <=> (t \in reach[s] /\ s \in reach[t])
                  /\ t \in reach[s] => v.scc[s] <= v.scc[t]
            /\ Range(v.scc) = 0 .. v.nscc - 1
            /\ \A s \in States(g) :
                  /\ v.access[s] <=> s \in reach[g.start]
                  /\ v.coaccess[s] <=> \E t \in reach[s] : IsFinal(g, t)
            /\ "kCyclic" \in v.props <=> ~ Acyclic(g)
            /\ "kInitialCyclic" \in v.props <=>
                  g.start \in ReachableFrom(g, Post(g, {g.start}))
            /\ TopOrderVisit(fst, opts.filter).acyclic <=> Acyclic(g)

\* Every call returns (the costs have no negative cycle).
CallsEnd == pc.at \in {"loop", "arcs"} ~> pc.at \in {"done", "stopped"}

\* Whatever the queue, the computation is a relaxation of arcs as Relaxation.tla
\* specifies it, where a state waits for its expansion from the moment its
\* distance improves.
ArcAt(s, i) == [from |-> s, id |-> i, weight |-> fst.arcs[s][i].weight,
                to |-> fst.arcs[s][i].nextstate]
ArcsFrom(s, n) == {ArcAt(s, i) : i \in {j \in n .. NumArcs(fst, s) : ArcFilter(fst.arcs[s][j])}}
ArcsLeft == IF pc.at = "arcs" THEN ArcsFrom(pc.state, pc.next) ELSE {}
Reached == {s \in States(fst) : Current(s) /\ sd.distance[s] # Zero}

R == INSTANCE Relaxation WITH
        State <- Nat,
        arcs <- UNION {ArcsFrom(s, 1) : s \in States(fst)},
        source <- IF pc.at = "new" THEN 0 ELSE sd.source,
        dist <- [s \in Reached |-> sd.distance[s]],
        todo <- {s \in States(fst) : Current(s) /\ sd.enqueued[s]},
        left <- ArcsLeft,
        at <- IF ArcsLeft = {} THEN 0 ELSE pc.r,
        status <- CASE pc.at = "new" -> "idle" [] pc.at \in {"loop", "arcs"} -> "running"
                    [] OTHER -> pc.at

ImplementsRelaxation == R!RelaxSpec
=============================================================================
