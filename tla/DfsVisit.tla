------------------------------ MODULE DfsVisit ------------------------------
(***************************************************************************)
(* DfsVisit (dfs-visit.h) and two of its visitors: SccVisitor              *)
(* (cc-visitors.h), which finds the strongly connected components and what *)
(* is accessible and coaccessible, and TopOrderVisitor (topsort.h).        *)
(*                                                                         *)
(* The state of a visitor is a record; its field dfs is what its last      *)
(* method returned: the visit goes on while it is TRUE.                    *)
(***************************************************************************)
EXTENDS Wfst

-----------------------------------------------------------------------------
(* SccVisitor.                                                             *)

InitScc(f) ==
    [dfs |-> TRUE, nstates |-> 0, nscc |-> 0, scc_stack |-> <<>>, props |-> {},
     scc |-> [s \in States(f) |-> -1], access |-> [s \in States(f) |-> FALSE],
     coaccess |-> [s \in States(f) |-> FALSE], onstack |-> [s \in States(f) |-> FALSE],
     dfnumber |-> [s \in States(f) |-> -1], lowlink |-> [s \in States(f) |-> -1]]

SccInitState(f, v, s, root) ==
    [v EXCEPT !.scc_stack = Append(@, s), !.dfnumber[s] = v.nstates,
              !.lowlink[s] = v.nstates, !.onstack[s] = TRUE,
              !.access[s] = root = f.start, !.nstates = @ + 1,
              !.props = IF root = f.start THEN @ ELSE @ \cup {"kNotAccessible"}]

Lower(v, s, n) == [v EXCEPT !.lowlink[s] = IF n < @ THEN n ELSE @]

SccBackArc(f, v, s, a) ==
    LET t == a.nextstate
    IN  [Lower(v, s, v.dfnumber[t]) EXCEPT
            !.coaccess[s] = @ \/ v.coaccess[t],
            !.props = @ \cup {"kCyclic"} \cup
                      (IF t = f.start THEN {"kInitialCyclic"} ELSE {})]

CrossIgnoresStack(f, v, s, a) ==
    LET t == a.nextstate
        low == IF v.dfnumber[t] < v.dfnumber[s]
               THEN Lower(v, s, v.dfnumber[t]) ELSE v
    IN  [low EXCEPT !.coaccess[s] = @ \/ v.coaccess[t]]
SccCrossArc(f, v, s, a) ==
    LET t == a.nextstate
        low == IF v.dfnumber[t] < v.dfnumber[s] /\ v.onstack[t]
               THEN Lower(v, s, v.dfnumber[t]) ELSE v
    IN  [low EXCEPT !.coaccess[s] = @ \/ v.coaccess[t]]

\* At the root of a component the stack down to it is the component.
SccFinishState(f, v, s, parent) ==
    LET own == [v EXCEPT !.coaccess[s] = @ \/ IsFinal(f, s)]
        depth == CHOOSE i \in DOMAIN v.scc_stack : v.scc_stack[i] = s
        comp == {v.scc_stack[i] : i \in depth .. Len(v.scc_stack)}
        good == \E t \in comp : own.coaccess[t]
        closed == IF own.dfnumber[s] # own.lowlink[s] THEN own
                  ELSE [own EXCEPT
                          !.scc = [t \in comp |-> v.nscc] @@ @,
                          !.coaccess = [t \in comp |-> own.coaccess[t] \/ good] @@ @,
                          !.onstack = [t \in comp |-> FALSE] @@ @,
                          !.scc_stack = SubSeq(@, 1, depth - 1),
                          !.props = IF good THEN @ ELSE @ \cup {"kNotCoAccessible"},
                          !.nscc = @ + 1]
    IN  IF parent = kNoStateId THEN closed
        ELSE [Lower(closed, parent, closed.lowlink[s]) EXCEPT
                !.coaccess[parent] = @ \/ closed.coaccess[s]]

-----------------------------------------------------------------------------
(* TopOrderVisitor: any back arc stops it.                                 *)

InitTopOrder == [dfs |-> TRUE, finish |-> <<>>]
TopOrderBackArc(v) == [v EXCEPT !.dfs = FALSE]
TopOrderFinishState(v, s) == [v EXCEPT !.finish = Append(@, s)]

-----------------------------------------------------------------------------
(* The visit, with the methods of the visitor, "scc" or "top order".       *)

InitState(visitor, f, v, s, root) ==
    IF visitor = "scc" THEN SccInitState(f, v, s, root) ELSE v
BackArc(visitor, f, v, s, a) ==
    IF visitor = "scc" THEN SccBackArc(f, v, s, a) ELSE TopOrderBackArc(v)
ForwardOrCrossArc(visitor, f, v, s, a) ==
    IF visitor = "scc" THEN SccCrossArc(f, v, s, a) ELSE v
FinishState(visitor, f, v, s, parent) ==
    IF visitor = "scc" THEN SccFinishState(f, v, s, parent) ELSE TopOrderFinishState(v, s)

\* A stack entry is a state and the position of its arc iterator.  Roots are the
\* start state and then the states that are still white, in the order of their
\* numbers; for a delayed FST, whose states the code counts as it goes, these
\* are the same.
VisitWith(f, filter, init, OnInit(_, _, _), OnBack(_, _, _), OnCross(_, _, _),
          OnFinish(_, _, _)) ==
    LET Push(x, s, root) ==
            [x EXCEPT !.color[s] = "grey", !.stack = Append(@, << s, 1 >>),
                      !.v = OnInit(@, s, root)]
        NextArc(x) ==
            IF x.stack = <<>> THEN x
            ELSE [x EXCEPT !.stack[Len(x.stack)][2] = @ + 1]
        Finish(x, s) ==
            LET rest == Front(x.stack)
                parent == IF rest = <<>> THEN kNoStateId ELSE Last(rest)[1]
            IN  NextArc([x EXCEPT !.color[s] = "black", !.stack = rest,
                                  !.v = OnFinish(@, s, parent)])
        Step(x, root) ==
            LET s == Last(x.stack)[1]
                i == Last(x.stack)[2]
            IN  IF ~ x.v.dfs \/ i > Len(f.arcs[s]) THEN Finish(x, s)
                ELSE LET a == f.arcs[s][i]
                         c == x.color[a.nextstate]
                     IN  CASE ~ Passes(filter, a) -> NextArc(x)
                           [] Passes(filter, a) /\ c = "white" -> Push(x, a.nextstate, root)
                           [] Passes(filter, a) /\ c = "grey" ->
                                 NextArc([x EXCEPT !.v = OnBack(@, s, a)])
                           [] Passes(filter, a) /\ c = "black" ->
                                 NextArc([x EXCEPT !.v = OnCross(@, s, a)])
        RECURSIVE Tree(_, _)
        Tree(x, root) == IF x.stack = <<>> THEN x ELSE Tree(Step(x, root), root)
        RECURSIVE Forest(_, _)
        Forest(x, root) ==
            LET y == Tree(Push(x, root, root), root)
                white == {s \in States(f) : y.color[s] = "white"}
            IN  IF ~ y.v.dfs \/ white = {} THEN y.v ELSE Forest(y, Min(white))
        x0 == [color |-> [s \in States(f) |-> "white"], stack |-> <<>>, v |-> init]
    IN  IF HasStart(f) THEN Forest(x0, f.start) ELSE init

DfsVisit(f, filter, visitor, init) ==
    VisitWith(f, filter, init, LAMBDA v, s, root : InitState(visitor, f, v, s, root),
              LAMBDA v, s, a : BackArc(visitor, f, v, s, a),
              LAMBDA v, s, a : ForwardOrCrossArc(visitor, f, v, s, a),
              LAMBDA v, s, parent : FinishState(visitor, f, v, s, parent))

\* Components are numbered in the order in which they are completed, and in the
\* end the other way round.
SccVisit(f, filter) ==
    LET v == DfsVisit(f, filter, "scc", InitScc(f))
    IN  [v EXCEPT !.scc = [s \in States(f) |-> v.nscc - 1 - v.scc[s]]]

\* A position for each state, without meaning if the machine is cyclic.
TopOrderVisit(f, filter) ==
    LET v == DfsVisit(f, filter, "top order", InitTopOrder)
        n == Len(v.finish)
    IN  [acyclic |-> v.dfs,
         order |-> [s \in States(f) |->
                       IF v.dfs THEN n - (CHOOSE i \in 1 .. n : v.finish[i] = s) ELSE s]]
=============================================================================
