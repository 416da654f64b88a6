----------------------------- MODULE Relaxation -----------------------------
(***************************************************************************)
(* What a shortest-distance computation promises, whatever the order of    *)
(* its queue: the relaxation of arcs from a set of states that are still   *)
(* to be expanded, and the distances that it ends with.                    *)
(*                                                                         *)
(* The graph is chosen in the initial state.  dist has the states that     *)
(* were reached as its domain.                                             *)
(***************************************************************************)
EXTENDS Integers

CONSTANT State

VARIABLES arcs,     \* the arcs that the computation considers
          source,   \* the state that distances are measured from
          dist,     \* the distances so far
          todo,     \* the states to be expanded
          left,     \* the arcs of the state under expansion that remain
          at,       \* the distance of that state when its expansion began, if any are left
          status

relaxVars == << arcs, source, dist, todo, left, at, status >>

\* Arcs have numbers: two arcs may be alike in everything else.
ArcSet == [from : State, id : Nat, weight : Int, to : State]
From(s) == {a \in arcs : a.from = s}

Init ==
    /\ arcs \in SUBSET ArcSet
    /\ source \in State
    /\ dist = [s \in {} |-> 0]
    /\ todo = {} /\ left = {} /\ at = 0 /\ status = "idle"

\* A computation begins; nothing of an earlier one matters.
Begin ==
    /\ status # "running"
    /\ source' \in State
    /\ dist' = [s \in {source'} |-> 0]
    /\ todo' = {source'} /\ left' = {} /\ at' = 0 /\ status' = "running"
    /\ UNCHANGED arcs

Expand ==
    /\ status = "running" /\ left = {}
    /\ \E s \in todo : /\ todo' = todo \ {s}
                       /\ left' = From(s)
                       /\ at' = IF left' = {} THEN 0 ELSE dist[s]
    /\ UNCHANGED << arcs, source, dist, status >>

Better(a) == \/ a.to \notin DOMAIN dist
             \/ at + a.weight < dist[a.to]

Relax ==
    /\ status = "running"
    /\ \E a \in left :
          /\ left' = left \ {a}
          /\ at' = IF left' = {} THEN 0 ELSE at
          /\ IF Better(a)
             THEN /\ dist' = [s \in DOMAIN dist \cup {a.to} |->
                                 IF s = a.to THEN at + a.weight ELSE dist[s]]
                  /\ todo' = todo \cup {a.to}
             ELSE UNCHANGED << dist, todo >>
    /\ UNCHANGED << arcs, source, status >>

\* A computation ends when nothing is left to be expanded.
End ==
    /\ status = "running" /\ todo = {} /\ left = {}
    /\ status' = "done"
    /\ UNCHANGED << arcs, source, dist, todo, left, at >>

\* A computation that is after one path only may stop before.
Stop ==
    /\ status = "running" /\ left = {}
    /\ status' = "stopped"
    /\ todo' \in SUBSET todo
    /\ UNCHANGED << arcs, source, dist, left, at >>

Next == Begin \/ Expand \/ Relax \/ End \/ Stop

RelaxSpec == Init /\ [][Next]_relaxVars

-----------------------------------------------------------------------------
(* The promise: when a computation is done, the distances are the greatest *)
(* function with 0 (or less) at the source that no arc can improve, which  *)
(* is what the least costs of paths from the source are.                   *)

\* p is such a function on the states D: D is closed under arcs, and p does not
\* grow along an arc by more than its cost.
Consistent(p, D) ==
    /\ source \in D /\ p[source] <= 0
    /\ \A a \in arcs : a.from \in D => a.to \in D /\ p[a.to] <= p[a.from] + a.weight

\* No arc can improve a distance any more.
NoArcImproves == status = "done" => Consistent(dist, DOMAIN dist)

\* No distance is ever below the cost of the best path.
NeverTooSmall ==
    \A D \in SUBSET State : \A p \in [D -> Int] :
        Consistent(p, D) => \A s \in DOMAIN dist : s \in D /\ p[s] <= dist[s]
=============================================================================
