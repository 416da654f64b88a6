-------------------------------- MODULE Wfst --------------------------------
(***************************************************************************)
(* Weighted machines as values, for the algorithms that compute on labels  *)
(* and weights: what an algorithm reads through the Fst interface (start   *)
(* state, final weights, arcs in order), and what a machine means (its     *)
(* weighted relation and its successful paths).                            *)
(*                                                                         *)
(* Weights are tropical (float-weight.h): costs, with Plus the minimum and *)
(* Times the sum.  States are any values: a delayed operation names its    *)
(* states by the tuples that its state table numbers.                      *)
(***************************************************************************)
EXTENDS Integers, FiniteSets, Sequences, TLC, FiniteSetsExt, SequencesExt

kNoLabel == -1
kNoStateId == -1

\* TropicalWeight; Infinity exceeds every cost that a bounded machine can add up.
Infinity == 1000
Zero == Infinity
One == 0
Plus(v, w) == IF v < w THEN v ELSE w
Times(v, w) == IF v = Zero \/ w = Zero THEN Zero ELSE v + w
Divide(v, w) == IF v = Zero THEN Zero ELSE v - w

PlusAll(S) == IF S = {} THEN Zero ELSE Min(S)

Arc(il, ol, w, t) == [ilabel |-> il, olabel |-> ol, weight |-> w, nextstate |-> t]

\* A machine without states has no start state.
EmptyMachine == [start |-> 0, final |-> <<>>, arcs |-> <<>>]
States(f) == DOMAIN f.final
HasStart(f) == States(f) # {}

ArcsOf(f, s) == Range(f.arcs[s])
IsFinal(f, s) == f.final[s] # Zero
NumArcs(f, s) == Len(f.arcs[s])

AllArcs(f) == UNION {ArcsOf(f, s) : s \in States(f)}
IsAcceptor(f) == \A a \in AllArcs(f) : a.ilabel = a.olabel
IsUnweighted(f) ==
    /\ \A a \in AllArcs(f) : a.weight = One
    /\ \A s \in States(f) : f.final[s] \in {Zero, One}
IDeterministic(f) ==
    \A s \in States(f) : \A i, j \in DOMAIN f.arcs[s] :
        f.arcs[s][i].ilabel = f.arcs[s][j].ilabel => i = j
NoIEpsilons(f) == \A a \in AllArcs(f) : a.ilabel # 0

MapSeq(s, Op(_)) == [i \in DOMAIN s |-> Op(s[i])]

\* The states, or other numbers, of a set in their order.
RECURSIVE Ascending(_)
Ascending(S) == IF S = {} THEN <<>> ELSE << Min(S) >> \o Ascending(S \ {Min(S)})

\* The successor states of a set.
Post(f, S) == {a.nextstate : a \in UNION {ArcsOf(f, s) : s \in S}}

ReachableFrom(f, S) ==
    LET RECURSIVE Close(_, _)
        Close(seen, front) ==
            IF front = {} THEN seen
            ELSE LET next == Post(f, front) \ seen IN Close(seen \cup next, next)
    IN  Close(S, S)

Acyclic(f) == \A s \in States(f) : s \notin ReachableFrom(f, Post(f, {s}))

\* AnyArcFilter and EpsilonArcFilter.
Passes(filter, a) == filter = "any" \/ (a.ilabel = 0 /\ a.olabel = 0)
Considered(f, filter, s) == {a \in ArcsOf(f, s) : Passes(filter, a)}

\* The part of a machine that a traversal of a delayed FST sees: the states
\* that can be reached from start, with their arcs and final weights.
Delayed(start, ArcsAt(_), FinalAt(_)) ==
    LET RECURSIVE Grow(_, _)
        Grow(arcs, front) ==
            IF front = {} THEN arcs
            ELSE LET new == [s \in front |-> ArcsAt(s)]
                     all == arcs @@ new
                     next == UNION {{a.nextstate : a \in Range(all[s])} : s \in front}
                 IN  Grow(all, next \ DOMAIN all)
        arcs == Grow(<<>>, {start})
    IN  [start |-> start, arcs |-> arcs,
         final |-> [s \in DOMAIN arcs |-> FinalAt(s)]]

\* The machine without the states that are on no successful path; it has no
\* states at all when the start state is one of these (connect.h).
Connect(f) ==
    LET access == IF HasStart(f) THEN ReachableFrom(f, {f.start}) ELSE {}
        keep == {s \in access : \E t \in ReachableFrom(f, {s}) : IsFinal(f, t)}
    IN  IF keep = {} THEN EmptyMachine
        ELSE [start |-> f.start,
              final |-> [s \in keep |-> f.final[s]],
              arcs |-> [s \in keep |->
                            SelectSeq(f.arcs[s], LAMBDA a : a.nextstate \in keep)]]

-----------------------------------------------------------------------------
(* What a machine means.                                                   *)

Symbol(label) == IF label = 0 THEN <<>> ELSE <<label>>

\* The weighted relation up to strings with n symbols on both sides together:
\* triples of an input string, an output string, and the least cost of a
\* successful path with these labels.
Relation(f, n) ==
    LET Steps(c) == { << << a.nextstate, c[2] \o Symbol(a.ilabel),
                            c[3] \o Symbol(a.olabel) >>, a.weight >> :
                        a \in {b \in ArcsOf(f, c[1]) : b.weight # Zero} }
        RECURSIVE Relax(_, _)
        Relax(d, front) ==
            LET found == UNION { {<< s[1], d[c] + s[2] >> : s \in Steps(c)} : c \in front }
                short == {p \in found : Len(p[1][2]) + Len(p[1][3]) <= n}
                best == [c \in {p[1] : p \in short} |->
                            Min({p[2] : p \in {q \in short : q[1] = c}})]
                next == {c \in DOMAIN best : c \notin DOMAIN d \/ best[c] < d[c]}
            IN  IF next = {} THEN d
                ELSE Relax([c \in next |-> best[c]] @@ d, next)
        start == << f.start, <<>>, <<>> >>
        dist == Relax(start :> One, {start})
        done == {c \in DOMAIN dist : IsFinal(f, c[1])}
    IN  IF ~ HasStart(f) THEN {}
        ELSE { << k[1], k[2],
                  Min({dist[c] + f.final[c[1]] :
                        c \in {d \in done : d[2] = k[1] /\ d[3] = k[2]}}) >> :
                k \in {<< c[2], c[3] >> : c \in done} }

\* The strings of a relation, without the weights.
Pairs(R) == {<< r[1], r[2] >> : r \in R}

\* Distances by their definition: the least cost over all paths, as the limit
\* of the least cost over paths of at most n arcs.
DistancesIn(f, filter, source) ==
    LET RECURSIVE Limit(_)
        Limit(d) ==
            LET e == [t \in States(f) |->
                        PlusAll({d[t]} \cup UNION {{Times(d[s], a.weight) :
                            a \in {b \in Considered(f, filter, s) : b.nextstate = t}} :
                              s \in States(f)})]
            IN  IF e = d THEN d ELSE Limit(e)
    IN  Limit([s \in States(f) |-> IF s = source THEN One ELSE Zero])

\* The cost from each state to the end of a successful path.
Estimate(f) ==
    [s \in States(f) |->
        LET d == DistancesIn(f, "any", s)
        IN  PlusAll({Times(d[t], f.final[t]) : t \in States(f)})]

\* The successful paths with at most n arcs, each with the arcs it takes.
PathsUpTo(f, n) ==
    LET RECURSIVE From(_, _)
        From(s, k) ==
            (IF IsFinal(f, s)
             THEN {[x |-> <<>>, y |-> <<>>, w |-> f.final[s], via |-> <<>>]} ELSE {})
            \cup UNION { { LET a == f.arcs[s][i]
                           IN  [x |-> Symbol(a.ilabel) \o p.x, y |-> Symbol(a.olabel) \o p.y,
                                w |-> Times(a.weight, p.w), via |-> <<i>> \o p.via] :
                           p \in From(f.arcs[s][i].nextstate, k - 1) } :
                         i \in IF k = 0 THEN {} ELSE DOMAIN f.arcs[s] }
    IN  IF HasStart(f) THEN From(f.start, n) ELSE {}

\* The successful paths of an acyclic machine.
Paths(f) == PathsUpTo(f, Cardinality(States(f)))

\* How many paths have the labels and the weight k, for every such k.
Multiplicity(P, Value(_)) ==
    [k \in {Value(p) : p \in P} |-> Cardinality({p \in P : Value(p) = k})]

PathValue(p) == << p.x, p.y, p.w >>
=============================================================================
