---------------------------- MODULE FstRelation ----------------------------
(***************************************************************************)
(* What the operations of FstOps mean: the relation of input and output    *)
(* strings that a machine accepts, and for every operation the relation    *)
(* its result must have.  Weights are ignored here.                        *)
(***************************************************************************)
EXTENDS FstOps

CONSTANT MaxLen         \* bound: symbols in an input and output string together

Symbol(label) == IF label = 0 THEN <<>> ELSE <<label>>
Short(p) == Len(p[1]) + Len(p[2]) <= MaxLen
Times2(p, q) == << p[1] \o q[1], p[2] \o q[2] >>

\* A configuration <<s, p>>: state s is reached while reading and writing p.
Reading(f, conf) ==
    {c \in { << a.nextstate, Times2(conf[2], << Symbol(a.ilabel), Symbol(a.olabel) >>) >> :
                a \in ArcsOf(f, conf[1]) } : Short(c[2])}

\* A shortest path passes no state twice between two symbols.
Reached(f) ==
    LET Start == IF f.start = kNoStateId THEN {} ELSE {<< f.start, << <<>>, <<>> >> >>}
        Further(confs, i) == confs \cup UNION {Reading(f, c) : c \in confs}
    IN  FoldLeft(Further, Start, [i \in 1 .. NumStates(f) * (MaxLen + 1) |-> i])

Rel(f) == {c[2] : c \in {d \in Reached(f) : IsFinal(f, d[1])}}

-----------------------------------------------------------------------------
(* The operations on relations.                                            *)

Product(R, S) == {p \in {Times2(r, s) : r \in R, s \in S} : Short(p)}

Plus(R) == FoldLeft(LAMBDA P, i : P \cup Product(P, R), R, [i \in 1 .. MaxLen |-> i])

Swapped(R) == {<<p[2], p[1]>> : p \in R}
Backwards(R) == {<<Reverse(p[1]), Reverse(p[2])>> : p \in R}
Unity == {<< <<>>, <<>> >>}

MappedRel(mapper, R) ==
    CASE mapper = "Invert" -> Swapped(R)
      [] mapper = "SuperFinalLabel" -> Product(R, {<< <<1>>, <<1>> >>})
      [] OTHER -> R

-----------------------------------------------------------------------------
(* Properties.                                                             *)

Ready == Small /\ Conventional(fst)

\* Union, both forms of Concat, and Closure give the union, the product and
\* the closure of the relations, for any machine the mutators can build and
\* any bits stored in it (union.h trusts the bit kInitialAcyclic when it
\* reuses the start state).
RationalOpsCorrect ==
    Ready =>
        /\ \A g \in Operands :
              /\ Rel(Union(fst, g)) = Rel(fst) \cup Rel(g)
              /\ Rel(ConcatAppend(fst, g)) = Product(Rel(fst), Rel(g))
              /\ Rel(ConcatPrepend(g, fst)) = Product(Rel(g), Rel(fst))
        /\ Rel(Closure(fst, FALSE)) = Plus(Rel(fst))
        /\ Rel(Closure(fst, TRUE)) = Plus(Rel(fst)) \cup Unity

Rotation(f) == [s \in States(f) |-> (s + 1) % NumStates(f)]

\* The mappers of arc-map.h: Invert swaps the two sides, a superfinal label ends
\* every string, removing weights and a superfinal state without a label change
\* nothing, and a projection pairs each string of one side with itself.
\* Sorting arcs, renumbering states and trimming change no relation; a larger
\* machine is renumbered along one long cycle of the permutation, where every
\* state must be saved before it is overwritten (arcsort.h, statesort.h,
\* topsort.h, connect.h).
\* Reverse accepts the reversed strings, with or without a superinitial state,
\* and also when the start state is the reused final state (reverse.h).
RewritesCorrect ==
    Ready =>
        /\ \A mapper \in Mappers \ {"ProjectInput", "ProjectOutput"} :
              Rel(ArcMap(mapper, fst)) = MappedRel(mapper, Rel(fst))
        /\ \A p \in Rel(fst) :
              /\ Short(<<p[1], p[1]>>) =>
                    <<p[1], p[1]>> \in Rel(ArcMap("ProjectInput", fst))
              /\ Short(<<p[2], p[2]>>) =>
                    <<p[2], p[2]>> \in Rel(ArcMap("ProjectOutput", fst))
        /\ \A side \in {"I", "O"} : Rel(ArcSort(fst, side)) = Rel(fst)
        /\ \A order \in Orders(fst) : Rel(StateSort(fst, order)) = Rel(fst)
        /\ \A g \in Operands :
              LET f == ConcatAppend(fst, g)
              IN  Rel(StateSort(f, Rotation(f))) = Rel(f)
        /\ \A f \in TopSortResults(fst) : Rel(f) = Rel(fst)
        /\ Rel(Connect(fst)) = Rel(fst)
        /\ \A super \in BOOLEAN :
              \A f \in {fst} \cup {ConcatAppend(fst, g) : g \in Operands} :
                  Rel(ReverseFst(f, super, "Other")) = Backwards(Rel(f))
=============================================================================
