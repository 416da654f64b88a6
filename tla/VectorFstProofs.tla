--------------------------- MODULE VectorFstProofs ---------------------------
(***************************************************************************)
(* Proofs about VectorFst, for machines with any number of states and arcs *)
(* and for any masks: every mutator keeps the machine well formed and its  *)
(* stored property bits true, and what Properties(mask, true) computes or  *)
(* finds stored is the truth.                                              *)
(*                                                                         *)
(* The argument.  First reachability: the states within NumStates steps of *)
(* s are closed under arcs, because a shortest path repeats no state.      *)
(* Then one predicate for each pair of bits, and how each predicate        *)
(* depends on the arcs: a machine that is embedded in another, with its    *)
(* arcs in the same order, inherits every fact that says "for all arcs"    *)
(* or "no path", which is what deleting and adding need in opposite        *)
(* directions.  Then one pair of lemmas for each mutator.  Last the pass   *)
(* of ComputeProperties, which refutes exactly the false bits.             *)
(***************************************************************************)
EXTENDS VectorFst, FiniteSetTheorems, WellFoundedInduction, NaturalsInduction, TLAPS

-----------------------------------------------------------------------------
(* Induction and reachability.                                             *)

\* Induction over the natural numbers, for the set of the n that satisfy a claim.
LEMMA NatSubset ==
  ASSUME NEW S, 0 \in S, \A n \in Nat : n \in S => n + 1 \in S
  PROVE  Nat \subseteq S
<1> SUFFICES ASSUME Nat \ S # {} PROVE FALSE
  OBVIOUS
<1> DEFINE T == Nat \ S
<1>1. IsWellFoundedOn(OpToRel(<, Nat), Nat)
  BY NatLessThanWellFounded
<1>2. T \subseteq Nat /\ T # {}
  OBVIOUS
<1> HIDE DEF T
<1>3. PICK x \in T : \A y \in T : ~ (<<y, x>> \in OpToRel(<, Nat))
  BY <1>1, <1>2, WFMin
<1>4. x \in Nat /\ x # 0 /\ x \notin S
  BY <1>2 DEF T
<1>5. x - 1 \in Nat /\ (x - 1) + 1 = x /\ x - 1 < x
  BY <1>4
<1>6. x - 1 \in T
  BY <1>5, <1>4 DEF T
<1>7. <<x - 1, x>> \in OpToRel(<, Nat)
  BY <1>5, <1>4 DEF OpToRel
<1> QED
  BY <1>3, <1>6, <1>7

\* An arc leads from u to t.
Edge(f, u, t) == \E a \in ArcsOf(f, u) : a.nextstate = t
Closed(f, S) == \A u \in S : \A t : Edge(f, u, t) => t \in S

LEMMA WithNextElements ==
  ASSUME NEW f, NEW S, NEW t
  PROVE  t \in WithNext(f, S) <=> t \in S \/ \E u \in S : Edge(f, u, t)
BY DEF WithNext, Edge

\* The machine f has the states 0 .. N - 1, and arcs lead to states.
IsGraph(f) ==
  /\ NumStates(f) \in Nat
  /\ \A u \in States(f) : \A t : Edge(f, u, t) => t \in States(f)

\* The walks from s of n steps, each of which may also stay where it is.
Walks(f, s, n) ==
  {p \in [0 .. n -> States(f)] :
     p[0] = s /\ \A i \in 0 .. n - 1 : p[i + 1] = p[i] \/ Edge(f, p[i], p[i + 1])}
WalkEnds(f, s, n) == {p[n] : p \in Walks(f, s, n)}

LEMMA WalkEndsZero ==
  ASSUME NEW f, NEW s \in States(f)
  PROVE  WalkEnds(f, s, 0) = {s}
<1> DEFINE p == [i \in 0 .. 0 |-> s]
<1>1. p \in Walks(f, s, 0)
  BY DEF Walks
<1>2. p[0] = s
  OBVIOUS
<1>3. \A q \in Walks(f, s, 0) : q[0] = s
  BY DEF Walks
<1> QED
  BY <1>1, <1>2, <1>3 DEF WalkEnds

LEMMA WalkEndsStep ==
  ASSUME NEW f, IsGraph(f), NEW s \in States(f), NEW n \in Nat
  PROVE  WalkEnds(f, s, n + 1) = WithNext(f, WalkEnds(f, s, n))
<1>1. ASSUME NEW t \in WalkEnds(f, s, n + 1)
      PROVE  t \in WithNext(f, WalkEnds(f, s, n))
  <2>1. PICK p \in Walks(f, s, n + 1) : t = p[n + 1]
    BY <1>1 DEF WalkEnds
  <2>2. /\ p \in [0 .. n + 1 -> States(f)] /\ p[0] = s
        /\ \A i \in 0 .. n : p[i + 1] = p[i] \/ Edge(f, p[i], p[i + 1])
    BY <2>1 DEF Walks
  <2> DEFINE q == [i \in 0 .. n |-> p[i]]
  <2>3. q \in Walks(f, s, n)
    <3>1. q \in [0 .. n -> States(f)] /\ q[0] = s
      BY <2>2
    <3>2. ASSUME NEW i \in 0 .. n - 1
          PROVE  q[i + 1] = q[i] \/ Edge(f, q[i], q[i + 1])
      <4>1. i \in 0 .. n /\ i + 1 \in 0 .. n
        OBVIOUS
      <4>2. q[i] = p[i] /\ q[i + 1] = p[i + 1]
        BY <4>1
      <4> QED
        BY <4>1, <4>2, <2>2, Zenon
    <3> QED
      BY <3>1, <3>2 DEF Walks
  <2>4. q[n] = p[n]
    OBVIOUS
  <2> HIDE DEF q
  <2>5. p[n] \in WalkEnds(f, s, n)
    BY <2>3, <2>4 DEF WalkEnds
  <2>6. n \in 0 .. n
    OBVIOUS
  <2>7. p[n + 1] = p[n] \/ Edge(f, p[n], p[n + 1])
    BY <2>2, <2>6, Zenon
  <2> QED
    BY <2>1, <2>5, <2>7, WithNextElements
<1>2. ASSUME NEW t \in WithNext(f, WalkEnds(f, s, n))
      PROVE  t \in WalkEnds(f, s, n + 1)
  <2>1. PICK u \in WalkEnds(f, s, n) : t = u \/ Edge(f, u, t)
    BY <1>2, WithNextElements
  <2>2. PICK p \in Walks(f, s, n) : u = p[n]
    BY <2>1 DEF WalkEnds
  <2>3. /\ p \in [0 .. n -> States(f)] /\ p[0] = s
        /\ \A i \in 0 .. n - 1 : p[i + 1] = p[i] \/ Edge(f, p[i], p[i + 1])
    BY <2>2 DEF Walks
  <2>4. u \in States(f)
    BY <2>2, <2>3
  <2>5. t \in States(f)
    BY <2>1, <2>4 DEF IsGraph
  <2> DEFINE q == [i \in 0 .. n + 1 |-> IF i = n + 1 THEN t ELSE p[i]]
  <2>6. q \in [0 .. n + 1 -> States(f)] /\ q[0] = s /\ q[n + 1] = t
    BY <2>3, <2>5
  <2>7. ASSUME NEW i \in 0 .. n
        PROVE  q[i + 1] = q[i] \/ Edge(f, q[i], q[i + 1])
    <3>1. q[i] = p[i]
      OBVIOUS
    <3>2. CASE i = n
      BY <3>1, <3>2, <2>1, <2>2, <2>6
    <3>3. CASE i # n
      <4>1. i \in 0 .. n - 1 /\ q[i + 1] = p[i + 1]
        BY <3>3
      <4> QED
        BY <4>1, <3>1, <2>3, Zenon
    <3> QED
      BY <3>2, <3>3
  <2> HIDE DEF q
  <2>8. q \in Walks(f, s, n + 1)
    BY <2>6, <2>7 DEF Walks
  <2> QED
    BY <2>8, <2>6 DEF WalkEnds
<1> QED
  BY <1>1, <1>2

\* The function that ReachedFrom defines by recursion.
Within(f, s) ==
  CHOOSE g : g = [n \in Nat |-> IF n = 0 THEN {s} ELSE WithNext(f, g[n - 1])]

LEMMA ReachedFromWithin ==
  ASSUME NEW f, NEW s
  PROVE  ReachedFrom(f, s) = Within(f, s)[NumStates(f)]
BY DEF ReachedFrom, Within

LEMMA WithinSteps ==
  ASSUME NEW f, IsGraph(f), NEW s \in States(f)
  PROVE  /\ Within(f, s)[0] = {s}
         /\ \A n \in Nat : Within(f, s)[n + 1] = WithNext(f, Within(f, s)[n])
<1> DEFINE h == [n \in Nat |-> WalkEnds(f, s, n)]
<1>1. ASSUME NEW n \in Nat
      PROVE  h[n] = IF n = 0 THEN {s} ELSE WithNext(f, h[n - 1])
  <2>1. CASE n = 0
    BY <2>1, WalkEndsZero
  <2>2. CASE n # 0
    <3>1. n - 1 \in Nat /\ (n - 1) + 1 = n
      BY <2>2
    <3>2. WalkEnds(f, s, (n - 1) + 1) = WithNext(f, WalkEnds(f, s, n - 1))
      BY <3>1, WalkEndsStep
    <3> QED
      BY <3>1, <3>2, <2>2
  <2> QED
    BY <2>1, <2>2
<1>2. h = [n \in Nat |-> IF n = 0 THEN {s} ELSE WithNext(f, h[n - 1])]
  <2> DEFINE r == [n \in Nat |-> IF n = 0 THEN {s} ELSE WithNext(f, h[n - 1])]
  <2>1. \A n \in Nat : h[n] = r[n]
    <3> SUFFICES ASSUME NEW n \in Nat PROVE h[n] = r[n]
      OBVIOUS
    <3>1. r[n] = IF n = 0 THEN {s} ELSE WithNext(f, h[n - 1])
      OBVIOUS
    <3> HIDE DEF r, h
    <3> QED
      BY <3>1, <1>1, Zenon
  <2>2. h = [n \in Nat |-> h[n]] /\ r = [n \in Nat |-> r[n]]
    OBVIOUS
  <2> HIDE DEF h, r
  <2> QED
    BY <2>1, <2>2 DEF r
<1> HIDE DEF h
<1> DEFINE g == Within(f, s)
<1>3. g = [n \in Nat |-> IF n = 0 THEN {s} ELSE WithNext(f, g[n - 1])]
  BY <1>2 DEF Within
<1> HIDE DEF g
<1>4. g[0] = {s}
  BY <1>3
<1>5. ASSUME NEW n \in Nat PROVE g[n + 1] = WithNext(f, g[n])
  <2>1. n + 1 \in Nat /\ n + 1 # 0 /\ (n + 1) - 1 = n
    OBVIOUS
  <2>2. g[n + 1] = IF n + 1 = 0 THEN {s} ELSE WithNext(f, g[(n + 1) - 1])
    BY <1>3, <2>1
  <2> QED
    BY <2>1, <2>2
<1> QED
  BY <1>4, <1>5 DEF g

LEMMA ReachedContained ==
  ASSUME NEW f, IsGraph(f), NEW s \in States(f), NEW S, s \in S, Closed(f, S)
  PROVE  ReachedFrom(f, s) \subseteq S
<1> DEFINE g == Within(f, s)
           I == {n \in Nat : g[n] \subseteq S}
<1>1. g[0] = {s} /\ \A n \in Nat : g[n + 1] = WithNext(f, g[n])
  BY WithinSteps, ZenonT(40)
<1> HIDE DEF g
<1>2. 0 \in I
  BY <1>1
<1>3. ASSUME NEW n \in Nat, n \in I PROVE n + 1 \in I
  <2>1. g[n] \subseteq S
    BY <1>3
  <2>2. ASSUME NEW t \in g[n + 1] PROVE t \in S
    <3>1. t \in WithNext(f, g[n])
      BY <2>2, <1>1
    <3>2. t \in g[n] \/ \E u \in g[n] : Edge(f, u, t)
      BY <3>1, WithNextElements
    <3> QED
      BY <3>2, <2>1 DEF Closed
  <2> QED
    BY <2>2
<1>4. Nat \subseteq I
  BY <1>2, <1>3, NatSubset
<1>5. NumStates(f) \in Nat
  BY DEF IsGraph
<1>6. g[NumStates(f)] \subseteq S
  BY <1>4, <1>5
<1> QED
  BY <1>6, ReachedFromWithin DEF g

\* A set that grows with every step until it is closed is closed after NumStates
\* steps.
LEMMA ReachedClosed ==
  ASSUME NEW f, IsGraph(f), NEW s \in States(f)
  PROVE  /\ ReachedFrom(f, s) \subseteq States(f)
         /\ s \in ReachedFrom(f, s)
         /\ Closed(f, ReachedFrom(f, s))
<1> DEFINE N == NumStates(f)
           g == Within(f, s)
           Grown(n) == /\ g[n] \subseteq States(f) /\ s \in g[n]
                       /\ Closed(f, g[n]) \/ Cardinality(g[n]) >= n + 1
           I == {n \in Nat : Grown(n)}
<1>1. g[0] = {s} /\ \A n \in Nat : g[n + 1] = WithNext(f, g[n])
  BY WithinSteps, ZenonT(40)
<1>2. /\ N \in Nat /\ States(f) = 0 .. N - 1
      /\ IsFiniteSet(States(f)) /\ Cardinality(States(f)) = N
  BY FS_Interval DEF IsGraph, States
<1> HIDE DEF g, N
<1>3. 0 \in I
  <2>1. Cardinality(g[0]) = 1
    BY <1>1, FS_Singleton, Zenon
  <2>2. Grown(0)
    BY <1>1, <2>1
  <2> QED
    BY <2>2
<1>4. ASSUME NEW n \in Nat, n \in I PROVE n + 1 \in I
  <2>1. Grown(n)
    BY <1>4
  <2>2. \A t : t \in g[n + 1] <=> t \in g[n] \/ \E u \in g[n] : Edge(f, u, t)
    BY <1>1, WithNextElements
  <2>3. g[n + 1] \subseteq States(f) /\ g[n] \subseteq g[n + 1] /\ s \in g[n + 1]
    BY <2>1, <2>2 DEF IsGraph
  <2>4. CASE Closed(f, g[n])
    <3>1. g[n + 1] = g[n]
      BY <2>2, <2>4 DEF Closed
    <3> QED
      BY <3>1, <2>1, <2>4
  <2>5. CASE ~ Closed(f, g[n])
    <3>1. PICK u, t : u \in g[n] /\ Edge(f, u, t) /\ t \notin g[n]
      BY <2>5 DEF Closed
    <3>2. t \in g[n + 1] /\ t \in States(f)
      BY <3>1, <2>2, <2>3
    <3>3. IsFiniteSet(g[n]) /\ IsFiniteSet(g[n + 1])
      BY <2>1, <2>3, <1>2, FS_Subset
    <3>4. Cardinality(g[n]) \in Nat /\ Cardinality(g[n + 1]) \in Nat
      BY <3>3, FS_CardinalityType
    <3>5. /\ IsFiniteSet(g[n] \cup {t})
          /\ Cardinality(g[n] \cup {t}) = Cardinality(g[n]) + 1
      BY <3>1, <3>3, FS_AddElement, Zenon
    <3>6. Cardinality(g[n] \cup {t}) <= Cardinality(g[n + 1])
      BY <3>2, <3>3, <2>3, FS_Subset
    <3>7. Cardinality(g[n]) >= n + 1
      BY <2>1, <2>5
    <3>8. Cardinality(g[n + 1]) >= (n + 1) + 1
      BY <3>4, <3>5, <3>6, <3>7
    <3> QED
      BY <3>8, <2>3
  <2> QED
    BY <2>4, <2>5
<1>5. Nat \subseteq I
  BY <1>3, <1>4, NatSubset
<1>6. Grown(N)
  BY <1>2, <1>5
<1>7. Closed(f, g[N])
  <2>1. IsFiniteSet(g[N]) /\ Cardinality(g[N]) <= N
    BY <1>2, <1>6, FS_Subset
  <2>2. Cardinality(g[N]) \in Nat
    BY <2>1, FS_CardinalityType
  <2>3. ~ (Cardinality(g[N]) >= N + 1)
    BY <2>1, <2>2, <1>2
  <2> QED
    BY <2>3, <1>6
<1>8. ReachedFrom(f, s) = g[N]
  BY ReachedFromWithin DEF g, N
<1> QED
  BY <1>6, <1>7, <1>8

\* Reachability as the rest of the proofs use it.
LEMMA ReachSteps ==
  ASSUME NEW f, IsGraph(f), NEW s \in States(f)
  PROVE  /\ Reaches(f, s, s)
         /\ \A t : Reaches(f, s, t) => t \in States(f)
         /\ \A t, u : Reaches(f, s, t) /\ Edge(f, t, u) => Reaches(f, s, u)
<1> DEFINE R == ReachedFrom(f, s)
<1>1. R \subseteq States(f) /\ s \in R /\ Closed(f, R)
  BY ReachedClosed
<1> HIDE DEF R
<1>2. \A t : Reaches(f, s, t) <=> t \in R
  BY DEF Reaches, R
<1> QED
  BY <1>1, <1>2 DEF Closed

LEMMA ReachTransitive ==
  ASSUME NEW f, IsGraph(f), NEW s \in States(f), NEW t, NEW u,
         Reaches(f, s, t), Reaches(f, t, u)
  PROVE  Reaches(f, s, u)
<1>1. t \in States(f) /\ t \in ReachedFrom(f, s) /\ Closed(f, ReachedFrom(f, s))
  BY ReachedClosed DEF Reaches
<1>2. ReachedFrom(f, t) \subseteq ReachedFrom(f, s)
  BY <1>1, ReachedContained
<1> QED
  BY <1>2 DEF Reaches

-----------------------------------------------------------------------------
(* The facts the bits state, one predicate for each pair.                  *)

IsAcceptor(f) == \A s \in States(f) : \A a \in ArcsOf(f, s) : a.ilabel = a.olabel
IsIDeterministic(f) == \A s \in States(f) : UniqueLabels(f.states[s].arcs, ILabel)
IsODeterministic(f) == \A s \in States(f) : UniqueLabels(f.states[s].arcs, OLabel)
HasNoEpsilons(f) ==
  \A s \in States(f) : \A a \in ArcsOf(f, s) : a.ilabel # 0 \/ a.olabel # 0
HasNoIEpsilons(f) == \A s \in States(f) : \A a \in ArcsOf(f, s) : a.ilabel # 0
HasNoOEpsilons(f) == \A s \in States(f) : \A a \in ArcsOf(f, s) : a.olabel # 0
IsILabelSorted(f) == \A s \in States(f) : SortedLabels(f.states[s].arcs, ILabel)
IsOLabelSorted(f) == \A s \in States(f) : SortedLabels(f.states[s].arcs, OLabel)
HasTrivialArcs(f) == \A s \in States(f) : \A a \in ArcsOf(f, s) : ~ Nontrivial(a.weight)
HasTrivialFinals(f) == \A s \in States(f) : ~ Nontrivial(f.states[s].final)
IsTopSorted(f) == \A s \in States(f) : \A a \in ArcsOf(f, s) : a.nextstate > s
IsAcyclic(f) == \A s \in States(f) : ~ OnCycle(f, s)
IsInitialCyclic(f) == f.start # kNoStateId /\ OnCycle(f, f.start)
IsAccessible(f) == \A s \in States(f) : Accessible(f, s)
IsCoAccessible(f) == \A s \in States(f) : Coaccessible(f, s)
HasTrivialCycles(f) ==
  \A s \in States(f) : \A a \in ArcsOf(f, s) :
    ~ (Nontrivial(a.weight) /\ Reaches(f, a.nextstate, s))

LEMMA LabelBits ==
  ASSUME NEW f
  PROVE  /\ "Acceptor" \in Truth(f) <=> IsAcceptor(f)
         /\ "NotAcceptor" \in Truth(f) <=> ~ IsAcceptor(f)
         /\ "Epsilons" \in Truth(f) <=> ~ HasNoEpsilons(f)
         /\ "NoEpsilons" \in Truth(f) <=> HasNoEpsilons(f)
         /\ "IEpsilons" \in Truth(f) <=> ~ HasNoIEpsilons(f)
         /\ "NoIEpsilons" \in Truth(f) <=> HasNoIEpsilons(f)
         /\ "OEpsilons" \in Truth(f) <=> ~ HasNoOEpsilons(f)
         /\ "NoOEpsilons" \in Truth(f) <=> HasNoOEpsilons(f)
BY DEF Truth, LabelFacts, OrderFacts, CycleFacts, CycleWeightFacts, Decide, EachArc,
       IsAcceptor, HasNoEpsilons, HasNoIEpsilons, HasNoOEpsilons

LEMMA ListBits ==
  ASSUME NEW f
  PROVE  /\ "IDeterministic" \in Truth(f) <=> IsIDeterministic(f)
         /\ "NonIDeterministic" \in Truth(f) <=> ~ IsIDeterministic(f)
         /\ "ODeterministic" \in Truth(f) <=> IsODeterministic(f)
         /\ "NonODeterministic" \in Truth(f) <=> ~ IsODeterministic(f)
         /\ "ILabelSorted" \in Truth(f) <=> IsILabelSorted(f)
         /\ "NotILabelSorted" \in Truth(f) <=> ~ IsILabelSorted(f)
         /\ "OLabelSorted" \in Truth(f) <=> IsOLabelSorted(f)
         /\ "NotOLabelSorted" \in Truth(f) <=> ~ IsOLabelSorted(f)
BY DEF Truth, LabelFacts, OrderFacts, CycleFacts, CycleWeightFacts, Decide, EachState,
       IsIDeterministic, IsODeterministic, IsILabelSorted, IsOLabelSorted

LEMMA OrderBits ==
  ASSUME NEW f
  PROVE  /\ "Weighted" \in Truth(f) <=> ~ (HasTrivialArcs(f) /\ HasTrivialFinals(f))
         /\ "Unweighted" \in Truth(f) <=> HasTrivialArcs(f) /\ HasTrivialFinals(f)
         /\ "TopSorted" \in Truth(f) <=> IsTopSorted(f)
         /\ "NotTopSorted" \in Truth(f) <=> ~ IsTopSorted(f)
         /\ "String" \in Truth(f) <=> IsString(f)
         /\ "NotString" \in Truth(f) <=> ~ IsString(f)
BY DEF Truth, LabelFacts, OrderFacts, CycleFacts, CycleWeightFacts, Decide, EachState,
       EachArc, HasTrivialArcs, HasTrivialFinals, IsTopSorted

LEMMA CycleBits ==
  ASSUME NEW f
  PROVE  /\ "Cyclic" \in Truth(f) <=> ~ IsAcyclic(f)
         /\ "Acyclic" \in Truth(f) <=> IsAcyclic(f)
         /\ "InitialCyclic" \in Truth(f) <=> IsInitialCyclic(f)
         /\ "InitialAcyclic" \in Truth(f) <=> ~ IsInitialCyclic(f)
         /\ "Accessible" \in Truth(f) <=> IsAccessible(f)
         /\ "NotAccessible" \in Truth(f) <=> ~ IsAccessible(f)
         /\ "CoAccessible" \in Truth(f) <=> IsCoAccessible(f)
         /\ "NotCoAccessible" \in Truth(f) <=> ~ IsCoAccessible(f)
         /\ "WeightedCycles" \in Truth(f) <=> ~ HasTrivialCycles(f)
         /\ "UnweightedCycles" \in Truth(f) <=> HasTrivialCycles(f)
BY DEF Truth, LabelFacts, OrderFacts, CycleFacts, CycleWeightFacts, Decide, EachState,
       EachArc, IsAcyclic, IsInitialCyclic, IsAccessible, IsCoAccessible,
       HasTrivialCycles

LEMMA TrinaryBits ==
  /\ kTrinaryProperties =
       { "Acceptor", "NotAcceptor", "IDeterministic", "NonIDeterministic",
         "ODeterministic", "NonODeterministic", "Epsilons", "NoEpsilons",
         "IEpsilons", "NoIEpsilons", "OEpsilons", "NoOEpsilons",
         "ILabelSorted", "NotILabelSorted", "OLabelSorted", "NotOLabelSorted",
         "Weighted", "Unweighted", "Cyclic", "Acyclic", "InitialCyclic",
         "InitialAcyclic", "TopSorted", "NotTopSorted", "Accessible",
         "NotAccessible", "CoAccessible", "NotCoAccessible", "String",
         "NotString", "WeightedCycles", "UnweightedCycles" }
  /\ kFstProperties = kTrinaryProperties \cup {"Expanded", "Mutable", "Error"}
BY DEF kTrinaryProperties, Bits, TrinaryPairs, kFstProperties, kBinaryProperties

-----------------------------------------------------------------------------
(* Machines.                                                               *)

LEMMA MachineFacts ==
  ASSUME NEW f, IsVectorFst(f)
  PROVE  /\ NumStates(f) \in Nat
         /\ States(f) = 0 .. NumStates(f) - 1
         /\ f.start \in States(f) \cup {kNoStateId}
         /\ f.states \in [States(f) -> StateType(NumStates(f))]
         /\ f.props \in SUBSET kFstProperties
         /\ f = [start |-> f.start, states |-> f.states, props |-> f.props]
<1>1. f \in [start : States(f) \cup {kNoStateId},
             states : [States(f) -> StateType(NumStates(f))],
             props : SUBSET kFstProperties]
  BY DEF IsVectorFst
<1>2. NumStates(f) \in Nat /\ States(f) = 0 .. NumStates(f) - 1
  BY DEF IsVectorFst, States
<1> QED
  BY <1>1, <1>2

LEMMA StateFacts ==
  ASSUME NEW f, IsVectorFst(f), NEW s \in States(f)
  PROVE  /\ f.states[s] \in StateType(NumStates(f))
         /\ f.states[s].final \in Weights
         /\ f.states[s].arcs \in Seq(ArcType(NumStates(f)))
         /\ f.states[s].niepsilons \in Int
         /\ f.states[s].noepsilons \in Int
         /\ Counted(f.states[s])
<1>1. f.states[s] \in StateType(NumStates(f))
  BY MachineFacts
<1> QED
  BY <1>1 DEF StateType, IsVectorFst

LEMMA ArcFacts ==
  ASSUME NEW f, IsVectorFst(f), NEW s \in States(f)
  PROVE  /\ Len(f.states[s].arcs) \in Nat
         /\ DOMAIN f.states[s].arcs = 1 .. Len(f.states[s].arcs)
         /\ \A i \in 1 .. Len(f.states[s].arcs) :
              /\ f.states[s].arcs[i] \in ArcType(NumStates(f))
              /\ f.states[s].arcs[i] \in ArcsOf(f, s)
         /\ \A a \in ArcsOf(f, s) :
              \E i \in 1 .. Len(f.states[s].arcs) : a = f.states[s].arcs[i]
         /\ \A a \in ArcsOf(f, s) :
              /\ a \in ArcType(NumStates(f))
              /\ a.ilabel \in Nat /\ a.olabel \in Nat
              /\ a.weight \in Weights /\ a.nextstate \in States(f)
<1> DEFINE q == f.states[s].arcs
           A == ArcType(NumStates(f))
<1>1. q \in Seq(A)
  BY StateFacts
<1>2. ArcsOf(f, s) = {q[i] : i \in DOMAIN q}
  BY DEF ArcsOf, Range
<1>3. \A a \in A : /\ a.ilabel \in Nat /\ a.olabel \in Nat
                   /\ a.weight \in Weights /\ a.nextstate \in States(f)
  BY DEF ArcType, States
<1> HIDE DEF q, A
<1>4. /\ Len(q) \in Nat /\ DOMAIN q = 1 .. Len(q)
      /\ \A i \in 1 .. Len(q) : q[i] \in A
  BY <1>1
<1>5. \A i \in 1 .. Len(q) : q[i] \in ArcsOf(f, s)
  BY <1>2, <1>4
<1>6. \A a \in ArcsOf(f, s) : \E i \in 1 .. Len(q) : a = q[i]
  BY <1>2, <1>4
<1> QED
  BY <1>3, <1>4, <1>5, <1>6 DEF q, A

LEMMA MachineIsGraph ==
  ASSUME NEW f, IsVectorFst(f)
  PROVE  IsGraph(f)
BY MachineFacts, ArcFacts DEF IsGraph, Edge

\* What is to be shown of a record to know that it is a machine with n states.
LEMMA MakeMachine ==
  ASSUME NEW g, NEW n \in Nat,
         g \in [start : (0 .. n - 1) \cup {kNoStateId},
                states : [0 .. n - 1 -> StateType(n)],
                props : SUBSET kFstProperties],
         \A s \in 0 .. n - 1 : Counted(g.states[s])
  PROVE  IsVectorFst(g) /\ NumStates(g) = n /\ States(g) = 0 .. n - 1
<1>1. DOMAIN g.states = 0 .. n - 1
  OBVIOUS
<1>2. Cardinality(0 .. n - 1) = n
  BY FS_Interval
<1>3. NumStates(g) = n
  BY <1>1, <1>2 DEF NumStates
<1>4. States(g) = 0 .. n - 1
  BY <1>3 DEF States
<1> QED
  BY <1>3, <1>4 DEF IsVectorFst

-----------------------------------------------------------------------------
(* A machine whose arcs are some of those of another one.                  *)

\* The arc b is the arc a, with the states renamed by h.
SameArc(a, b, D, h) ==
  /\ b.ilabel = a.ilabel /\ b.olabel = a.olabel /\ b.weight = a.weight
  /\ b.nextstate \in D /\ h[b.nextstate] = a.nextstate

\* The arcs q are some of the arcs p, in the same order.
SomeArcs(p, q, D, h) ==
  \E k \in [DOMAIN q -> DOMAIN p] :
    /\ \A i, j \in DOMAIN q : i < j => k[i] < k[j]
    /\ \A i \in DOMAIN q : SameArc(p[k[i]], q[i], D, h)

\* The states D of g are states of f, in the same order, with some of their arcs;
\* the other states of g have no arcs.
Embeds(f, g, D, h) ==
  /\ D \subseteq States(g) /\ h \in [D -> States(f)]
  /\ \A u, t \in D : u < t => h[u] < h[t]
  /\ \A s \in States(g) \ D : g.states[s].arcs = <<>>
  /\ \A s \in D : SomeArcs(f.states[h[s]].arcs, g.states[s].arcs, D, h)

LEMMA EmbeddedArc ==
  ASSUME NEW f, NEW g, IsVectorFst(f), IsVectorFst(g), NEW D, NEW h,
         Embeds(f, g, D, h), NEW s \in States(g), NEW b \in ArcsOf(g, s)
  PROVE  /\ s \in D /\ h[s] \in States(f)
         /\ b.nextstate \in D
         /\ \E a \in ArcsOf(f, h[s]) : SameArc(a, b, D, h)
<1> DEFINE q == g.states[s].arcs
<1>1. PICK i \in 1 .. Len(q) : b = q[i]
  BY ArcFacts
<1>2. s \in D
  <2> SUFFICES ASSUME s \notin D PROVE FALSE
    OBVIOUS
  <2>1. q = <<>>
    BY DEF Embeds
  <2> QED
    BY <1>1, <2>1
<1>3. h[s] \in States(f)
  BY <1>2 DEF Embeds
<1> DEFINE p == f.states[h[s]].arcs
<1>4. SomeArcs(p, q, D, h)
  BY <1>2 DEF Embeds
<1>5. i \in DOMAIN q /\ DOMAIN p = 1 .. Len(p) /\ \A j \in 1 .. Len(p) : p[j] \in ArcsOf(f, h[s])
  BY <1>1, <1>3, ArcFacts
<1> HIDE DEF p, q
<1>6. \E j \in DOMAIN p : SameArc(p[j], q[i], D, h)
  BY <1>4, <1>5 DEF SomeArcs
<1>7. \E a \in ArcsOf(f, h[s]) : SameArc(a, b, D, h)
  BY <1>6, <1>5, <1>1
<1> QED
  BY <1>2, <1>3, <1>7 DEF SameArc

\* What every arc of f has, every arc of g has.
LEMMA EmbeddedLabels ==
  ASSUME NEW f, NEW g, IsVectorFst(f), IsVectorFst(g), NEW D, NEW h, Embeds(f, g, D, h)
  PROVE  /\ IsAcceptor(f) => IsAcceptor(g)
         /\ HasNoEpsilons(f) => HasNoEpsilons(g)
         /\ HasNoIEpsilons(f) => HasNoIEpsilons(g)
         /\ HasNoOEpsilons(f) => HasNoOEpsilons(g)
         /\ HasTrivialArcs(f) => HasTrivialArcs(g)
<1>1. \A s \in States(g) : \A b \in ArcsOf(g, s) :
        \E u \in States(f) : \E a \in ArcsOf(f, u) :
          b.ilabel = a.ilabel /\ b.olabel = a.olabel /\ b.weight = a.weight
  BY EmbeddedArc DEF SameArc
<1> QED
  BY <1>1 DEF IsAcceptor, HasNoEpsilons, HasNoIEpsilons, HasNoOEpsilons, HasTrivialArcs

\* The order of the arcs of a state is kept.
LEMMA EmbeddedLists ==
  ASSUME NEW f, NEW g, IsVectorFst(f), IsVectorFst(g), NEW D, NEW h, Embeds(f, g, D, h)
  PROVE  /\ IsIDeterministic(f) => IsIDeterministic(g)
         /\ IsODeterministic(f) => IsODeterministic(g)
         /\ IsILabelSorted(f) => IsILabelSorted(g)
         /\ IsOLabelSorted(f) => IsOLabelSorted(g)
<1>1. ASSUME NEW s \in States(g), NEW i \in DOMAIN g.states[s].arcs,
             NEW j \in DOMAIN g.states[s].arcs
      PROVE  \E u \in States(f) : \E m, n \in DOMAIN f.states[u].arcs :
               /\ ILabel(f.states[u].arcs[m]) = ILabel(g.states[s].arcs[i])
               /\ ILabel(f.states[u].arcs[n]) = ILabel(g.states[s].arcs[j])
               /\ OLabel(f.states[u].arcs[m]) = OLabel(g.states[s].arcs[i])
               /\ OLabel(f.states[u].arcs[n]) = OLabel(g.states[s].arcs[j])
               /\ i < j => m < n
               /\ j < i => n < m
               /\ i = j => m = n
  <2> DEFINE q == g.states[s].arcs
  <2>1. q[i] \in ArcsOf(g, s)
    BY ArcFacts
  <2>2. s \in D /\ h[s] \in States(f)
    BY <2>1, EmbeddedArc
  <2> DEFINE p == f.states[h[s]].arcs
  <2>3. SomeArcs(p, q, D, h)
    BY <2>2 DEF Embeds
  <2> HIDE DEF p, q
  <2>4. PICK k \in [DOMAIN q -> DOMAIN p] :
          /\ \A x, y \in DOMAIN q : x < y => k[x] < k[y]
          /\ \A x \in DOMAIN q : SameArc(p[k[x]], q[x], D, h)
    BY <2>3 DEF SomeArcs
  <2>5. i \in DOMAIN q /\ j \in DOMAIN q
    BY DEF q
  <2>6. k[i] \in DOMAIN p /\ k[j] \in DOMAIN p
    BY <2>4, <2>5
  <2>7. /\ ILabel(p[k[i]]) = ILabel(q[i]) /\ OLabel(p[k[i]]) = OLabel(q[i])
        /\ ILabel(p[k[j]]) = ILabel(q[j]) /\ OLabel(p[k[j]]) = OLabel(q[j])
    BY <2>4, <2>5 DEF SameArc, ILabel, OLabel
  <2>8. (i < j => k[i] < k[j]) /\ (j < i => k[j] < k[i]) /\ (i = j => k[i] = k[j])
    BY <2>4, <2>5
  <2> QED
    BY <2>2, <2>6, <2>7, <2>8, Zenon DEF p, q
<1>2. ASSUME NEW s \in States(g), NEW i \in DOMAIN g.states[s].arcs,
             NEW j \in DOMAIN g.states[s].arcs
      PROVE  i \in Int /\ j \in Int
  BY ArcFacts
<1>3. ASSUME NEW u \in States(f), NEW m \in DOMAIN f.states[u].arcs PROVE m \in Int
  BY ArcFacts
<1>4. IsIDeterministic(f) => IsIDeterministic(g)
  <2> SUFFICES ASSUME IsIDeterministic(f), NEW s \in States(g),
                      NEW i \in DOMAIN g.states[s].arcs,
                      NEW j \in DOMAIN g.states[s].arcs,
                      ILabel(g.states[s].arcs[i]) = ILabel(g.states[s].arcs[j])
               PROVE  i = j
    BY DEF IsIDeterministic, UniqueLabels
  <2>1. PICK u \in States(f) : \E m, n \in DOMAIN f.states[u].arcs :
               /\ ILabel(f.states[u].arcs[m]) = ILabel(g.states[s].arcs[i])
               /\ ILabel(f.states[u].arcs[n]) = ILabel(g.states[s].arcs[j])
               /\ i < j => m < n
               /\ j < i => n < m
    BY <1>1, Zenon
  <2>2. PICK m \in DOMAIN f.states[u].arcs : (i < j => m < m) /\ (j < i => m < m)
    BY <2>1 DEF IsIDeterministic, UniqueLabels
  <2>3. m \in Int /\ i \in Int /\ j \in Int
    BY <1>2, <1>3
  <2> QED
    BY <2>2, <2>3
<1>5. IsODeterministic(f) => IsODeterministic(g)
  <2> SUFFICES ASSUME IsODeterministic(f), NEW s \in States(g),
                      NEW i \in DOMAIN g.states[s].arcs,
                      NEW j \in DOMAIN g.states[s].arcs,
                      OLabel(g.states[s].arcs[i]) = OLabel(g.states[s].arcs[j])
               PROVE  i = j
    BY DEF IsODeterministic, UniqueLabels
  <2>1. PICK u \in States(f) : \E m, n \in DOMAIN f.states[u].arcs :
               /\ OLabel(f.states[u].arcs[m]) = OLabel(g.states[s].arcs[i])
               /\ OLabel(f.states[u].arcs[n]) = OLabel(g.states[s].arcs[j])
               /\ i < j => m < n
               /\ j < i => n < m
    BY <1>1, Zenon
  <2>2. PICK m \in DOMAIN f.states[u].arcs : (i < j => m < m) /\ (j < i => m < m)
    BY <2>1 DEF IsODeterministic, UniqueLabels
  <2>3. m \in Int /\ i \in Int /\ j \in Int
    BY <1>2, <1>3
  <2> QED
    BY <2>2, <2>3
<1>6. IsILabelSorted(f) => IsILabelSorted(g)
  <2> SUFFICES ASSUME IsILabelSorted(f), NEW s \in States(g),
                      NEW i \in DOMAIN g.states[s].arcs,
                      NEW j \in DOMAIN g.states[s].arcs, i < j
               PROVE  ILabel(g.states[s].arcs[i]) <= ILabel(g.states[s].arcs[j])
    BY DEF IsILabelSorted, SortedLabels
  <2>1. PICK u \in States(f) : \E m, n \in DOMAIN f.states[u].arcs :
               /\ ILabel(f.states[u].arcs[m]) = ILabel(g.states[s].arcs[i])
               /\ ILabel(f.states[u].arcs[n]) = ILabel(g.states[s].arcs[j])
               /\ m < n
    BY <1>1, Zenon
  <2> QED
    BY <2>1 DEF IsILabelSorted, SortedLabels
<1>7. IsOLabelSorted(f) => IsOLabelSorted(g)
  <2> SUFFICES ASSUME IsOLabelSorted(f), NEW s \in States(g),
                      NEW i \in DOMAIN g.states[s].arcs,
                      NEW j \in DOMAIN g.states[s].arcs, i < j
               PROVE  OLabel(g.states[s].arcs[i]) <= OLabel(g.states[s].arcs[j])
    BY DEF IsOLabelSorted, SortedLabels
  <2>1. PICK u \in States(f) : \E m, n \in DOMAIN f.states[u].arcs :
               /\ OLabel(f.states[u].arcs[m]) = OLabel(g.states[s].arcs[i])
               /\ OLabel(f.states[u].arcs[n]) = OLabel(g.states[s].arcs[j])
               /\ m < n
    BY <1>1, Zenon
  <2> QED
    BY <2>1 DEF IsOLabelSorted, SortedLabels
<1> QED
  BY <1>4, <1>5, <1>6, <1>7

\* The paths of g are paths of f.
LEMMA EmbeddedPaths ==
  ASSUME NEW f, NEW g, IsVectorFst(f), IsVectorFst(g), NEW D, NEW h, Embeds(f, g, D, h)
  PROVE  \A s \in D : \A t : Reaches(g, s, t) => t \in D /\ Reaches(f, h[s], h[t])
<1> SUFFICES ASSUME NEW s \in D
             PROVE  \A t : Reaches(g, s, t) => t \in D /\ Reaches(f, h[s], h[t])
  OBVIOUS
<1>0. IsGraph(f) /\ IsGraph(g)
  BY MachineIsGraph
<1> DEFINE S == {t \in D : Reaches(f, h[s], h[t])}
<1>1. s \in States(g) /\ h[s] \in States(f)
  BY DEF Embeds
<1>2. s \in S
  BY <1>0, <1>1, ReachSteps
<1>3. ASSUME NEW u \in S, NEW t, Edge(g, u, t) PROVE t \in S
  <2>1. PICK b \in ArcsOf(g, u) : b.nextstate = t
    BY <1>3 DEF Edge
  <2>2. u \in States(g)
    BY <1>3 DEF Embeds
  <2>3. t \in D /\ \E a \in ArcsOf(f, h[u]) : a.nextstate = h[t]
    BY <2>1, <2>2, EmbeddedArc DEF SameArc
  <2>4. Edge(f, h[u], h[t])
    BY <2>3 DEF Edge
  <2> QED
    BY <2>3, <2>4, <1>0, <1>1, ReachSteps
<1>4. Closed(g, S)
  BY <1>3 DEF Closed
<1> HIDE DEF S
<1>5. ReachedFrom(g, s) \subseteq S
  BY <1>0, <1>1, <1>2, <1>4, ReachedContained
<1> QED
  BY <1>5 DEF Reaches, S

\* Neither cycles nor arcs backwards appear.
LEMMA EmbeddedCycles ==
  ASSUME NEW f, NEW g, IsVectorFst(f), IsVectorFst(g), NEW D, NEW h, Embeds(f, g, D, h)
  PROVE  /\ \A s \in States(g) : OnCycle(g, s) => s \in D /\ OnCycle(f, h[s])
         /\ IsAcyclic(f) => IsAcyclic(g)
         /\ HasTrivialCycles(f) => HasTrivialCycles(g)
         /\ IsTopSorted(f) => IsTopSorted(g)
<1>1. ASSUME NEW s \in States(g), NEW b \in ArcsOf(g, s)
      PROVE  /\ s \in D /\ h[s] \in States(f)
             /\ \E a \in ArcsOf(f, h[s]) :
                  /\ b.weight = a.weight
                  /\ a.nextstate > h[s] => b.nextstate > s
                  /\ Reaches(g, b.nextstate, s) => Reaches(f, a.nextstate, h[s])
  <2>1. /\ s \in D /\ h[s] \in States(f) /\ b.nextstate \in D
        /\ \E a \in ArcsOf(f, h[s]) : SameArc(a, b, D, h)
    BY EmbeddedArc
  <2>2. PICK a \in ArcsOf(f, h[s]) : SameArc(a, b, D, h)
    BY <2>1
  <2>3. b.weight = a.weight /\ h[b.nextstate] = a.nextstate
    BY <2>2 DEF SameArc
  <2>4. Reaches(g, b.nextstate, s) => Reaches(f, a.nextstate, h[s])
    BY <2>1, <2>3, EmbeddedPaths
  <2>5. a.nextstate > h[s] => b.nextstate > s
    <3>1. b.nextstate \in Int /\ s \in Int /\ a.nextstate \in Int /\ h[s] \in Int
      BY <2>1, ArcFacts, MachineFacts
    <3>2. b.nextstate < s => a.nextstate < h[s]
      BY <2>1, <2>3 DEF Embeds
    <3>3. b.nextstate = s => a.nextstate = h[s]
      BY <2>3
    <3> QED
      BY <3>1, <3>2, <3>3
  <2> QED
    BY <2>1, <2>3, <2>4, <2>5
<1>2. \A s \in States(g) : OnCycle(g, s) => s \in D /\ h[s] \in States(f) /\ OnCycle(f, h[s])
  BY <1>1 DEF OnCycle
<1>3. IsAcyclic(f) => IsAcyclic(g)
  BY <1>2 DEF IsAcyclic
<1>4. HasTrivialCycles(f) => HasTrivialCycles(g)
  BY <1>1 DEF HasTrivialCycles
<1>5. IsTopSorted(f) => IsTopSorted(g)
  BY <1>1 DEF IsTopSorted
<1> QED
  BY <1>2, <1>3, <1>4, <1>5

\* The arcs of every state of g are the first ones of the same state of f.
Shortens(f, g) ==
  /\ \A s \in States(g) \ States(f) : g.states[s].arcs = <<>>
  /\ \A s \in States(g) \cap States(f) :
       /\ Len(g.states[s].arcs) <= Len(f.states[s].arcs)
       /\ \A i \in 1 .. Len(g.states[s].arcs) :
            /\ g.states[s].arcs[i] = f.states[s].arcs[i]
            /\ g.states[s].arcs[i].nextstate \in States(f)

LEMMA ShortensEmbeds ==
  ASSUME NEW f, NEW g, IsVectorFst(f), IsVectorFst(g), Shortens(f, g)
  PROVE  Embeds(f, g, States(g) \cap States(f), [s \in States(g) \cap States(f) |-> s])
<1> DEFINE D == States(g) \cap States(f)
           h == [s \in D |-> s]
<1>1. h \in [D -> States(f)] /\ \A s \in D : h[s] = s
  OBVIOUS
<1> HIDE DEF h
<1>2. ASSUME NEW s \in D
      PROVE  SomeArcs(f.states[h[s]].arcs, g.states[s].arcs, D, h)
  <2> DEFINE p == f.states[s].arcs
             q == g.states[s].arcs
             k == [i \in DOMAIN q |-> i]
  <2>1. /\ Len(p) \in Nat /\ DOMAIN p = 1 .. Len(p)
        /\ Len(q) \in Nat /\ DOMAIN q = 1 .. Len(q)
        /\ Len(q) <= Len(p)
    BY ArcFacts DEF Shortens
  <2>2. \A i \in DOMAIN q : q[i] = p[i] /\ q[i].nextstate \in D
    BY <2>1, ArcFacts DEF Shortens
  <2> HIDE DEF p, q
  <2>3. k \in [DOMAIN q -> DOMAIN p] /\ \A i, j \in DOMAIN q : i < j => k[i] < k[j]
    BY <2>1
  <2>4. \A i \in DOMAIN q : SameArc(p[k[i]], q[i], D, h)
    BY <2>2, <1>1 DEF SameArc
  <2> HIDE DEF k
  <2>5. SomeArcs(p, q, D, h)
    BY <2>3, <2>4 DEF SomeArcs
  <2> QED
    BY <2>5, <1>1 DEF p, q
<1>3. \A s \in States(g) \ D : g.states[s].arcs = <<>>
  BY DEF Shortens
<1>4. Embeds(f, g, D, h)
  BY <1>1, <1>2, <1>3 DEF Embeds
<1> QED
  BY <1>4 DEF h

LEMMA ShortenedFacts ==
  ASSUME NEW f, NEW g, IsVectorFst(f), IsVectorFst(g), Shortens(f, g)
  PROVE  /\ IsAcceptor(f) => IsAcceptor(g)
         /\ HasNoEpsilons(f) => HasNoEpsilons(g)
         /\ HasNoIEpsilons(f) => HasNoIEpsilons(g)
         /\ HasNoOEpsilons(f) => HasNoOEpsilons(g)
         /\ HasTrivialArcs(f) => HasTrivialArcs(g)
         /\ IsIDeterministic(f) => IsIDeterministic(g)
         /\ IsODeterministic(f) => IsODeterministic(g)
         /\ IsILabelSorted(f) => IsILabelSorted(g)
         /\ IsOLabelSorted(f) => IsOLabelSorted(g)
         /\ IsAcyclic(f) => IsAcyclic(g)
         /\ HasTrivialCycles(f) => HasTrivialCycles(g)
         /\ IsTopSorted(f) => IsTopSorted(g)
<1>1. PICK D, h : Embeds(f, g, D, h)
  BY ShortensEmbeds
<1> QED
  BY <1>1, EmbeddedLabels, EmbeddedLists, EmbeddedCycles

LEMMA ShortenedPaths ==
  ASSUME NEW f, NEW g, IsVectorFst(f), IsVectorFst(g), Shortens(f, g)
  PROVE  /\ \A s \in States(g) \cap States(f) : \A t :
              Reaches(g, s, t) => t \in States(f) /\ Reaches(f, s, t)
         /\ \A s \in States(g) \cap States(f) : OnCycle(g, s) => OnCycle(f, s)
<1> DEFINE D == States(g) \cap States(f)
           h == [s \in D |-> s]
<1>1. Embeds(f, g, D, h)
  BY ShortensEmbeds
<1>2. \A s \in D : h[s] = s
  OBVIOUS
<1> HIDE DEF h, D
<1>3. \A s \in D : \A t : Reaches(g, s, t) => t \in D /\ Reaches(f, h[s], h[t])
  BY <1>1, EmbeddedPaths
<1>4. \A s \in States(g) : OnCycle(g, s) => s \in D /\ OnCycle(f, h[s])
  BY <1>1, EmbeddedCycles
<1>5. \A s \in D : \A t : Reaches(g, s, t) => t \in States(f) /\ Reaches(f, s, t)
  BY <1>2, <1>3 DEF D
<1>6. \A s \in D : OnCycle(g, s) => OnCycle(f, s)
  BY <1>2, <1>4 DEF D
<1> QED
  BY <1>5, <1>6 DEF D

-----------------------------------------------------------------------------
(* The mutators that leave the arcs as they are.                           *)

\* The stored bits of f are true of f.
Sound(f) == f.props \cap kTrinaryProperties \subseteq Truth(f)

LEMMA SetStartMachine ==
  ASSUME NEW f, IsVectorFst(f), NEW s \in States(f)
  PROVE  LET g == SetStart(f, s)
         IN  /\ IsVectorFst(g) /\ States(g) = States(f)
             /\ g.start = s /\ g.states = f.states
             /\ g.props = StoreProperties(f.props, SetStartProperties(f.props))
<1> DEFINE g == SetStart(f, s)
           n == NumStates(f)
           P == StoreProperties(f.props, SetStartProperties(f.props))
<1>1. P \in SUBSET kFstProperties
  BY MachineFacts, TrinaryBits
     DEF StoreProperties, SetStartProperties, If
<1>2. g = [start |-> s, states |-> f.states, props |-> P]
  <2>1. g = [f EXCEPT !.start = s, !.props = P]
    BY DEF SetStart
  <2> HIDE DEF P, g
  <2>2. f = [start |-> f.start, states |-> f.states, props |-> f.props]
    BY MachineFacts
  <2> QED
    BY <2>1, <2>2
<1> HIDE DEF P
<1>3. /\ n \in Nat /\ s \in 0 .. n - 1 /\ States(f) = 0 .. n - 1
      /\ f.states \in [0 .. n - 1 -> StateType(n)]
  BY MachineFacts
<1>4. \A u \in 0 .. n - 1 : Counted(f.states[u])
  BY <1>3, StateFacts
<1> HIDE DEF g, n
<1>5. g.states = f.states
  BY <1>2
<1>6. IsVectorFst(g) /\ States(g) = 0 .. n - 1
  <2>1. g \in [start : (0 .. n - 1) \cup {kNoStateId},
               states : [0 .. n - 1 -> StateType(n)], props : SUBSET kFstProperties]
    BY <1>1, <1>2, <1>3
  <2>2. \A u \in 0 .. n - 1 : Counted(g.states[u])
    BY <1>4, <1>5
  <2> QED
    BY <1>3, <2>1, <2>2, MakeMachine
<1>7. g.start = s /\ g.props = P
  BY <1>2
<1> QED
  BY <1>3, <1>5, <1>6, <1>7 DEF g, P

\* Two machines with the same arcs.
LEMMA SameArcsFacts ==
  ASSUME NEW f, NEW g, IsVectorFst(f), IsVectorFst(g), States(g) = States(f),
         \A s \in States(f) : g.states[s].arcs = f.states[s].arcs
  PROVE  /\ IsAcceptor(g) <=> IsAcceptor(f)
         /\ HasNoEpsilons(g) <=> HasNoEpsilons(f)
         /\ HasNoIEpsilons(g) <=> HasNoIEpsilons(f)
         /\ HasNoOEpsilons(g) <=> HasNoOEpsilons(f)
         /\ HasTrivialArcs(g) <=> HasTrivialArcs(f)
         /\ IsIDeterministic(g) <=> IsIDeterministic(f)
         /\ IsODeterministic(g) <=> IsODeterministic(f)
         /\ IsILabelSorted(g) <=> IsILabelSorted(f)
         /\ IsOLabelSorted(g) <=> IsOLabelSorted(f)
         /\ IsAcyclic(g) <=> IsAcyclic(f)
         /\ HasTrivialCycles(g) <=> HasTrivialCycles(f)
         /\ IsTopSorted(g) <=> IsTopSorted(f)
         /\ \A s \in States(f) : \A t : Reaches(g, s, t) <=> Reaches(f, s, t)
         /\ \A s \in States(f) : OnCycle(g, s) <=> OnCycle(f, s)
<1>1. Shortens(f, g) /\ Shortens(g, f)
  BY ArcFacts, MachineFacts DEF Shortens
<1>2. /\ \A s \in States(f) : \A t : Reaches(g, s, t) => Reaches(f, s, t)
      /\ \A s \in States(f) : OnCycle(g, s) => OnCycle(f, s)
  BY <1>1, ShortenedPaths
<1>3. /\ \A s \in States(f) : \A t : Reaches(f, s, t) => Reaches(g, s, t)
      /\ \A s \in States(f) : OnCycle(f, s) => OnCycle(g, s)
  BY <1>1, ShortenedPaths
<1> QED
  BY <1>1, <1>2, <1>3, ShortenedFacts

LEMMA SetStartSound ==
  ASSUME NEW f, IsVectorFst(f), Sound(f), NEW s \in States(f)
  PROVE  Sound(SetStart(f, s))
<1> DEFINE g == SetStart(f, s)
<1>1. /\ IsVectorFst(g) /\ States(g) = States(f)
      /\ g.start = s /\ g.states = f.states
      /\ g.props = StoreProperties(f.props, SetStartProperties(f.props))
  BY SetStartMachine, Zenon
<1> HIDE DEF g
<1> SUFFICES ASSUME NEW b \in g.props, b \in kTrinaryProperties PROVE b \in Truth(g)
  BY DEF Sound, g
<1>2. \/ /\ b \in Truth(f)
         /\ b \notin { "InitialCyclic", "InitialAcyclic", "Accessible",
                       "NotAccessible", "String", "NotString" }
      \/ b = "InitialAcyclic" /\ "Acyclic" \in Truth(f)
  BY <1>1, TrinaryBits
     DEF StoreProperties, SetStartProperties, kSetStartProperties, If, Sound
<1>3. /\ IsAcceptor(g) <=> IsAcceptor(f)
      /\ HasNoEpsilons(g) <=> HasNoEpsilons(f)
      /\ HasNoIEpsilons(g) <=> HasNoIEpsilons(f)
      /\ HasNoOEpsilons(g) <=> HasNoOEpsilons(f)
      /\ HasTrivialArcs(g) <=> HasTrivialArcs(f)
      /\ IsIDeterministic(g) <=> IsIDeterministic(f)
      /\ IsODeterministic(g) <=> IsODeterministic(f)
      /\ IsILabelSorted(g) <=> IsILabelSorted(f)
      /\ IsOLabelSorted(g) <=> IsOLabelSorted(f)
      /\ IsAcyclic(g) <=> IsAcyclic(f)
      /\ HasTrivialCycles(g) <=> HasTrivialCycles(f)
      /\ IsTopSorted(g) <=> IsTopSorted(f)
  BY <1>1, SameArcsFacts
<1>4. \A u \in States(f) : \A t : Reaches(g, u, t) <=> Reaches(f, u, t)
  BY <1>1, SameArcsFacts
<1>5. HasTrivialFinals(g) <=> HasTrivialFinals(f)
  BY <1>1 DEF HasTrivialFinals
<1>6. IsCoAccessible(g) <=> IsCoAccessible(f)
  BY <1>1, <1>4 DEF IsCoAccessible, Coaccessible, IsFinal
<1>7. IsAcyclic(f) => ~ IsInitialCyclic(g)
  BY <1>1, <1>3 DEF IsAcyclic, IsInitialCyclic
<1> QED
  BY <1>2, <1>3, <1>5, <1>6, <1>7, TrinaryBits, LabelBits, ListBits, OrderBits, CycleBits

\* A machine of which one state is replaced by st.
Replaced(f, s, st, P) == [f EXCEPT !.states[s] = st, !.props = P]

LEMMA ReplacedState ==
  ASSUME NEW f, IsVectorFst(f), NEW s \in States(f), NEW st \in StateType(NumStates(f)),
         Counted(st), NEW P \in SUBSET kFstProperties, NEW g,
         g = Replaced(f, s, st, P)
  PROVE  /\ IsVectorFst(g) /\ States(g) = States(f) /\ NumStates(g) = NumStates(f)
         /\ g.start = f.start /\ g.props = P
         /\ g.states[s] = st
         /\ \A u \in States(f) : u # s => g.states[u] = f.states[u]
<1> DEFINE n == NumStates(f)
           Q == [f.states EXCEPT ![s] = st]
<1>1. /\ n \in Nat /\ s \in 0 .. n - 1 /\ States(f) = 0 .. n - 1
      /\ f.start \in (0 .. n - 1) \cup {kNoStateId}
      /\ f.states \in [0 .. n - 1 -> StateType(n)]
      /\ f = [start |-> f.start, states |-> f.states, props |-> f.props]
  BY MachineFacts
<1>2. \A u \in 0 .. n - 1 : Counted(f.states[u])
  BY <1>1, StateFacts
<1>3. g = [f EXCEPT !.states = Q, !.props = P]
  BY DEF Replaced
<1>4. /\ Q \in [0 .. n - 1 -> StateType(n)] /\ Q[s] = st
      /\ \A u \in 0 .. n - 1 : u # s => Q[u] = f.states[u]
  BY <1>1
<1> HIDE DEF Q, n
<1>5. g = [start |-> f.start, states |-> Q, props |-> P]
  BY <1>1, <1>3
<1>6. g \in [start : (0 .. n - 1) \cup {kNoStateId},
             states : [0 .. n - 1 -> StateType(n)], props : SUBSET kFstProperties]
  BY <1>1, <1>4, <1>5
<1>7. g.states = Q /\ g.start = f.start /\ g.props = P
  BY <1>5
<1>8. \A u \in 0 .. n - 1 : Counted(g.states[u])
  BY <1>2, <1>4, <1>7
<1>9. IsVectorFst(g) /\ NumStates(g) = n /\ States(g) = 0 .. n - 1
  BY <1>1, <1>6, <1>8, MakeMachine
<1> QED
  BY <1>1, <1>4, <1>7, <1>9 DEF n

LEMMA SetFinalMachine ==
  ASSUME NEW f, IsVectorFst(f), NEW s \in States(f), NEW w \in Weights
  PROVE  LET g == SetFinal(f, s, w)
         IN  /\ IsVectorFst(g) /\ States(g) = States(f)
             /\ g.start = f.start
             /\ g.props = StoreProperties(f.props,
                            SetFinalProperties(f.props, Nontrivial(f.states[s].final),
                                               Nontrivial(w)))
             /\ g.states[s].final = w
             /\ \A u \in States(f) : u # s => g.states[u].final = f.states[u].final
             /\ \A u \in States(f) : g.states[u].arcs = f.states[u].arcs
<1> DEFINE g == SetFinal(f, s, w)
           P == StoreProperties(f.props,
                  SetFinalProperties(f.props, Nontrivial(f.states[s].final), Nontrivial(w)))
           st == [f.states[s] EXCEPT !.final = w]
<1>1. P \in SUBSET kFstProperties
  BY MachineFacts, TrinaryBits DEF StoreProperties, SetFinalProperties, kSetFinalProperties, If
<1>2. g = Replaced(f, s, st, P)
  BY DEF SetFinal, Replaced
<1>3. f.states[s] \in StateType(NumStates(f)) /\ Counted(f.states[s])
  BY StateFacts
<1>4. /\ st \in StateType(NumStates(f))
      /\ st.final = w /\ st.arcs = f.states[s].arcs
      /\ st.niepsilons = f.states[s].niepsilons /\ st.noepsilons = f.states[s].noepsilons
  BY <1>3 DEF StateType
<1>5. Counted(st)
  BY <1>3, <1>4 DEF Counted
<1> HIDE DEF P, g, st
<1>6. /\ IsVectorFst(g) /\ States(g) = States(f)
      /\ g.start = f.start /\ g.props = P
      /\ g.states[s] = st
      /\ \A u \in States(f) : u # s => g.states[u] = f.states[u]
  BY <1>1, <1>2, <1>4, <1>5, ReplacedState
<1>7. \A u \in States(f) : g.states[u].arcs = f.states[u].arcs
  BY <1>4, <1>6
<1> QED
  BY <1>4, <1>6, <1>7 DEF g, P

LEMMA SetFinalSound ==
  ASSUME NEW f, IsVectorFst(f), Sound(f), NEW s \in States(f), NEW w \in Weights
  PROVE  Sound(SetFinal(f, s, w))
<1> DEFINE g == SetFinal(f, s, w)
<1>1. /\ IsVectorFst(g) /\ States(g) = States(f)
      /\ g.start = f.start
      /\ g.props = StoreProperties(f.props,
                     SetFinalProperties(f.props, Nontrivial(f.states[s].final),
                                        Nontrivial(w)))
      /\ g.states[s].final = w
      /\ \A u \in States(f) : u # s => g.states[u].final = f.states[u].final
      /\ \A u \in States(f) : g.states[u].arcs = f.states[u].arcs
  BY SetFinalMachine, Zenon
<1> HIDE DEF g
<1> SUFFICES ASSUME NEW b \in g.props, b \in kTrinaryProperties PROVE b \in Truth(g)
  BY DEF Sound, g
<1>2. \/ /\ b \in Truth(f)
         /\ b \notin { "Weighted", "Unweighted", "CoAccessible", "NotCoAccessible",
                       "String", "NotString" }
      \/ b = "Weighted" /\ Nontrivial(w)
      \/ b = "Weighted" /\ ~ Nontrivial(f.states[s].final) /\ b \in Truth(f)
      \/ b = "Unweighted" /\ ~ Nontrivial(w) /\ b \in Truth(f)
  BY <1>1, TrinaryBits
     DEF StoreProperties, SetFinalProperties, kSetFinalProperties, If, Sound
<1>3. /\ IsAcceptor(g) <=> IsAcceptor(f)
      /\ HasNoEpsilons(g) <=> HasNoEpsilons(f)
      /\ HasNoIEpsilons(g) <=> HasNoIEpsilons(f)
      /\ HasNoOEpsilons(g) <=> HasNoOEpsilons(f)
      /\ HasTrivialArcs(g) <=> HasTrivialArcs(f)
      /\ IsIDeterministic(g) <=> IsIDeterministic(f)
      /\ IsODeterministic(g) <=> IsODeterministic(f)
      /\ IsILabelSorted(g) <=> IsILabelSorted(f)
      /\ IsOLabelSorted(g) <=> IsOLabelSorted(f)
      /\ IsAcyclic(g) <=> IsAcyclic(f)
      /\ HasTrivialCycles(g) <=> HasTrivialCycles(f)
      /\ IsTopSorted(g) <=> IsTopSorted(f)
  BY <1>1, SameArcsFacts
<1>4. /\ \A u \in States(f) : \A t : Reaches(g, u, t) <=> Reaches(f, u, t)
      /\ \A u \in States(f) : OnCycle(g, u) <=> OnCycle(f, u)
  BY <1>1, SameArcsFacts
<1>5. f.start # kNoStateId => f.start \in States(f)
  BY MachineFacts
<1>6. IsInitialCyclic(g) <=> IsInitialCyclic(f)
  BY <1>1, <1>4, <1>5 DEF IsInitialCyclic
<1>7. IsAccessible(g) <=> IsAccessible(f)
  BY <1>1, <1>4, <1>5 DEF IsAccessible, Accessible
<1>8. Nontrivial(w) => ~ HasTrivialFinals(g)
  BY <1>1 DEF HasTrivialFinals
<1>9. /\ ~ Nontrivial(f.states[s].final) /\ ~ HasTrivialFinals(f) => ~ HasTrivialFinals(g)
      /\ ~ Nontrivial(w) /\ HasTrivialFinals(f) => HasTrivialFinals(g)
  BY <1>1 DEF HasTrivialFinals
<1> QED
  BY <1>2, <1>3, <1>6, <1>7, <1>8, <1>9, TrinaryBits, LabelBits, ListBits, OrderBits,
     CycleBits

\* Truth looks at the start state and the states only.
LEMMA SameMachineTruth ==
  ASSUME NEW f, NEW g, IsVectorFst(f), IsVectorFst(g),
         g.start = f.start, g.states = f.states,
         NEW b \in kTrinaryProperties, b \in Truth(f)
  PROVE  b \in Truth(g)
<1>0. States(g) = States(f) /\ NumStates(g) = NumStates(f)
  BY DEF States, NumStates
<1>1. /\ IsAcceptor(g) <=> IsAcceptor(f)
      /\ HasNoEpsilons(g) <=> HasNoEpsilons(f)
      /\ HasNoIEpsilons(g) <=> HasNoIEpsilons(f)
      /\ HasNoOEpsilons(g) <=> HasNoOEpsilons(f)
      /\ HasTrivialArcs(g) <=> HasTrivialArcs(f)
      /\ IsIDeterministic(g) <=> IsIDeterministic(f)
      /\ IsODeterministic(g) <=> IsODeterministic(f)
      /\ IsILabelSorted(g) <=> IsILabelSorted(f)
      /\ IsOLabelSorted(g) <=> IsOLabelSorted(f)
      /\ IsAcyclic(g) <=> IsAcyclic(f)
      /\ HasTrivialCycles(g) <=> HasTrivialCycles(f)
      /\ IsTopSorted(g) <=> IsTopSorted(f)
  BY <1>0, SameArcsFacts
<1>2. /\ \A u \in States(f) : \A t : Reaches(g, u, t) <=> Reaches(f, u, t)
      /\ \A u \in States(f) : OnCycle(g, u) <=> OnCycle(f, u)
  BY <1>0, SameArcsFacts
<1>3. f.start # kNoStateId => f.start \in States(f)
  BY MachineFacts
<1>4. IsInitialCyclic(g) <=> IsInitialCyclic(f)
  BY <1>2, <1>3 DEF IsInitialCyclic
<1>5. IsAccessible(g) <=> IsAccessible(f)
  BY <1>0, <1>2, <1>3 DEF IsAccessible, Accessible
<1>6. HasTrivialFinals(g) <=> HasTrivialFinals(f)
  BY <1>0 DEF HasTrivialFinals
<1>7. IsCoAccessible(g) <=> IsCoAccessible(f)
  BY <1>0, <1>2 DEF IsCoAccessible, Coaccessible, IsFinal
<1>8. IsString(g) <=> IsString(f)
  BY <1>0 DEF IsString, EachArc, EachState, IsFinal, ArcsOf
<1> QED
  BY <1>1, <1>4, <1>5, <1>6, <1>7, <1>8, TrinaryBits, LabelBits, ListBits, OrderBits,
     CycleBits

\* A machine of which only the bits are replaced.
LEMMA ReplacedProps ==
  ASSUME NEW f, IsVectorFst(f), NEW P \in SUBSET kFstProperties
  PROVE  LET g == [f EXCEPT !.props = P]
         IN  IsVectorFst(g) /\ g.start = f.start /\ g.states = f.states /\ g.props = P
<1> DEFINE n == NumStates(f)
           g == [f EXCEPT !.props = P]
<1>1. /\ n \in Nat /\ States(f) = 0 .. n - 1
      /\ f.start \in (0 .. n - 1) \cup {kNoStateId}
      /\ f.states \in [0 .. n - 1 -> StateType(n)]
      /\ f = [start |-> f.start, states |-> f.states, props |-> f.props]
  BY MachineFacts
<1>2. \A u \in 0 .. n - 1 : Counted(f.states[u])
  BY <1>1, StateFacts
<1> HIDE DEF n
<1>3. g = [start |-> f.start, states |-> f.states, props |-> P]
  BY <1>1
<1> HIDE DEF g
<1>4. g.start = f.start /\ g.states = f.states /\ g.props = P
  BY <1>3
<1>5. g \in [start : (0 .. n - 1) \cup {kNoStateId},
             states : [0 .. n - 1 -> StateType(n)], props : SUBSET kFstProperties]
  BY <1>1, <1>3
<1>6. IsVectorFst(g)
  BY <1>1, <1>2, <1>4, <1>5, MakeMachine
<1> QED
  BY <1>4, <1>6 DEF g

LEMMA CopyOfSound ==
  ASSUME NEW f, IsVectorFst(f), Sound(f)
  PROVE  IsVectorFst(CopyOf(f)) /\ Sound(CopyOf(f))
<1> DEFINE P == (f.props \cap kCopyProperties) \cup kStaticProperties
           g == CopyOf(f)
<1>1. P \in SUBSET kFstProperties
  BY TrinaryBits DEF kCopyProperties, kStaticProperties
<1>2. g = [f EXCEPT !.props = P]
  BY DEF CopyOf
<1> HIDE DEF P, g
<1>3. IsVectorFst(g) /\ g.start = f.start /\ g.states = f.states /\ g.props = P
  BY <1>1, <1>2, ReplacedProps
<1>4. \A b \in kTrinaryProperties : b \in g.props => b \in f.props
  BY <1>3, TrinaryBits DEF P, kStaticProperties
<1>5. Sound(g)
  BY <1>3, <1>4, SameMachineTruth DEF Sound
<1> QED
  BY <1>3, <1>5 DEF g

-----------------------------------------------------------------------------
(* Adding states.                                                          *)

\* A list of arcs that is left alone.
LEMMA SameList ==
  ASSUME NEW p, NEW q, NEW S, q = p, Len(p) \in Nat,
         \A i \in 1 .. Len(p) : p[i].nextstate \in S
  PROVE  /\ Len(q) <= Len(p) /\ Len(p) <= Len(q)
         /\ \A i \in 1 .. Len(q) : q[i] = p[i] /\ q[i].nextstate \in S
<1>1. \A n \in Nat : n <= n
  OBVIOUS
<1> QED
  BY <1>1, Zenon

LEMMA AddStatesMachine ==
  ASSUME NEW f, IsVectorFst(f), NEW n \in Nat
  PROVE  LET g == AddStates(f, n)
         IN  /\ IsVectorFst(g) /\ NumStates(g) = NumStates(f) + n
             /\ States(f) \subseteq States(g)
             /\ g.start = f.start
             /\ g.props = StoreProperties(f.props, AddStateProperties(f.props))
             /\ \A s \in States(f) : g.states[s] = f.states[s]
             /\ \A s \in States(g) \ States(f) : g.states[s] = VectorState
<1> DEFINE N == NumStates(f)
           m == N + n
           g == AddStates(f, n)
           P == StoreProperties(f.props, AddStateProperties(f.props))
           Q == [s \in 0 .. m - 1 |-> IF s \in States(f) THEN f.states[s] ELSE VectorState]
<1>1. /\ N \in Nat /\ m \in Nat /\ States(f) = 0 .. N - 1
      /\ f.start \in (0 .. N - 1) \cup {kNoStateId}
      /\ f.states \in [0 .. N - 1 -> StateType(N)]
      /\ f = [start |-> f.start, states |-> f.states, props |-> f.props]
  BY MachineFacts
<1>2. P \in SUBSET kFstProperties
  BY MachineFacts, TrinaryBits DEF StoreProperties, AddStateProperties, kAddStateProperties
<1>3. g = [f EXCEPT !.states = Q, !.props = P]
  <2>1. 0 .. m - 1 = 0 .. N + n - 1
    BY <1>1
  <2> QED
    BY <2>1, Zenon DEF AddStates
<1>4. \A s \in 0 .. N - 1 : f.states[s] \in StateType(m)
  <2>1. ArcType(N) \subseteq ArcType(m)
    BY <1>1 DEF ArcType
  <2>2. Seq(ArcType(N)) \subseteq Seq(ArcType(m))
    BY <2>1
  <2>3. StateType(N) \subseteq StateType(m)
    BY <2>2 DEF StateType
  <2> QED
    BY <1>1, <2>3
<1>5. VectorState \in StateType(m) /\ Counted(VectorState)
  <2>1. VectorState \in StateType(m)
    BY DEF VectorState, StateType, Weights
  <2>2. VectorState.arcs = <<>> /\ VectorState.niepsilons = 0 /\ VectorState.noepsilons = 0
    BY DEF VectorState
  <2>3. IEpsilonsAt(<<>>, DOMAIN <<>>) = {} /\ OEpsilonsAt(<<>>, DOMAIN <<>>) = {}
    BY DEF IEpsilonsAt, OEpsilonsAt
  <2> QED
    BY <2>1, <2>2, <2>3, FS_EmptySet DEF Counted
<1>6. \A s \in 0 .. N - 1 : Counted(f.states[s])
  BY <1>1, StateFacts
<1>7. /\ Q \in [0 .. m - 1 -> StateType(m)]
      /\ \A s \in States(f) : Q[s] = f.states[s]
      /\ \A s \in (0 .. m - 1) \ States(f) : Q[s] = VectorState
  BY <1>1, <1>4, <1>5
<1>8. \A s \in 0 .. m - 1 : Counted(Q[s])
  BY <1>1, <1>5, <1>6, <1>7
<1>9. (0 .. N - 1) \subseteq 0 .. m - 1
  BY <1>1
<1> HIDE DEF N, m, g, P, Q
<1>10. g = [start |-> f.start, states |-> Q, props |-> P]
  BY <1>1, <1>3
<1>11. g.start = f.start /\ g.states = Q /\ g.props = P
  BY <1>10
<1>12. g \in [start : (0 .. m - 1) \cup {kNoStateId},
              states : [0 .. m - 1 -> StateType(m)], props : SUBSET kFstProperties]
  BY <1>1, <1>2, <1>7, <1>9, <1>10
<1>13. IsVectorFst(g) /\ NumStates(g) = m /\ States(g) = 0 .. m - 1
  BY <1>1, <1>8, <1>11, <1>12, MakeMachine
<1> QED
  BY <1>1, <1>7, <1>9, <1>11, <1>13 DEF g, P, m, N

LEMMA AddStatesSound ==
  ASSUME NEW f, IsVectorFst(f), Sound(f), NEW n \in Nat
  PROVE  Sound(AddStates(f, n))
<1> DEFINE g == AddStates(f, n)
<1>1. /\ IsVectorFst(g) /\ NumStates(g) = NumStates(f) + n
      /\ States(f) \subseteq States(g)
      /\ g.start = f.start
      /\ g.props = StoreProperties(f.props, AddStateProperties(f.props))
      /\ \A s \in States(f) : g.states[s] = f.states[s]
      /\ \A s \in States(g) \ States(f) : g.states[s] = VectorState
  BY AddStatesMachine, Zenon
<1> HIDE DEF g
<1> SUFFICES ASSUME NEW b \in g.props, b \in kTrinaryProperties PROVE b \in Truth(g)
  BY DEF Sound, g
<1>2. b \in Truth(f) /\ b \notin {"Accessible", "CoAccessible", "String"}
  BY <1>1, TrinaryBits DEF StoreProperties, AddStateProperties, kAddStateProperties, Sound
<1>3. VectorState.arcs = <<>> /\ VectorState.final = "Zero" /\ ~ Nontrivial("Zero")
  BY DEF VectorState, Nontrivial
<1>4. Shortens(f, g) /\ Shortens(g, f)
  <2>1. \A s \in States(f) : /\ Len(f.states[s].arcs) \in Nat
                             /\ \A i \in 1 .. Len(f.states[s].arcs) :
                                  f.states[s].arcs[i].nextstate \in States(f)
    BY ArcFacts
  <2>2. \A s \in States(g) \ States(f) : g.states[s].arcs = <<>>
    BY <1>1, <1>3
  <2>3. \A s \in States(f) : s \in States(g) /\ g.states[s].arcs = f.states[s].arcs
    BY <1>1
  <2>4. ASSUME NEW s \in States(f)
        PROVE  /\ Len(g.states[s].arcs) <= Len(f.states[s].arcs)
               /\ Len(f.states[s].arcs) <= Len(g.states[s].arcs)
               /\ \A i \in 1 .. Len(g.states[s].arcs) :
                    /\ g.states[s].arcs[i] = f.states[s].arcs[i]
                    /\ g.states[s].arcs[i].nextstate \in States(f)
    <3> DEFINE p == f.states[s].arcs
               q == g.states[s].arcs
    <3>1. /\ q = p /\ Len(p) \in Nat
          /\ \A i \in 1 .. Len(p) : p[i].nextstate \in States(f)
      BY <2>1, <2>3
    <3> HIDE DEF p, q
    <3>2. /\ Len(q) <= Len(p) /\ Len(p) <= Len(q)
          /\ \A i \in 1 .. Len(q) : q[i] = p[i] /\ q[i].nextstate \in States(f)
      BY <3>1, SameList
    <3> QED
      BY <3>2 DEF p, q
  <2> QED
    BY <1>1, <2>2, <2>3, <2>4 DEF Shortens
<1>5. /\ IsAcceptor(g) <=> IsAcceptor(f)
      /\ HasNoEpsilons(g) <=> HasNoEpsilons(f)
      /\ HasNoIEpsilons(g) <=> HasNoIEpsilons(f)
      /\ HasNoOEpsilons(g) <=> HasNoOEpsilons(f)
      /\ HasTrivialArcs(g) <=> HasTrivialArcs(f)
      /\ IsIDeterministic(g) <=> IsIDeterministic(f)
      /\ IsODeterministic(g) <=> IsODeterministic(f)
      /\ IsILabelSorted(g) <=> IsILabelSorted(f)
      /\ IsOLabelSorted(g) <=> IsOLabelSorted(f)
      /\ IsAcyclic(g) <=> IsAcyclic(f)
      /\ HasTrivialCycles(g) <=> HasTrivialCycles(f)
      /\ IsTopSorted(g) <=> IsTopSorted(f)
  BY <1>1, <1>4, ShortenedFacts
<1>6. /\ \A s \in States(f) : \A t : Reaches(g, s, t) => t \in States(f) /\ Reaches(f, s, t)
      /\ \A s \in States(f) : OnCycle(g, s) => OnCycle(f, s)
      /\ \A s \in States(f) : OnCycle(f, s) => OnCycle(g, s)
  BY <1>1, <1>4, ShortenedPaths
<1>7. f.start # kNoStateId => f.start \in States(f)
  BY MachineFacts
<1>8. IsInitialCyclic(g) <=> IsInitialCyclic(f)
  BY <1>1, <1>6, <1>7 DEF IsInitialCyclic
<1>9. IsAccessible(g) => IsAccessible(f)
  BY <1>1, <1>6, <1>7 DEF IsAccessible, Accessible
<1>10. IsCoAccessible(g) => IsCoAccessible(f)
  BY <1>1, <1>6 DEF IsCoAccessible, Coaccessible, IsFinal
<1>11. HasTrivialFinals(g) <=> HasTrivialFinals(f)
  BY <1>1, <1>3 DEF HasTrivialFinals
<1>12. IsString(g) => IsString(f)
  <2> SUFFICES ASSUME IsString(g) PROVE IsString(f)
    OBVIOUS
  <2>1. CASE n = 0
    <3>1. NumStates(g) = NumStates(f) /\ States(g) = States(f)
      BY <1>1, <2>1, MachineFacts
    <3> QED
      BY <3>1, <1>1 DEF IsString, EachArc, EachState, IsFinal, ArcsOf
  <2>2. CASE n # 0
    <3> DEFINE s == NumStates(f)
    <3>1. s \in States(g) /\ s \notin States(f)
      BY <1>1, <2>2, MachineFacts
    <3> HIDE DEF s
    <3>2. g.states[s].arcs = <<>> /\ g.states[s].final = "Zero"
      BY <1>1, <1>3, <3>1
    <3>3. Len(g.states[s].arcs) = 1
      BY <3>1, <3>2 DEF IsString, EachState, IsFinal
    <3> QED
      BY <3>2, <3>3
  <2> QED
    BY <2>1, <2>2
<1> QED
  BY <1>2, <1>5, <1>8, <1>9, <1>10, <1>11, <1>12, TrinaryBits, LabelBits, ListBits,
     OrderBits, CycleBits

-----------------------------------------------------------------------------
(* Deleting arcs.                                                          *)

\* Epsilons are counted part by part.
LEMMA EpsilonsSplit ==
  ASSUME NEW q, NEW I, NEW J, IsFiniteSet(I), IsFiniteSet(J), I \cap J = {}
  PROVE  /\ Cardinality(IEpsilonsAt(q, I)) \in Nat
         /\ Cardinality(IEpsilonsAt(q, J)) \in Nat
         /\ Cardinality(OEpsilonsAt(q, I)) \in Nat
         /\ Cardinality(OEpsilonsAt(q, J)) \in Nat
         /\ Cardinality(IEpsilonsAt(q, I \cup J)) =
              Cardinality(IEpsilonsAt(q, I)) + Cardinality(IEpsilonsAt(q, J))
         /\ Cardinality(OEpsilonsAt(q, I \cup J)) =
              Cardinality(OEpsilonsAt(q, I)) + Cardinality(OEpsilonsAt(q, J))
<1>1. ASSUME NEW A \in SUBSET I, NEW B \in SUBSET J
      PROVE  /\ Cardinality(A) \in Nat /\ Cardinality(B) \in Nat
             /\ Cardinality(A \cup B) = Cardinality(A) + Cardinality(B)
  <2>1. IsFiniteSet(A) /\ IsFiniteSet(B)
    BY FS_Subset
  <2>2. Cardinality(A) \in Nat /\ Cardinality(B) \in Nat
    BY <2>1, FS_CardinalityType
  <2>3. A \cap B = {}
    OBVIOUS
  <2>4. Cardinality(A \cup B) = Cardinality(A) + Cardinality(B) - Cardinality({})
    BY <2>1, <2>3, FS_Union
  <2> QED
    BY <2>2, <2>4, FS_EmptySet
<1>2. IEpsilonsAt(q, I \cup J) = IEpsilonsAt(q, I) \cup IEpsilonsAt(q, J)
  BY DEF IEpsilonsAt
<1>3. OEpsilonsAt(q, I \cup J) = OEpsilonsAt(q, I) \cup OEpsilonsAt(q, J)
  BY DEF OEpsilonsAt
<1>4. /\ IEpsilonsAt(q, I) \in SUBSET I /\ IEpsilonsAt(q, J) \in SUBSET J
      /\ OEpsilonsAt(q, I) \in SUBSET I /\ OEpsilonsAt(q, J) \in SUBSET J
  BY DEF IEpsilonsAt, OEpsilonsAt
<1> QED
  BY <1>1, <1>2, <1>3, <1>4

\* Only the labels at the positions I matter.
LEMMA EpsilonsAgree ==
  ASSUME NEW p, NEW q, NEW I,
         \A i \in I : p[i].ilabel = q[i].ilabel /\ p[i].olabel = q[i].olabel
  PROVE  IEpsilonsAt(p, I) = IEpsilonsAt(q, I) /\ OEpsilonsAt(p, I) = OEpsilonsAt(q, I)
BY DEF IEpsilonsAt, OEpsilonsAt

LEMMA StateDeleteArcsFacts ==
  ASSUME NEW N \in Nat, NEW st \in StateType(N), Counted(st), NEW n \in Nat
  PROVE  LET r == StateDeleteArcs(st, n)
         IN  /\ r \in StateType(N) /\ Counted(r) /\ r.final = st.final
             /\ Len(r.arcs) <= Len(st.arcs)
             /\ \A i \in 1 .. Len(r.arcs) : r.arcs[i] = st.arcs[i]
<1> DEFINE q == st.arcs
           rest == Len(q) - n
           gone == rest + 1 .. Len(q)
           r == StateDeleteArcs(st, n)
<1>1. /\ st.final \in Weights /\ q \in Seq(ArcType(N))
      /\ st.niepsilons \in Int /\ st.noepsilons \in Int
      /\ st = [final |-> st.final, arcs |-> q,
               niepsilons |-> st.niepsilons, noepsilons |-> st.noepsilons]
  BY DEF StateType
<1>2. /\ st.niepsilons = Cardinality(IEpsilonsAt(q, DOMAIN q))
      /\ st.noepsilons = Cardinality(OEpsilonsAt(q, DOMAIN q))
  BY DEF Counted
<1> HIDE DEF q
<1>3. Len(q) \in Nat /\ DOMAIN q = 1 .. Len(q) /\ rest \in Int
  BY <1>1
<1>4. CASE rest <= 0
  <2>1. r = [st EXCEPT !.arcs = <<>>, !.niepsilons = 0, !.noepsilons = 0]
    BY <1>4 DEF StateDeleteArcs, q
  <2> HIDE DEF r
  <2>2. r = [final |-> st.final, arcs |-> <<>>, niepsilons |-> 0, noepsilons |-> 0]
    BY <2>1, <1>1
  <2>3. /\ r.final = st.final /\ r.arcs = <<>> /\ r.niepsilons = 0 /\ r.noepsilons = 0
    BY <2>2
  <2>4. r \in StateType(N)
    BY <2>2, <1>1 DEF StateType
  <2>5. IEpsilonsAt(<<>>, DOMAIN <<>>) = {} /\ OEpsilonsAt(<<>>, DOMAIN <<>>) = {}
    BY DEF IEpsilonsAt, OEpsilonsAt
  <2>6. Counted(r)
    BY <2>3, <2>5, FS_EmptySet DEF Counted
  <2>7. Len(r.arcs) <= Len(q) /\ \A i \in 1 .. Len(r.arcs) : r.arcs[i] = q[i]
    BY <2>3, <1>3
  <2> QED
    BY <2>3, <2>4, <2>6, <2>7 DEF r, q
<1>5. CASE ~ (rest <= 0)
  <2> DEFINE p == SubSeq(q, 1, rest)
             ni == st.niepsilons - Cardinality(IEpsilonsAt(q, gone))
             no == st.noepsilons - Cardinality(OEpsilonsAt(q, gone))
  <2>1. r = [st EXCEPT !.arcs = p, !.niepsilons = ni, !.noepsilons = no]
    BY <1>5, Zenon DEF StateDeleteArcs, q
  <2>2. /\ rest \in 1 .. Len(q)
        /\ 1 .. Len(q) = (1 .. rest) \cup gone /\ (1 .. rest) \cap gone = {}
    BY <1>3, <1>5
  <2>3. /\ p \in Seq(ArcType(N)) /\ Len(p) = rest /\ DOMAIN p = 1 .. rest
        /\ \A i \in 1 .. rest : p[i] = q[i]
    BY <1>1, <1>3, <2>2
  <2>4. IsFiniteSet(1 .. rest) /\ IsFiniteSet(gone)
    <3>1. rest \in Int /\ rest + 1 \in Int /\ Len(q) \in Int
      BY <1>3
    <3> HIDE DEF rest
    <3> QED
      BY <3>1, FS_Interval
  <2> HIDE DEF p, rest, gone
  <2>5. /\ Cardinality(IEpsilonsAt(q, 1 .. rest)) \in Nat
        /\ Cardinality(OEpsilonsAt(q, 1 .. rest)) \in Nat
        /\ ni = Cardinality(IEpsilonsAt(q, 1 .. rest))
        /\ no = Cardinality(OEpsilonsAt(q, 1 .. rest))
    <3>1. /\ Cardinality(IEpsilonsAt(q, 1 .. rest)) \in Nat
          /\ Cardinality(IEpsilonsAt(q, gone)) \in Nat
          /\ Cardinality(OEpsilonsAt(q, 1 .. rest)) \in Nat
          /\ Cardinality(OEpsilonsAt(q, gone)) \in Nat
          /\ Cardinality(IEpsilonsAt(q, DOMAIN q)) =
               Cardinality(IEpsilonsAt(q, 1 .. rest)) + Cardinality(IEpsilonsAt(q, gone))
          /\ Cardinality(OEpsilonsAt(q, DOMAIN q)) =
               Cardinality(OEpsilonsAt(q, 1 .. rest)) + Cardinality(OEpsilonsAt(q, gone))
      <4>1. DOMAIN q = (1 .. rest) \cup gone
        BY <1>3, <2>2
      <4>2. (1 .. rest) \cap gone = {}
        BY <2>2
      <4> DEFINE A == 1 .. rest
      <4>3. IsFiniteSet(A) /\ IsFiniteSet(gone) /\ A \cap gone = {}
        BY <4>2, <2>4
      <4> HIDE DEF A
      <4>4. /\ Cardinality(IEpsilonsAt(q, A)) \in Nat
            /\ Cardinality(IEpsilonsAt(q, gone)) \in Nat
            /\ Cardinality(OEpsilonsAt(q, A)) \in Nat
            /\ Cardinality(OEpsilonsAt(q, gone)) \in Nat
            /\ Cardinality(IEpsilonsAt(q, A \cup gone)) =
                 Cardinality(IEpsilonsAt(q, A)) + Cardinality(IEpsilonsAt(q, gone))
            /\ Cardinality(OEpsilonsAt(q, A \cup gone)) =
                 Cardinality(OEpsilonsAt(q, A)) + Cardinality(OEpsilonsAt(q, gone))
        BY <4>3, EpsilonsSplit
      <4> QED
        BY <4>1, <4>4 DEF A
    <3> QED
      BY <3>1, <1>2
  <2>6. /\ IEpsilonsAt(p, DOMAIN p) = IEpsilonsAt(q, 1 .. rest)
        /\ OEpsilonsAt(p, DOMAIN p) = OEpsilonsAt(q, 1 .. rest)
    BY <2>3, EpsilonsAgree
  <2> HIDE DEF ni, no, r
  <2>7. r = [final |-> st.final, arcs |-> p, niepsilons |-> ni, noepsilons |-> no]
    BY <2>1, <1>1
  <2>8. r.final = st.final /\ r.arcs = p /\ r.niepsilons = ni /\ r.noepsilons = no
    BY <2>7
  <2>9. r \in StateType(N)
    BY <2>3, <2>5, <2>7, <1>1 DEF StateType
  <2>10. Counted(r)
    BY <2>5, <2>6, <2>8 DEF Counted
  <2>11. Len(r.arcs) <= Len(q) /\ \A i \in 1 .. Len(r.arcs) : r.arcs[i] = q[i]
    BY <2>2, <2>3, <2>8, <1>3
  <2> QED
    BY <2>8, <2>9, <2>10, <2>11 DEF r, q
<1> QED
  BY <1>4, <1>5

LEMMA DeleteArcsMachine ==
  ASSUME NEW f, IsVectorFst(f), NEW s \in States(f), NEW n \in Nat
  PROVE  LET g == DeleteArcs(f, s, n)
         IN  /\ IsVectorFst(g) /\ States(g) = States(f)
             /\ g.start = f.start
             /\ g.props = StoreProperties(f.props, DeleteArcsProperties(f.props))
             /\ \A u \in States(f) : g.states[u].final = f.states[u].final
             /\ Shortens(f, g)
<1> DEFINE g == DeleteArcs(f, s, n)
           P == StoreProperties(f.props, DeleteArcsProperties(f.props))
           st == StateDeleteArcs(f.states[s], n)
<1>1. P \in SUBSET kFstProperties
  BY MachineFacts, TrinaryBits DEF StoreProperties, DeleteArcsProperties
<1>2. g = Replaced(f, s, st, P)
  BY DEF DeleteArcs, Replaced
<1>3. /\ st \in StateType(NumStates(f)) /\ Counted(st) /\ st.final = f.states[s].final
      /\ Len(st.arcs) <= Len(f.states[s].arcs)
      /\ \A i \in 1 .. Len(st.arcs) : st.arcs[i] = f.states[s].arcs[i]
  <2>1. /\ NumStates(f) \in Nat /\ f.states[s] \in StateType(NumStates(f))
        /\ Counted(f.states[s])
    BY StateFacts, MachineFacts
  <2> QED
    BY <2>1, StateDeleteArcsFacts, Zenon
<1> HIDE DEF P, g, st
<1>4. /\ IsVectorFst(g) /\ States(g) = States(f)
      /\ g.start = f.start /\ g.props = P
      /\ g.states[s] = st
      /\ \A u \in States(f) : u # s => g.states[u] = f.states[u]
  BY <1>1, <1>2, <1>3, ReplacedState
<1>5. \A u \in States(f) : g.states[u].final = f.states[u].final
  BY <1>3, <1>4
<1>6. ASSUME NEW u \in States(f)
      PROVE  /\ Len(g.states[u].arcs) <= Len(f.states[u].arcs)
             /\ \A i \in 1 .. Len(g.states[u].arcs) :
                  /\ g.states[u].arcs[i] = f.states[u].arcs[i]
                  /\ g.states[u].arcs[i].nextstate \in States(f)
  <2>1. /\ Len(f.states[u].arcs) \in Nat
        /\ \A i \in 1 .. Len(f.states[u].arcs) : f.states[u].arcs[i].nextstate \in States(f)
    BY ArcFacts
  <2>2. CASE u # s
    <3> DEFINE p == f.states[u].arcs
               q == g.states[u].arcs
    <3>1. /\ q = p /\ Len(p) \in Nat
          /\ \A i \in 1 .. Len(p) : p[i].nextstate \in States(f)
      BY <1>4, <2>1, <2>2
    <3> HIDE DEF p, q
    <3>2. Len(q) <= Len(p) /\ \A i \in 1 .. Len(q) : q[i] = p[i] /\ q[i].nextstate \in States(f)
      BY <3>1, SameList
    <3> QED
      BY <3>2 DEF p, q
  <2>3. CASE u = s
    <3> DEFINE p == f.states[s].arcs
               q == st.arcs
    <3>1. Len(q) \in Nat
      BY <1>4, ArcFacts
    <3>2. /\ Len(q) <= Len(p) /\ \A i \in 1 .. Len(q) : q[i] = p[i]
          /\ Len(p) \in Nat /\ \A i \in 1 .. Len(p) : p[i].nextstate \in States(f)
      BY <1>3, <2>1, <2>3
    <3>3. g.states[u].arcs = q /\ f.states[u].arcs = p
      BY <1>4, <2>3
    <3> HIDE DEF p, q
    <3>4. \A i \in 1 .. Len(q) : i \in 1 .. Len(p)
      BY <3>1, <3>2
    <3> QED
      BY <3>2, <3>3, <3>4, Zenon
  <2> QED
    BY <2>2, <2>3
<1>7. Shortens(f, g)
  BY <1>4, <1>6 DEF Shortens
<1> QED
  BY <1>4, <1>5, <1>7 DEF g, P

LEMMA DeleteArcsSound ==
  ASSUME NEW f, IsVectorFst(f), Sound(f), NEW s \in States(f), NEW n \in Nat
  PROVE  Sound(DeleteArcs(f, s, n))
<1> DEFINE g == DeleteArcs(f, s, n)
<1>1. /\ IsVectorFst(g) /\ States(g) = States(f)
      /\ g.start = f.start
      /\ g.props = StoreProperties(f.props, DeleteArcsProperties(f.props))
      /\ \A u \in States(f) : g.states[u].final = f.states[u].final
      /\ Shortens(f, g)
  BY DeleteArcsMachine, Zenon
<1> HIDE DEF g
<1> SUFFICES ASSUME NEW b \in g.props, b \in kTrinaryProperties PROVE b \in Truth(g)
  BY DEF Sound, g
<1>2. /\ b \in Truth(f)
      /\ b \in { "Acceptor", "IDeterministic", "ODeterministic", "NoEpsilons",
                 "NoIEpsilons", "NoOEpsilons", "ILabelSorted", "OLabelSorted",
                 "Unweighted", "Acyclic", "InitialAcyclic", "TopSorted",
                 "UnweightedCycles", "NotAccessible", "NotCoAccessible" }
  BY <1>1, TrinaryBits
     DEF StoreProperties, DeleteArcsProperties, kDeleteArcsProperties,
         kDeleteStatesProperties, kSetArcProperties, kNullProperties, Sound
<1>3. /\ IsAcceptor(f) => IsAcceptor(g)
      /\ HasNoEpsilons(f) => HasNoEpsilons(g)
      /\ HasNoIEpsilons(f) => HasNoIEpsilons(g)
      /\ HasNoOEpsilons(f) => HasNoOEpsilons(g)
      /\ HasTrivialArcs(f) => HasTrivialArcs(g)
      /\ IsIDeterministic(f) => IsIDeterministic(g)
      /\ IsODeterministic(f) => IsODeterministic(g)
      /\ IsILabelSorted(f) => IsILabelSorted(g)
      /\ IsOLabelSorted(f) => IsOLabelSorted(g)
      /\ IsAcyclic(f) => IsAcyclic(g)
      /\ HasTrivialCycles(f) => HasTrivialCycles(g)
      /\ IsTopSorted(f) => IsTopSorted(g)
  BY <1>1, ShortenedFacts
<1>4. /\ \A u \in States(f) : \A t : Reaches(g, u, t) => Reaches(f, u, t)
      /\ \A u \in States(f) : OnCycle(g, u) => OnCycle(f, u)
  BY <1>1, ShortenedPaths
<1>5. f.start # kNoStateId => f.start \in States(f)
  BY MachineFacts
<1>6. IsInitialCyclic(g) => IsInitialCyclic(f)
  BY <1>1, <1>4, <1>5 DEF IsInitialCyclic
<1>7. IsAccessible(g) => IsAccessible(f)
  BY <1>1, <1>4, <1>5 DEF IsAccessible, Accessible
<1>8. IsCoAccessible(g) => IsCoAccessible(f)
  BY <1>1, <1>4 DEF IsCoAccessible, Coaccessible, IsFinal
<1>9. HasTrivialFinals(g) <=> HasTrivialFinals(f)
  BY <1>1 DEF HasTrivialFinals
<1> QED
  BY <1>2, <1>3, <1>6, <1>7, <1>8, <1>9, TrinaryBits, LabelBits, ListBits, OrderBits,
     CycleBits

-----------------------------------------------------------------------------
(* Adding an arc.                                                          *)

LEMMA StateAddArcFacts ==
  ASSUME NEW N \in Nat, NEW st \in StateType(N), Counted(st), NEW a \in ArcType(N)
  PROVE  LET r == StateAddArc(st, a)
         IN  /\ r \in StateType(N) /\ Counted(r) /\ r.final = st.final
             /\ Len(r.arcs) = Len(st.arcs) + 1
             /\ r.arcs[Len(st.arcs) + 1] = a
             /\ \A i \in 1 .. Len(st.arcs) : r.arcs[i] = st.arcs[i]
<1> DEFINE q == st.arcs
           p == Append(q, a)
           ni == st.niepsilons + One(a.ilabel = 0)
           no == st.noepsilons + One(a.olabel = 0)
           r == StateAddArc(st, a)
<1>1. /\ st.final \in Weights /\ q \in Seq(ArcType(N))
      /\ st.niepsilons \in Int /\ st.noepsilons \in Int
      /\ st = [final |-> st.final, arcs |-> q,
               niepsilons |-> st.niepsilons, noepsilons |-> st.noepsilons]
  BY DEF StateType
<1>2. /\ st.niepsilons = Cardinality(IEpsilonsAt(q, DOMAIN q))
      /\ st.noepsilons = Cardinality(OEpsilonsAt(q, DOMAIN q))
  BY DEF Counted
<1>3. r = [st EXCEPT !.arcs = p, !.niepsilons = ni, !.noepsilons = no]
  BY DEF StateAddArc
<1> HIDE DEF q
<1>4. Len(q) \in Nat /\ DOMAIN q = 1 .. Len(q)
  BY <1>1
<1> DEFINE m == Len(q) + 1
<1>5. /\ p \in Seq(ArcType(N)) /\ Len(p) = m /\ DOMAIN p = 1 .. m
      /\ p[m] = a /\ \A i \in 1 .. Len(q) : p[i] = q[i]
  BY <1>1, <1>4
<1>6. /\ 1 .. m = (1 .. Len(q)) \cup {m} /\ (1 .. Len(q)) \cap {m} = {}
      /\ m \in Nat
  BY <1>4
<1>7. IsFiniteSet(1 .. Len(q)) /\ IsFiniteSet({m})
  <2>1. IsFiniteSet(1 .. Len(q))
    BY <1>4, FS_Interval
  <2>2. IsFiniteSet({m})
    BY FS_Singleton, Zenon
  <2> QED
    BY <2>1, <2>2
<1>8. ni \in Int /\ no \in Int
  BY <1>1 DEF One
<1> HIDE DEF p, ni, no, r, m
<1>9. r = [final |-> st.final, arcs |-> p, niepsilons |-> ni, noepsilons |-> no]
  BY <1>1, <1>3
<1>10. r.final = st.final /\ r.arcs = p /\ r.niepsilons = ni /\ r.noepsilons = no
  BY <1>9
<1>11. r \in StateType(N)
  BY <1>1, <1>5, <1>8, <1>9 DEF StateType
<1>12. Counted(r)
  <2> DEFINE A == 1 .. Len(q)
  <2>1. IsFiniteSet(A) /\ IsFiniteSet({m}) /\ A \cap {m} = {} /\ DOMAIN p = A \cup {m}
    BY <1>5, <1>6, <1>7
  <2> HIDE DEF A
  <2>2. /\ Cardinality(IEpsilonsAt(p, DOMAIN p)) =
             Cardinality(IEpsilonsAt(p, A)) + Cardinality(IEpsilonsAt(p, {m}))
        /\ Cardinality(OEpsilonsAt(p, DOMAIN p)) =
             Cardinality(OEpsilonsAt(p, A)) + Cardinality(OEpsilonsAt(p, {m}))
    BY <2>1, EpsilonsSplit
  <2>3. \A i \in A : p[i] = q[i]
    BY <1>5 DEF A
  <2>4. IEpsilonsAt(p, A) = IEpsilonsAt(q, A) /\ OEpsilonsAt(p, A) = OEpsilonsAt(q, A)
    BY <2>3, EpsilonsAgree
  <2>5. /\ IEpsilonsAt(p, {m}) = IF a.ilabel = 0 THEN {m} ELSE {}
        /\ OEpsilonsAt(p, {m}) = IF a.olabel = 0 THEN {m} ELSE {}
    BY <1>5 DEF IEpsilonsAt, OEpsilonsAt
  <2>6. Cardinality({m}) = 1 /\ Cardinality({}) = 0
    BY FS_Singleton, FS_EmptySet, Zenon
  <2>7. /\ Cardinality(IEpsilonsAt(p, {m})) = One(a.ilabel = 0)
        /\ Cardinality(OEpsilonsAt(p, {m})) = One(a.olabel = 0)
    BY <2>5, <2>6 DEF One
  <2>8. DOMAIN q = A
    BY <1>4 DEF A
  <2>9. /\ Cardinality(IEpsilonsAt(p, DOMAIN p)) = ni
        /\ Cardinality(OEpsilonsAt(p, DOMAIN p)) = no
    BY <2>2, <2>4, <2>7, <2>8, <1>2 DEF ni, no
  <2> QED
    BY <2>9, <1>10 DEF Counted
<1> QED
  BY <1>5, <1>10, <1>11, <1>12 DEF r, q, m

LEMMA AddArcMachine ==
  ASSUME NEW f, IsVectorFst(f), NEW s \in States(f), NEW a \in ArcType(NumStates(f))
  PROVE  LET g == AddArc(f, s, a)
         IN  /\ IsVectorFst(g) /\ States(g) = States(f) /\ NumStates(g) = NumStates(f)
             /\ g.start = f.start
             /\ g.props = StoreProperties(f.props,
                            AddArcProperties(f.props, s, a, Nontrivial(a.weight),
                                             f.states[s].arcs))
             /\ \A u \in States(f) : g.states[u].final = f.states[u].final
             /\ Len(g.states[s].arcs) = Len(f.states[s].arcs) + 1
             /\ g.states[s].arcs[Len(f.states[s].arcs) + 1] = a
             /\ \A i \in 1 .. Len(f.states[s].arcs) :
                  g.states[s].arcs[i] = f.states[s].arcs[i]
             /\ \A u \in States(f) : u # s => g.states[u] = f.states[u]
<1> DEFINE g == AddArc(f, s, a)
           P == StoreProperties(f.props,
                  AddArcProperties(f.props, s, a, Nontrivial(a.weight), f.states[s].arcs))
           st == StateAddArc(f.states[s], a)
<1>1. P \in SUBSET kFstProperties
  BY MachineFacts, TrinaryBits
     DEF StoreProperties, AddArcProperties, kAddArcProperties, kSetArcProperties, If
<1>2. g = Replaced(f, s, st, P)
  BY DEF AddArc, Replaced
<1>3. /\ st \in StateType(NumStates(f)) /\ Counted(st) /\ st.final = f.states[s].final
      /\ Len(st.arcs) = Len(f.states[s].arcs) + 1
      /\ st.arcs[Len(f.states[s].arcs) + 1] = a
      /\ \A i \in 1 .. Len(f.states[s].arcs) : st.arcs[i] = f.states[s].arcs[i]
  <2>1. /\ NumStates(f) \in Nat /\ f.states[s] \in StateType(NumStates(f))
        /\ Counted(f.states[s])
    BY StateFacts, MachineFacts
  <2> QED
    BY <2>1, StateAddArcFacts, Zenon
<1> HIDE DEF P, g, st
<1>4. /\ IsVectorFst(g) /\ States(g) = States(f) /\ NumStates(g) = NumStates(f)
      /\ g.start = f.start /\ g.props = P
      /\ g.states[s] = st
      /\ \A u \in States(f) : u # s => g.states[u] = f.states[u]
  BY <1>1, <1>2, <1>3, ReplacedState
<1>5. \A u \in States(f) : g.states[u].final = f.states[u].final
  BY <1>3, <1>4
<1> QED
  BY <1>3, <1>4, <1>5 DEF g, P

\* A path in a machine that is sorted topologically only goes up.
LEMMA TopSortedAcyclic ==
  ASSUME NEW f, IsVectorFst(f), IsTopSorted(f)
  PROVE  IsAcyclic(f) /\ ~ IsInitialCyclic(f)
<1>1. ASSUME NEW s \in States(f), NEW t, Reaches(f, s, t) PROVE t >= s
  <2> DEFINE S == {u \in States(f) : u >= s}
  <2>1. States(f) \subseteq Int
    BY MachineFacts
  <2>2. s \in S
    BY <2>1
  <2>3. ASSUME NEW u \in S, NEW v, Edge(f, u, v) PROVE v \in S
    <3>1. u \in States(f)
      OBVIOUS
    <3>2. v \in States(f) /\ v > u
      BY <3>1, <2>3, ArcFacts DEF Edge, IsTopSorted
    <3> QED
      BY <3>2, <2>1
  <2>4. Closed(f, S)
    BY <2>3 DEF Closed
  <2> HIDE DEF S
  <2>5. t \in S
    BY <1>1, <2>2, <2>4, ReachedContained, MachineIsGraph DEF Reaches
  <2> QED
    BY <2>5 DEF S
<1>2. ASSUME NEW s \in States(f), OnCycle(f, s) PROVE FALSE
  <2>1. PICK a \in ArcsOf(f, s) : Reaches(f, a.nextstate, s)
    BY <1>2 DEF OnCycle
  <2>2. a.nextstate \in States(f) /\ a.nextstate > s
    BY ArcFacts DEF IsTopSorted
  <2>3. s >= a.nextstate
    BY <1>1, <2>1, <2>2
  <2>4. s \in Int /\ a.nextstate \in Int
    BY <2>2, MachineFacts
  <2> QED
    BY <2>2, <2>3, <2>4
<1> QED
  BY <1>2, MachineFacts DEF IsAcyclic, IsInitialCyclic

LEMMA RaiseBits ==
  ASSUME NEW props, NEW pairs, \A p \in pairs : p = <<p[1], p[2]>>, NEW x
  PROVE  x \in Raise(props, pairs) <=>
           /\ x \in props \/ \E y : <<x, y>> \in pairs
           /\ ~ \E y : <<y, x>> \in pairs
<1>1. x \in {p[1] : p \in pairs} <=> \E y : <<x, y>> \in pairs
  <2>1. ASSUME NEW p \in pairs, x = p[1] PROVE \E y : <<x, y>> \in pairs
    BY <2>1
  <2>2. ASSUME NEW y, <<x, y>> \in pairs PROVE \E p \in pairs : x = p[1]
    BY <2>2
  <2> QED
    BY <2>1, <2>2
<1>2. x \in {p[2] : p \in pairs} <=> \E y : <<y, x>> \in pairs
  <2>1. ASSUME NEW p \in pairs, x = p[2] PROVE \E y : <<y, x>> \in pairs
    BY <2>1
  <2>2. ASSUME NEW y, <<y, x>> \in pairs PROVE \E p \in pairs : x = p[2]
    BY <2>2
  <2> QED
    BY <2>1, <2>2
<1> QED
  BY <1>1, <1>2 DEF Raise

\* What AddArcProperties leaves: a bit that stays true whatever the arc, a bit
\* that the arc sets, or a bit that the arc does not refute.
LEMMA AddArcBits ==
  ASSUME NEW props, NEW s, NEW a, NEW w \in BOOLEAN, NEW prev,
         NEW b \in AddArcProperties(props, s, a, w, prev), b \in kTrinaryProperties
  PROVE  LET last == prev[Len(prev)]
             idown == prev # <<>> /\ last.ilabel > a.ilabel
             odown == prev # <<>> /\ last.olabel > a.olabel
         IN  \/ /\ b \in props
                /\ b \in { "NotAcceptor", "NonIDeterministic", "NonODeterministic",
                           "Epsilons", "IEpsilons", "OEpsilons", "NotILabelSorted",
                           "NotOLabelSorted", "Weighted", "Cyclic", "InitialCyclic",
                           "NotTopSorted", "Accessible", "CoAccessible",
                           "WeightedCycles" }
             \/ b = "NotAcceptor" /\ a.ilabel # a.olabel
             \/ b = "IEpsilons" /\ a.ilabel = 0
             \/ b = "OEpsilons" /\ a.olabel = 0
             \/ b = "Epsilons" /\ a.ilabel = 0 /\ a.olabel = 0
             \/ b = "Weighted" /\ w
             \/ b = "NotILabelSorted" /\ idown
             \/ b = "NotOLabelSorted" /\ odown
             \/ b = "NotTopSorted" /\ a.nextstate <= s
             \/ b = "Acceptor" /\ b \in props /\ a.ilabel = a.olabel
             \/ b = "NoIEpsilons" /\ b \in props /\ a.ilabel # 0
             \/ b = "NoOEpsilons" /\ b \in props /\ a.olabel # 0
             \/ b = "NoEpsilons" /\ b \in props /\ ~ (a.ilabel = 0 /\ a.olabel = 0)
             \/ b = "Unweighted" /\ b \in props /\ ~ w
             \/ b = "ILabelSorted" /\ b \in props /\ ~ idown
             \/ b = "OLabelSorted" /\ b \in props /\ ~ odown
             \/ /\ b \in {"TopSorted", "Acyclic", "InitialAcyclic"}
                /\ "TopSorted" \in props /\ ~ (a.nextstate <= s)
<1> DEFINE pairs == AddArcPairs(s, a, w, prev)
           up == Raise(props, pairs)
<1>1. \A x, y : <<x, y>> \in pairs <=>
        \/ x = "NotAcceptor" /\ y = "Acceptor" /\ a.ilabel # a.olabel
        \/ x = "IEpsilons" /\ y = "NoIEpsilons" /\ a.ilabel = 0
        \/ x = "OEpsilons" /\ y = "NoOEpsilons" /\ a.olabel = 0
        \/ x = "Epsilons" /\ y = "NoEpsilons" /\ a.ilabel = 0 /\ a.olabel = 0
        \/ x = "Weighted" /\ y = "Unweighted" /\ w
        \/ /\ x = "NotILabelSorted" /\ y = "ILabelSorted"
           /\ prev # <<>> /\ prev[Len(prev)].ilabel > a.ilabel
        \/ /\ x = "NotOLabelSorted" /\ y = "OLabelSorted"
           /\ prev # <<>> /\ prev[Len(prev)].olabel > a.olabel
        \/ x = "NotTopSorted" /\ y = "TopSorted" /\ a.nextstate <= s
  BY DEF AddArcPairs, ArcPairs, If
<1>2. \A p \in pairs : p = <<p[1], p[2]>>
  BY DEF AddArcPairs, ArcPairs, If
<1> HIDE DEF pairs
<1>3. \A x : x \in up <=> /\ x \in props \/ \E y : <<x, y>> \in pairs
                          /\ ~ \E y : <<y, x>> \in pairs
  BY <1>2, RaiseBits
<1> HIDE DEF up
<1>4. \/ /\ b \in up
         /\ b \in { "NotAcceptor", "NonIDeterministic", "NonODeterministic",
                    "Epsilons", "IEpsilons", "OEpsilons", "NotILabelSorted",
                    "NotOLabelSorted", "Weighted", "Cyclic", "InitialCyclic",
                    "NotTopSorted", "Accessible", "CoAccessible",
                    "WeightedCycles", "Acceptor", "NoEpsilons", "NoIEpsilons",
                    "NoOEpsilons", "ILabelSorted", "OLabelSorted", "Unweighted",
                    "TopSorted" }
      \/ b \in {"Acyclic", "InitialAcyclic"} /\ "TopSorted" \in up
  BY TrinaryBits DEF AddArcProperties, kAddArcProperties, kSetArcProperties, If, up, pairs
<1>5. /\ "Acceptor" \in up => "Acceptor" \in props /\ a.ilabel = a.olabel
      /\ "NoIEpsilons" \in up => "NoIEpsilons" \in props /\ a.ilabel # 0
      /\ "NoOEpsilons" \in up => "NoOEpsilons" \in props /\ a.olabel # 0
      /\ "NoEpsilons" \in up =>
           "NoEpsilons" \in props /\ ~ (a.ilabel = 0 /\ a.olabel = 0)
      /\ "Unweighted" \in up => "Unweighted" \in props /\ ~ w
      /\ "ILabelSorted" \in up =>
           "ILabelSorted" \in props /\ ~ (prev # <<>> /\ prev[Len(prev)].ilabel > a.ilabel)
      /\ "OLabelSorted" \in up =>
           "OLabelSorted" \in props /\ ~ (prev # <<>> /\ prev[Len(prev)].olabel > a.olabel)
      /\ "TopSorted" \in up => "TopSorted" \in props /\ ~ (a.nextstate <= s)
  <2>1. \A x, y : x \in up /\ <<y, x>> \in pairs => FALSE
    BY <1>3
  <2>2. \A x \in { "Acceptor", "NoEpsilons", "NoIEpsilons", "NoOEpsilons",
                   "ILabelSorted", "OLabelSorted", "Unweighted", "TopSorted" } :
          x \in up => x \in props
    BY <1>1, <1>3
  <2> QED
    BY <1>1, <2>1, <2>2
<1>6. /\ "NotAcceptor" \in up => "NotAcceptor" \in props \/ a.ilabel # a.olabel
      /\ "IEpsilons" \in up => "IEpsilons" \in props \/ a.ilabel = 0
      /\ "OEpsilons" \in up => "OEpsilons" \in props \/ a.olabel = 0
      /\ "Epsilons" \in up => "Epsilons" \in props \/ (a.ilabel = 0 /\ a.olabel = 0)
      /\ "Weighted" \in up => "Weighted" \in props \/ w
      /\ "NotILabelSorted" \in up =>
           "NotILabelSorted" \in props \/ (prev # <<>> /\ prev[Len(prev)].ilabel > a.ilabel)
      /\ "NotOLabelSorted" \in up =>
           "NotOLabelSorted" \in props \/ (prev # <<>> /\ prev[Len(prev)].olabel > a.olabel)
      /\ "NotTopSorted" \in up => "NotTopSorted" \in props \/ a.nextstate <= s
      /\ \A x \in { "NonIDeterministic", "NonODeterministic", "Cyclic", "InitialCyclic",
                     "Accessible", "CoAccessible", "WeightedCycles" } : x \in up => x \in props
  <2>1. ASSUME NEW x \in up, x \notin props
        PROVE  \/ x = "NotAcceptor" /\ a.ilabel # a.olabel
               \/ x = "IEpsilons" /\ a.ilabel = 0
               \/ x = "OEpsilons" /\ a.olabel = 0
               \/ x = "Epsilons" /\ a.ilabel = 0 /\ a.olabel = 0
               \/ x = "Weighted" /\ w
               \/ x = "NotILabelSorted" /\ prev # <<>> /\ prev[Len(prev)].ilabel > a.ilabel
               \/ x = "NotOLabelSorted" /\ prev # <<>> /\ prev[Len(prev)].olabel > a.olabel
               \/ x = "NotTopSorted" /\ a.nextstate <= s
    <3>1. PICK y : <<x, y>> \in pairs
      BY <1>3, <2>1
    <3> QED
      BY <1>1, <3>1
  <2> QED
    BY <2>1
<1> HIDE DEF up
<1>7. CASE b \in {"Acyclic", "InitialAcyclic"}
  BY <1>4, <1>5, <1>7
<1>8. CASE b \in { "NonIDeterministic", "NonODeterministic", "Cyclic", "InitialCyclic",
                  "Accessible", "CoAccessible", "WeightedCycles" }
  BY <1>4, <1>6, <1>8
<1>9. CASE b \in { "Acceptor", "NoEpsilons", "NoIEpsilons", "NoOEpsilons",
                  "ILabelSorted", "OLabelSorted", "Unweighted", "TopSorted" }
  BY <1>4, <1>5, <1>9
<1>10. CASE b \in { "NotAcceptor", "Epsilons", "IEpsilons", "OEpsilons",
                   "NotILabelSorted", "NotOLabelSorted", "Weighted", "NotTopSorted" }
  BY <1>4, <1>6, <1>10
<1> QED
  BY <1>4, <1>7, <1>8, <1>9, <1>10

\* The arc a appended at s, as the facts see it.
LEMMA AddArcSets ==
  ASSUME NEW f, IsVectorFst(f), NEW s \in States(f), NEW a \in ArcType(NumStates(f))
  PROVE  LET g == AddArc(f, s, a)
         IN  /\ Shortens(g, f)
             /\ \A x : x \in ArcsOf(g, s) <=> x \in ArcsOf(f, s) \/ x = a
             /\ \A u \in States(f) : u # s => ArcsOf(g, u) = ArcsOf(f, u)
<1> DEFINE g == AddArc(f, s, a)
           p == f.states[s].arcs
           q == g.states[s].arcs
<1>1. /\ IsVectorFst(g) /\ States(g) = States(f)
      /\ Len(q) = Len(p) + 1 /\ q[Len(p) + 1] = a
      /\ \A i \in 1 .. Len(p) : q[i] = p[i]
      /\ \A u \in States(f) : u # s => g.states[u] = f.states[u]
  BY AddArcMachine, ZenonT(40)
<1> HIDE DEF g
<1>2. /\ Len(p) \in Nat /\ DOMAIN p = 1 .. Len(p)
      /\ DOMAIN q = 1 .. Len(q)
  BY <1>1, ArcFacts
<1>3. ArcsOf(g, s) = {q[i] : i \in 1 .. Len(q)} /\ ArcsOf(f, s) = {p[i] : i \in 1 .. Len(p)}
  BY <1>2 DEF ArcsOf, Range
<1>4. \A u \in States(f) : u # s => ArcsOf(g, u) = ArcsOf(f, u)
  BY <1>1 DEF ArcsOf
<1>5. ASSUME NEW u \in States(f)
      PROVE  /\ Len(f.states[u].arcs) <= Len(g.states[u].arcs)
             /\ \A i \in 1 .. Len(f.states[u].arcs) :
                  /\ f.states[u].arcs[i] = g.states[u].arcs[i]
                  /\ f.states[u].arcs[i].nextstate \in States(g)
  <2>1. /\ Len(f.states[u].arcs) \in Nat
        /\ \A i \in 1 .. Len(f.states[u].arcs) : f.states[u].arcs[i].nextstate \in States(f)
    BY ArcFacts
  <2>2. CASE u = s
    BY <1>1, <1>2, <2>1, <2>2
  <2>3. CASE u # s
    <3> DEFINE p0 == f.states[u].arcs
               q0 == g.states[u].arcs
    <3>1. /\ q0 = p0 /\ Len(p0) \in Nat /\ States(g) = States(f)
          /\ \A i \in 1 .. Len(p0) : p0[i].nextstate \in States(f)
      BY <1>1, <2>1, <2>3
    <3> HIDE DEF p0, q0
    <3>2. /\ Len(p0) <= Len(q0)
          /\ \A i \in 1 .. Len(p0) : p0[i] = q0[i] /\ p0[i].nextstate \in States(g)
      BY <3>1, SameList
    <3> QED
      BY <3>2 DEF p0, q0
  <2> QED
    BY <2>2, <2>3
<1>6. Shortens(g, f)
  BY <1>1, <1>5 DEF Shortens
<1> HIDE DEF p, q
<1>7. \A x : x \in ArcsOf(g, s) <=> x \in ArcsOf(f, s) \/ x = a
  BY <1>1, <1>2, <1>3
<1> QED
  BY <1>4, <1>6, <1>7 DEF g

\* A sorted list stays sorted when its last label is not above the new one.
LEMMA AddArcSorted ==
  ASSUME NEW f, IsVectorFst(f), NEW s \in States(f), NEW a \in ArcType(NumStates(f))
  PROVE  LET g == AddArc(f, s, a)
             p == f.states[s].arcs
         IN  /\ IsILabelSorted(f) /\ ~ (p # <<>> /\ p[Len(p)].ilabel > a.ilabel)
                  => IsILabelSorted(g)
             /\ IsOLabelSorted(f) /\ ~ (p # <<>> /\ p[Len(p)].olabel > a.olabel)
                  => IsOLabelSorted(g)
             /\ p # <<>> /\ p[Len(p)].ilabel > a.ilabel => ~ IsILabelSorted(g)
             /\ p # <<>> /\ p[Len(p)].olabel > a.olabel => ~ IsOLabelSorted(g)
<1> DEFINE g == AddArc(f, s, a)
           p == f.states[s].arcs
           q == g.states[s].arcs
           m == Len(p) + 1
<1>1. /\ IsVectorFst(g) /\ States(g) = States(f)
      /\ Len(q) = m /\ q[m] = a
      /\ \A i \in 1 .. Len(p) : q[i] = p[i]
      /\ \A u \in States(f) : u # s => g.states[u] = f.states[u]
  BY AddArcMachine, ZenonT(40)
<1> HIDE DEF g
<1>2. /\ Len(p) \in Nat /\ DOMAIN p = 1 .. Len(p) /\ DOMAIN q = 1 .. m
      /\ p \in Seq(ArcType(NumStates(f)))
  BY <1>1, ArcFacts, StateFacts
<1>3. \A i \in 1 .. Len(p) : p[i].ilabel \in Nat /\ p[i].olabel \in Nat
  BY ArcFacts
<1>4. a.ilabel \in Nat /\ a.olabel \in Nat
  BY DEF ArcType
<1>5. p # <<>> <=> Len(p) # 0
  BY <1>2
<1> HIDE DEF p, q
<1>6. ASSUME IsILabelSorted(f), ~ (p # <<>> /\ p[Len(p)].ilabel > a.ilabel)
      PROVE  IsILabelSorted(g)
  <2>1. \A i, j \in 1 .. Len(p) : i < j => p[i].ilabel <= p[j].ilabel
    BY <1>6, <1>2 DEF IsILabelSorted, SortedLabels, ILabel, p
  <2>2. \A i \in 1 .. Len(p) : p[i].ilabel <= a.ilabel
    <3> SUFFICES ASSUME NEW i \in 1 .. Len(p) PROVE p[i].ilabel <= a.ilabel
      OBVIOUS
    <3>1. Len(p) \in 1 .. Len(p) /\ p[Len(p)].ilabel <= a.ilabel
      BY <1>2, <1>3, <1>4, <1>5, <1>6
    <3>2. p[i].ilabel <= p[Len(p)].ilabel
      BY <2>1, <3>1, <1>2, <1>3
    <3> QED
      BY <3>1, <3>2, <1>3, <1>4
  <2>3. \A i, j \in 1 .. m : i < j => q[i].ilabel <= q[j].ilabel
    <3> SUFFICES ASSUME NEW i \in 1 .. m, NEW j \in 1 .. m, i < j
                 PROVE  q[i].ilabel <= q[j].ilabel
      OBVIOUS
    <3>1. i \in 1 .. Len(p) /\ q[i] = p[i]
      BY <1>1, <1>2
    <3>2. CASE j = m
      BY <3>1, <3>2, <2>2, <1>1
    <3>3. CASE j # m
      BY <3>1, <3>3, <2>1, <1>1, <1>2
    <3> QED
      BY <3>2, <3>3
  <2>4. SortedLabels(q, ILabel)
    BY <2>3, <1>2 DEF SortedLabels, ILabel
  <2> QED
    BY <2>4, <1>1, <1>6 DEF IsILabelSorted, q
<1>7. ASSUME IsOLabelSorted(f), ~ (p # <<>> /\ p[Len(p)].olabel > a.olabel)
      PROVE  IsOLabelSorted(g)
  <2>1. \A i, j \in 1 .. Len(p) : i < j => p[i].olabel <= p[j].olabel
    BY <1>7, <1>2 DEF IsOLabelSorted, SortedLabels, OLabel, p
  <2>2. \A i \in 1 .. Len(p) : p[i].olabel <= a.olabel
    <3> SUFFICES ASSUME NEW i \in 1 .. Len(p) PROVE p[i].olabel <= a.olabel
      OBVIOUS
    <3>1. Len(p) \in 1 .. Len(p) /\ p[Len(p)].olabel <= a.olabel
      BY <1>2, <1>3, <1>4, <1>5, <1>7
    <3>2. p[i].olabel <= p[Len(p)].olabel
      BY <2>1, <3>1, <1>2, <1>3
    <3> QED
      BY <3>1, <3>2, <1>3, <1>4
  <2>3. \A i, j \in 1 .. m : i < j => q[i].olabel <= q[j].olabel
    <3> SUFFICES ASSUME NEW i \in 1 .. m, NEW j \in 1 .. m, i < j
                 PROVE  q[i].olabel <= q[j].olabel
      OBVIOUS
    <3>1. i \in 1 .. Len(p) /\ q[i] = p[i]
      BY <1>1, <1>2
    <3>2. CASE j = m
      BY <3>1, <3>2, <2>2, <1>1
    <3>3. CASE j # m
      BY <3>1, <3>3, <2>1, <1>1, <1>2
    <3> QED
      BY <3>2, <3>3
  <2>4. SortedLabels(q, OLabel)
    BY <2>3, <1>2 DEF SortedLabels, OLabel
  <2> QED
    BY <2>4, <1>1, <1>7 DEF IsOLabelSorted, q
<1>8. ASSUME p # <<>>
      PROVE  /\ p[Len(p)].ilabel > a.ilabel => ~ IsILabelSorted(g)
             /\ p[Len(p)].olabel > a.olabel => ~ IsOLabelSorted(g)
  <2>1. Len(p) \in 1 .. m /\ m \in 1 .. m /\ Len(p) < m /\ q[Len(p)] = p[Len(p)]
    BY <1>1, <1>2, <1>5, <1>8
  <2>2. /\ SortedLabels(q, ILabel) => p[Len(p)].ilabel <= a.ilabel
        /\ SortedLabels(q, OLabel) => p[Len(p)].olabel <= a.olabel
    BY <2>1, <1>1, <1>2 DEF SortedLabels, ILabel, OLabel
  <2>3. /\ IsILabelSorted(g) => SortedLabels(q, ILabel)
        /\ IsOLabelSorted(g) => SortedLabels(q, OLabel)
    BY <1>1 DEF IsILabelSorted, IsOLabelSorted, q
  <2>4. Len(p) \in 1 .. Len(p)
    BY <1>2, <1>5, <1>8
  <2> QED
    BY <2>2, <2>3, <2>4, <1>3, <1>4
<1> QED
  BY <1>6, <1>7, <1>8 DEF g, p

LEMMA AddArcSound ==
  ASSUME NEW f, IsVectorFst(f), Sound(f), NEW s \in States(f),
         NEW a \in ArcType(NumStates(f))
  PROVE  Sound(AddArc(f, s, a))
<1> DEFINE g == AddArc(f, s, a)
           p == f.states[s].arcs
           P == AddArcProperties(f.props, s, a, Nontrivial(a.weight), p)
<1>1. /\ IsVectorFst(g) /\ States(g) = States(f) /\ NumStates(g) = NumStates(f)
      /\ g.start = f.start
      /\ g.props = StoreProperties(f.props, P)
      /\ \A u \in States(f) : g.states[u].final = f.states[u].final
  BY AddArcMachine, ZenonT(40)
<1>2. /\ Shortens(g, f)
      /\ \A x : x \in ArcsOf(g, s) <=> x \in ArcsOf(f, s) \/ x = a
      /\ \A u \in States(f) : u # s => ArcsOf(g, u) = ArcsOf(f, u)
  BY AddArcSets, Zenon
<1>3. /\ IsILabelSorted(f) /\ ~ (p # <<>> /\ p[Len(p)].ilabel > a.ilabel)
           => IsILabelSorted(g)
      /\ IsOLabelSorted(f) /\ ~ (p # <<>> /\ p[Len(p)].olabel > a.olabel)
           => IsOLabelSorted(g)
      /\ p # <<>> /\ p[Len(p)].ilabel > a.ilabel => ~ IsILabelSorted(g)
      /\ p # <<>> /\ p[Len(p)].olabel > a.olabel => ~ IsOLabelSorted(g)
  BY AddArcSorted, Zenon
<1> HIDE DEF g, p, P
<1> SUFFICES ASSUME NEW b \in g.props, b \in kTrinaryProperties PROVE b \in Truth(g)
  BY DEF Sound, g
<1>4. b \in P
  BY <1>1, TrinaryBits DEF StoreProperties
<1>5. \A x \in kTrinaryProperties : x \in f.props => x \in Truth(f)
  BY DEF Sound
<1>6. /\ IsAcceptor(g) => IsAcceptor(f)
      /\ HasNoEpsilons(g) => HasNoEpsilons(f)
      /\ HasNoIEpsilons(g) => HasNoIEpsilons(f)
      /\ HasNoOEpsilons(g) => HasNoOEpsilons(f)
      /\ HasTrivialArcs(g) => HasTrivialArcs(f)
      /\ IsIDeterministic(g) => IsIDeterministic(f)
      /\ IsODeterministic(g) => IsODeterministic(f)
      /\ IsILabelSorted(g) => IsILabelSorted(f)
      /\ IsOLabelSorted(g) => IsOLabelSorted(f)
      /\ IsAcyclic(g) => IsAcyclic(f)
      /\ HasTrivialCycles(g) => HasTrivialCycles(f)
      /\ IsTopSorted(g) => IsTopSorted(f)
  BY <1>1, <1>2, ShortenedFacts
<1>7. /\ \A u \in States(f) : \A t : Reaches(f, u, t) => Reaches(g, u, t)
      /\ \A u \in States(f) : OnCycle(f, u) => OnCycle(g, u)
  BY <1>1, <1>2, ShortenedPaths
<1>8. f.start # kNoStateId => f.start \in States(f)
  BY MachineFacts
<1>9. IsInitialCyclic(f) => IsInitialCyclic(g)
  BY <1>1, <1>7, <1>8 DEF IsInitialCyclic
<1>10. IsAccessible(f) => IsAccessible(g)
  BY <1>1, <1>7, <1>8 DEF IsAccessible, Accessible
<1>11. IsCoAccessible(f) => IsCoAccessible(g)
  BY <1>1, <1>7 DEF IsCoAccessible, Coaccessible, IsFinal
<1>12. HasTrivialFinals(g) <=> HasTrivialFinals(f)
  BY <1>1 DEF HasTrivialFinals
<1>13. /\ IsAcceptor(f) /\ a.ilabel = a.olabel => IsAcceptor(g)
       /\ HasNoEpsilons(f) /\ ~ (a.ilabel = 0 /\ a.olabel = 0) => HasNoEpsilons(g)
       /\ HasNoIEpsilons(f) /\ a.ilabel # 0 => HasNoIEpsilons(g)
       /\ HasNoOEpsilons(f) /\ a.olabel # 0 => HasNoOEpsilons(g)
       /\ HasTrivialArcs(f) /\ ~ Nontrivial(a.weight) => HasTrivialArcs(g)
  BY <1>1, <1>2
     DEF IsAcceptor, HasNoEpsilons, HasNoIEpsilons, HasNoOEpsilons, HasTrivialArcs
<1>14. /\ a.ilabel # a.olabel => ~ IsAcceptor(g)
       /\ a.ilabel = 0 /\ a.olabel = 0 => ~ HasNoEpsilons(g)
       /\ a.ilabel = 0 => ~ HasNoIEpsilons(g)
       /\ a.olabel = 0 => ~ HasNoOEpsilons(g)
       /\ Nontrivial(a.weight) => ~ HasTrivialArcs(g)
  BY <1>1, <1>2
     DEF IsAcceptor, HasNoEpsilons, HasNoIEpsilons, HasNoOEpsilons, HasTrivialArcs
<1>15. s \in Int /\ a.nextstate \in Int
  BY MachineFacts DEF ArcType
<1>16. /\ IsTopSorted(f) /\ ~ (a.nextstate <= s) => IsTopSorted(g)
       /\ a.nextstate <= s => ~ IsTopSorted(g)
  BY <1>1, <1>2, <1>15 DEF IsTopSorted
<1>17. IsTopSorted(g) => IsAcyclic(g) /\ ~ IsInitialCyclic(g)
  BY <1>1, TopSortedAcyclic
<1>18. Nontrivial(a.weight) \in BOOLEAN
  BY DEF Nontrivial
<1> DEFINE w == Nontrivial(a.weight)
           idown == p # <<>> /\ p[Len(p)].ilabel > a.ilabel
           odown == p # <<>> /\ p[Len(p)].olabel > a.olabel
<1>19. \/ /\ b \in f.props
          /\ b \in { "NotAcceptor", "NonIDeterministic", "NonODeterministic",
                     "Epsilons", "IEpsilons", "OEpsilons", "NotILabelSorted",
                     "NotOLabelSorted", "Weighted", "Cyclic", "InitialCyclic",
                     "NotTopSorted", "Accessible", "CoAccessible",
                     "WeightedCycles" }
       \/ b = "NotAcceptor" /\ a.ilabel # a.olabel
       \/ b = "IEpsilons" /\ a.ilabel = 0
       \/ b = "OEpsilons" /\ a.olabel = 0
       \/ b = "Epsilons" /\ a.ilabel = 0 /\ a.olabel = 0
       \/ b = "Weighted" /\ w
       \/ b = "NotILabelSorted" /\ idown
       \/ b = "NotOLabelSorted" /\ odown
       \/ b = "NotTopSorted" /\ a.nextstate <= s
       \/ b = "Acceptor" /\ b \in f.props /\ a.ilabel = a.olabel
       \/ b = "NoIEpsilons" /\ b \in f.props /\ a.ilabel # 0
       \/ b = "NoOEpsilons" /\ b \in f.props /\ a.olabel # 0
       \/ b = "NoEpsilons" /\ b \in f.props /\ ~ (a.ilabel = 0 /\ a.olabel = 0)
       \/ b = "Unweighted" /\ b \in f.props /\ ~ w
       \/ b = "ILabelSorted" /\ b \in f.props /\ ~ idown
       \/ b = "OLabelSorted" /\ b \in f.props /\ ~ odown
       \/ /\ b \in {"TopSorted", "Acyclic", "InitialAcyclic"}
          /\ "TopSorted" \in f.props /\ ~ (a.nextstate <= s)
  BY <1>4, <1>18, AddArcBits, Zenon DEF P
<1> DEFINE L == /\ b \in f.props
          /\ b \in { "NotAcceptor", "NonIDeterministic", "NonODeterministic",
                     "Epsilons", "IEpsilons", "OEpsilons", "NotILabelSorted",
                     "NotOLabelSorted", "Weighted", "Cyclic", "InitialCyclic",
                     "NotTopSorted", "Accessible", "CoAccessible",
                     "WeightedCycles" }
<1>20. CASE L
  BY <1>20, <1>5, <1>6, <1>9, <1>10, <1>11, <1>12, LabelBits, ListBits, OrderBits, CycleBits
<1>21. CASE ~ L
  BY <1>21, <1>19, <1>5, <1>3, <1>12, <1>13, <1>14, <1>16, <1>17, TrinaryBits, LabelBits,
     ListBits, OrderBits, CycleBits
<1> QED
  BY <1>20, <1>21

-----------------------------------------------------------------------------
(* Replacing an arc in place.                                              *)

LEMMA StateSetArcFacts ==
  ASSUME NEW N \in Nat, NEW st \in StateType(N), Counted(st), NEW a \in ArcType(N),
         NEW n \in DOMAIN st.arcs
  PROVE  LET r == StateSetArc(st, a, n)
         IN  /\ r \in StateType(N) /\ Counted(r) /\ r.final = st.final
             /\ Len(r.arcs) = Len(st.arcs)
             /\ r.arcs[n] = a
             /\ \A i \in 1 .. Len(st.arcs) : i # n => r.arcs[i] = st.arcs[i]
<1> DEFINE q == st.arcs
           p == [q EXCEPT ![n] = a]
           ni == st.niepsilons - One(q[n].ilabel = 0) + One(a.ilabel = 0)
           no == st.noepsilons - One(q[n].olabel = 0) + One(a.olabel = 0)
           r == StateSetArc(st, a, n)
<1>1. /\ st.final \in Weights /\ q \in Seq(ArcType(N))
      /\ st.niepsilons \in Int /\ st.noepsilons \in Int
      /\ st = [final |-> st.final, arcs |-> q,
               niepsilons |-> st.niepsilons, noepsilons |-> st.noepsilons]
  BY DEF StateType
<1>2. /\ st.niepsilons = Cardinality(IEpsilonsAt(q, DOMAIN q))
      /\ st.noepsilons = Cardinality(OEpsilonsAt(q, DOMAIN q))
  BY DEF Counted
<1>3. r = [st EXCEPT !.arcs = p, !.niepsilons = ni, !.noepsilons = no]
  BY DEF StateSetArc
<1>4. n \in DOMAIN q
  OBVIOUS
<1> HIDE DEF q
<1>5. Len(q) \in Nat /\ DOMAIN q = 1 .. Len(q)
  BY <1>1
<1>6. /\ p \in Seq(ArcType(N)) /\ Len(p) = Len(q) /\ DOMAIN p = 1 .. Len(q)
      /\ p[n] = a /\ \A i \in 1 .. Len(q) : i # n => p[i] = q[i]
  BY <1>1, <1>4, <1>5
<1>7. ni \in Int /\ no \in Int
  BY <1>1 DEF One
<1> HIDE DEF p, ni, no, r
<1>8. r = [final |-> st.final, arcs |-> p, niepsilons |-> ni, noepsilons |-> no]
  BY <1>1, <1>3
<1>9. r.final = st.final /\ r.arcs = p /\ r.niepsilons = ni /\ r.noepsilons = no
  BY <1>8
<1>10. r \in StateType(N)
  BY <1>1, <1>6, <1>7, <1>8 DEF StateType
<1>11. Counted(r)
  <2> DEFINE A == (1 .. Len(q)) \ {n}
  <2>1. A \cap {n} = {} /\ DOMAIN q = A \cup {n} /\ DOMAIN p = A \cup {n}
    BY <1>4, <1>5, <1>6
  <2>2. IsFiniteSet(1 .. Len(q))
    BY <1>5, FS_Interval
  <2>3. IsFiniteSet(A)
    BY <2>2, FS_Difference
  <2>4. IsFiniteSet({n}) /\ Cardinality({n}) = 1 /\ Cardinality({}) = 0
    BY FS_Singleton, FS_EmptySet, Zenon
  <2>5. \A i \in A : p[i] = q[i]
    BY <1>6
  <2> HIDE DEF A
  <2>6. /\ Cardinality(IEpsilonsAt(p, A)) \in Nat
        /\ Cardinality(OEpsilonsAt(p, A)) \in Nat
        /\ Cardinality(IEpsilonsAt(p, DOMAIN p)) =
             Cardinality(IEpsilonsAt(p, A)) + Cardinality(IEpsilonsAt(p, {n}))
        /\ Cardinality(OEpsilonsAt(p, DOMAIN p)) =
             Cardinality(OEpsilonsAt(p, A)) + Cardinality(OEpsilonsAt(p, {n}))
    BY <2>1, <2>3, <2>4, EpsilonsSplit
  <2>7. /\ Cardinality(IEpsilonsAt(q, DOMAIN q)) =
             Cardinality(IEpsilonsAt(q, A)) + Cardinality(IEpsilonsAt(q, {n}))
        /\ Cardinality(OEpsilonsAt(q, DOMAIN q)) =
             Cardinality(OEpsilonsAt(q, A)) + Cardinality(OEpsilonsAt(q, {n}))
    BY <2>1, <2>3, <2>4, EpsilonsSplit
  <2>8. IEpsilonsAt(p, A) = IEpsilonsAt(q, A) /\ OEpsilonsAt(p, A) = OEpsilonsAt(q, A)
    BY <2>5, EpsilonsAgree
  <2>9. /\ IEpsilonsAt(p, {n}) = IF a.ilabel = 0 THEN {n} ELSE {}
        /\ OEpsilonsAt(p, {n}) = IF a.olabel = 0 THEN {n} ELSE {}
        /\ IEpsilonsAt(q, {n}) = IF q[n].ilabel = 0 THEN {n} ELSE {}
        /\ OEpsilonsAt(q, {n}) = IF q[n].olabel = 0 THEN {n} ELSE {}
    BY <1>6 DEF IEpsilonsAt, OEpsilonsAt
  <2>10. /\ Cardinality(IEpsilonsAt(p, {n})) = One(a.ilabel = 0)
         /\ Cardinality(OEpsilonsAt(p, {n})) = One(a.olabel = 0)
         /\ Cardinality(IEpsilonsAt(q, {n})) = One(q[n].ilabel = 0)
         /\ Cardinality(OEpsilonsAt(q, {n})) = One(q[n].olabel = 0)
    BY <2>4, <2>9 DEF One
  <2>11. /\ One(a.ilabel = 0) \in Int /\ One(a.olabel = 0) \in Int
         /\ One(q[n].ilabel = 0) \in Int /\ One(q[n].olabel = 0) \in Int
    BY DEF One
  <2>12. /\ Cardinality(IEpsilonsAt(p, DOMAIN p)) = ni
         /\ Cardinality(OEpsilonsAt(p, DOMAIN p)) = no
    BY <2>6, <2>7, <2>8, <2>10, <2>11, <1>2 DEF ni, no
  <2> QED
    BY <2>12, <1>9 DEF Counted
<1> QED
  BY <1>6, <1>9, <1>10, <1>11 DEF r, q

LEMMA SetValueMachine ==
  ASSUME NEW f, IsVectorFst(f), NEW s \in States(f), NEW i \in DOMAIN f.states[s].arcs,
         NEW a \in ArcType(NumStates(f))
  PROVE  LET g == SetValue(f, s, i, a)
             o == f.states[s].arcs[i]
         IN  /\ IsVectorFst(g) /\ States(g) = States(f)
             /\ g.start = f.start
             /\ g.props = SetValueProperties(f.props, o, Nontrivial(o.weight),
                                             a, Nontrivial(a.weight))
             /\ \A u \in States(f) : g.states[u].final = f.states[u].final
             /\ Len(g.states[s].arcs) = Len(f.states[s].arcs)
             /\ g.states[s].arcs[i] = a
             /\ \A j \in 1 .. Len(f.states[s].arcs) :
                  j # i => g.states[s].arcs[j] = f.states[s].arcs[j]
             /\ \A u \in States(f) : u # s => g.states[u] = f.states[u]
<1> DEFINE g == SetValue(f, s, i, a)
           o == f.states[s].arcs[i]
           P == SetValueProperties(f.props, o, Nontrivial(o.weight), a, Nontrivial(a.weight))
           st == StateSetArc(f.states[s], a, i)
<1>1. P \in SUBSET kFstProperties
  BY TrinaryBits DEF SetValueProperties, kSetArcProperties
<1>2. g = Replaced(f, s, st, P)
  BY DEF SetValue, Replaced
<1>3. /\ st \in StateType(NumStates(f)) /\ Counted(st) /\ st.final = f.states[s].final
      /\ Len(st.arcs) = Len(f.states[s].arcs)
      /\ st.arcs[i] = a
      /\ \A j \in 1 .. Len(f.states[s].arcs) : j # i => st.arcs[j] = f.states[s].arcs[j]
  <2>1. /\ NumStates(f) \in Nat /\ f.states[s] \in StateType(NumStates(f))
        /\ Counted(f.states[s])
    BY StateFacts, MachineFacts
  <2> QED
    BY <2>1, StateSetArcFacts, Zenon
<1> HIDE DEF P, g, st
<1>4. /\ IsVectorFst(g) /\ States(g) = States(f)
      /\ g.start = f.start /\ g.props = P
      /\ g.states[s] = st
      /\ \A u \in States(f) : u # s => g.states[u] = f.states[u]
  BY <1>1, <1>2, <1>3, ReplacedState
<1>5. \A u \in States(f) : g.states[u].final = f.states[u].final
  BY <1>3, <1>4
<1> QED
  BY <1>3, <1>4, <1>5 DEF g, P

\* What SetValueProperties leaves: a bit that the new arc sets, one that the old
\* arc did not set, and one that the new arc does not refute.
LEMMA SetValueBits ==
  ASSUME NEW props, NEW o, NEW v \in BOOLEAN, NEW a, NEW w \in BOOLEAN,
         NEW b \in SetValueProperties(props, o, v, a, w), b \in kTrinaryProperties
  PROVE  \/ b = "NotAcceptor" /\ a.ilabel # a.olabel
         \/ b = "IEpsilons" /\ a.ilabel = 0
         \/ b = "OEpsilons" /\ a.olabel = 0
         \/ b = "Epsilons" /\ a.ilabel = 0 /\ a.olabel = 0
         \/ b = "Weighted" /\ w
         \/ b = "NotAcceptor" /\ b \in props /\ o.ilabel = o.olabel
         \/ b = "IEpsilons" /\ b \in props /\ o.ilabel # 0
         \/ b = "OEpsilons" /\ b \in props /\ o.olabel # 0
         \/ b = "Epsilons" /\ b \in props /\ ~ (o.ilabel = 0 /\ o.olabel = 0)
         \/ b = "Weighted" /\ b \in props /\ ~ v
         \/ b = "Acceptor" /\ b \in props /\ a.ilabel = a.olabel
         \/ b = "NoIEpsilons" /\ b \in props /\ a.ilabel # 0
         \/ b = "NoOEpsilons" /\ b \in props /\ a.olabel # 0
         \/ b = "NoEpsilons" /\ b \in props /\ ~ (a.ilabel = 0 /\ a.olabel = 0)
         \/ b = "Unweighted" /\ b \in props /\ ~ w
<1> DEFINE old == ArcPairs(o, v)
           new == ArcPairs(a, w)
           kept == props \ {p[1] : p \in old}
           up == Raise(kept, new)
<1>1. \A x, y : <<x, y>> \in new <=>
        \/ x = "NotAcceptor" /\ y = "Acceptor" /\ a.ilabel # a.olabel
        \/ x = "IEpsilons" /\ y = "NoIEpsilons" /\ a.ilabel = 0
        \/ x = "OEpsilons" /\ y = "NoOEpsilons" /\ a.olabel = 0
        \/ x = "Epsilons" /\ y = "NoEpsilons" /\ a.ilabel = 0 /\ a.olabel = 0
        \/ x = "Weighted" /\ y = "Unweighted" /\ w
  BY DEF ArcPairs, If
<1>2. \A p \in new : p = <<p[1], p[2]>>
  BY DEF ArcPairs, If
<1>3. /\ o.ilabel # o.olabel => <<"NotAcceptor", "Acceptor">> \in old
      /\ o.ilabel = 0 => <<"IEpsilons", "NoIEpsilons">> \in old
      /\ o.olabel = 0 => <<"OEpsilons", "NoOEpsilons">> \in old
      /\ o.ilabel = 0 /\ o.olabel = 0 => <<"Epsilons", "NoEpsilons">> \in old
      /\ v => <<"Weighted", "Unweighted">> \in old
  BY DEF ArcPairs, If
<1> HIDE DEF new, old
<1>4. \A x, y : <<x, y>> \in old => x \in {p[1] : p \in old}
  <2> SUFFICES ASSUME NEW x, NEW y, <<x, y>> \in old PROVE \E p \in old : x = p[1]
    OBVIOUS
  <2> QED
    OBVIOUS
<1>5. kept \subseteq props
  OBVIOUS
<1>6. /\ "NotAcceptor" \in kept => o.ilabel = o.olabel
      /\ "IEpsilons" \in kept => o.ilabel # 0
      /\ "OEpsilons" \in kept => o.olabel # 0
      /\ "Epsilons" \in kept => ~ (o.ilabel = 0 /\ o.olabel = 0)
      /\ "Weighted" \in kept => ~ v
  BY <1>3, <1>4
<1> HIDE DEF kept
<1>7. \A x : x \in up <=> /\ x \in kept \/ \E y : <<x, y>> \in new
                          /\ ~ \E y : <<y, x>> \in new
  BY <1>2, RaiseBits
<1>8. /\ b \in up
      /\ b \in { "Acceptor", "NotAcceptor", "Epsilons", "NoEpsilons",
                 "IEpsilons", "NoIEpsilons", "OEpsilons", "NoOEpsilons",
                 "Weighted", "Unweighted" }
  BY TrinaryBits DEF SetValueProperties, kSetArcProperties, up, kept, old, new
<1> HIDE DEF up
<1>9. CASE b \in kept
  <2>1. \A y : ~ (<<y, b>> \in new)
    BY <1>7, <1>8
  <2>2. /\ b = "Acceptor" => a.ilabel = a.olabel
        /\ b = "NoIEpsilons" => a.ilabel # 0
        /\ b = "NoOEpsilons" => a.olabel # 0
        /\ b = "NoEpsilons" => ~ (a.ilabel = 0 /\ a.olabel = 0)
        /\ b = "Unweighted" => ~ w
    BY <1>1, <2>1
  <2> QED
    BY <1>5, <1>6, <1>8, <1>9, <2>2
<1>10. CASE b \notin kept
  <2>1. PICK y : <<b, y>> \in new
    BY <1>7, <1>8, <1>10
  <2> QED
    BY <1>1, <2>1
<1> QED
  BY <1>9, <1>10

LEMMA SetValueSound ==
  ASSUME NEW f, IsVectorFst(f), Sound(f), NEW s \in States(f),
         NEW i \in DOMAIN f.states[s].arcs, NEW a \in ArcType(NumStates(f))
  PROVE  Sound(SetValue(f, s, i, a))
<1> DEFINE g == SetValue(f, s, i, a)
           o == f.states[s].arcs[i]
           v == Nontrivial(o.weight)
           w == Nontrivial(a.weight)
<1>1. /\ IsVectorFst(g) /\ States(g) = States(f)
      /\ g.start = f.start
      /\ g.props = SetValueProperties(f.props, o, v, a, w)
      /\ \A u \in States(f) : g.states[u].final = f.states[u].final
      /\ Len(g.states[s].arcs) = Len(f.states[s].arcs)
      /\ g.states[s].arcs[i] = a
      /\ \A j \in 1 .. Len(f.states[s].arcs) :
           j # i => g.states[s].arcs[j] = f.states[s].arcs[j]
      /\ \A u \in States(f) : u # s => g.states[u] = f.states[u]
  BY SetValueMachine, Zenon
<1> HIDE DEF g
<1> SUFFICES ASSUME NEW b \in g.props, b \in kTrinaryProperties PROVE b \in Truth(g)
  BY DEF Sound, g
<1>2. i \in 1 .. Len(f.states[s].arcs)
  BY ArcFacts
<1>3. \A u \in States(f) : \A x \in ArcsOf(f, u) :
        (u = s /\ x = o) \/ x \in ArcsOf(g, u)
  <2> SUFFICES ASSUME NEW u \in States(f), NEW x \in ArcsOf(f, u), ~ (u = s /\ x = o)
               PROVE  x \in ArcsOf(g, u)
    OBVIOUS
  <2>1. PICK j \in 1 .. Len(f.states[u].arcs) : x = f.states[u].arcs[j]
    BY ArcFacts
  <2>2. j \in 1 .. Len(g.states[u].arcs) /\ g.states[u].arcs[j] = x
    BY <1>1, <2>1
  <2> QED
    BY <1>1, <2>2, ArcFacts
<1>4. \A u \in States(f) : \A x \in ArcsOf(g, u) :
        (u = s /\ x = a) \/ x \in ArcsOf(f, u)
  <2> SUFFICES ASSUME NEW u \in States(f), NEW x \in ArcsOf(g, u), ~ (u = s /\ x = a)
               PROVE  x \in ArcsOf(f, u)
    OBVIOUS
  <2>1. PICK j \in 1 .. Len(g.states[u].arcs) : x = g.states[u].arcs[j]
    BY <1>1, ArcFacts
  <2>2. j \in 1 .. Len(f.states[u].arcs) /\ f.states[u].arcs[j] = x
    BY <1>1, <2>1
  <2> QED
    BY <2>2, ArcFacts
<1>5. a \in ArcsOf(g, s)
  BY <1>1, <1>2, ArcFacts
<1> HIDE DEF o
<1>6. /\ IsAcceptor(f) /\ a.ilabel = a.olabel => IsAcceptor(g)
      /\ HasNoEpsilons(f) /\ ~ (a.ilabel = 0 /\ a.olabel = 0) => HasNoEpsilons(g)
      /\ HasNoIEpsilons(f) /\ a.ilabel # 0 => HasNoIEpsilons(g)
      /\ HasNoOEpsilons(f) /\ a.olabel # 0 => HasNoOEpsilons(g)
      /\ HasTrivialArcs(f) /\ ~ w => HasTrivialArcs(g)
  BY <1>1, <1>4
     DEF IsAcceptor, HasNoEpsilons, HasNoIEpsilons, HasNoOEpsilons, HasTrivialArcs
<1>7. /\ IsAcceptor(g) /\ o.ilabel = o.olabel => IsAcceptor(f)
      /\ HasNoEpsilons(g) /\ ~ (o.ilabel = 0 /\ o.olabel = 0) => HasNoEpsilons(f)
      /\ HasNoIEpsilons(g) /\ o.ilabel # 0 => HasNoIEpsilons(f)
      /\ HasNoOEpsilons(g) /\ o.olabel # 0 => HasNoOEpsilons(f)
      /\ HasTrivialArcs(g) /\ ~ v => HasTrivialArcs(f)
  BY <1>1, <1>3
     DEF IsAcceptor, HasNoEpsilons, HasNoIEpsilons, HasNoOEpsilons, HasTrivialArcs
<1>8. /\ a.ilabel # a.olabel => ~ IsAcceptor(g)
      /\ a.ilabel = 0 /\ a.olabel = 0 => ~ HasNoEpsilons(g)
      /\ a.ilabel = 0 => ~ HasNoIEpsilons(g)
      /\ a.olabel = 0 => ~ HasNoOEpsilons(g)
      /\ w => ~ HasTrivialArcs(g)
  BY <1>1, <1>5
     DEF IsAcceptor, HasNoEpsilons, HasNoIEpsilons, HasNoOEpsilons, HasTrivialArcs
<1>9. HasTrivialFinals(g) <=> HasTrivialFinals(f)
  BY <1>1 DEF HasTrivialFinals
<1>10. v \in BOOLEAN /\ w \in BOOLEAN
  BY DEF Nontrivial
<1>11. b \in SetValueProperties(f.props, o, v, a, w)
  BY <1>1
<1>12. \A x \in kTrinaryProperties : x \in f.props => x \in Truth(f)
  BY DEF Sound
<1> HIDE DEF v, w
<1>13. \/ b = "NotAcceptor" /\ a.ilabel # a.olabel
       \/ b = "IEpsilons" /\ a.ilabel = 0
       \/ b = "OEpsilons" /\ a.olabel = 0
       \/ b = "Epsilons" /\ a.ilabel = 0 /\ a.olabel = 0
       \/ b = "Weighted" /\ w
       \/ b = "NotAcceptor" /\ b \in f.props /\ o.ilabel = o.olabel
       \/ b = "IEpsilons" /\ b \in f.props /\ o.ilabel # 0
       \/ b = "OEpsilons" /\ b \in f.props /\ o.olabel # 0
       \/ b = "Epsilons" /\ b \in f.props /\ ~ (o.ilabel = 0 /\ o.olabel = 0)
       \/ b = "Weighted" /\ b \in f.props /\ ~ v
       \/ b = "Acceptor" /\ b \in f.props /\ a.ilabel = a.olabel
       \/ b = "NoIEpsilons" /\ b \in f.props /\ a.ilabel # 0
       \/ b = "NoOEpsilons" /\ b \in f.props /\ a.olabel # 0
       \/ b = "NoEpsilons" /\ b \in f.props /\ ~ (a.ilabel = 0 /\ a.olabel = 0)
       \/ b = "Unweighted" /\ b \in f.props /\ ~ w
  BY <1>10, <1>11, SetValueBits, Zenon
<1> QED
  BY <1>6, <1>7, <1>8, <1>9, <1>12, <1>13, TrinaryBits, LabelBits, OrderBits

-----------------------------------------------------------------------------
(* The members of a finite set of integers in order.                       *)

Rank(K, i) == Cardinality({j \in K : j <= i})

LEMMA RankOrder ==
  ASSUME NEW K \in SUBSET Int, IsFiniteSet(K)
  PROVE  /\ Cardinality(K) \in Nat
         /\ \A i \in K : Rank(K, i) \in 1 .. Cardinality(K)
         /\ \A i, j \in K : i < j => Rank(K, i) < Rank(K, j)
         /\ \A i, j \in K : Rank(K, i) = Rank(K, j) => i = j
<1>1. Cardinality(K) \in Nat
  BY FS_CardinalityType
<1>2. \A i \in K : /\ IsFiniteSet({j \in K : j <= i})
                   /\ Rank(K, i) \in Nat /\ Rank(K, i) <= Cardinality(K)
  <2> SUFFICES ASSUME NEW i \in K
               PROVE  /\ IsFiniteSet({j \in K : j <= i})
                      /\ Rank(K, i) \in Nat /\ Rank(K, i) <= Cardinality(K)
    OBVIOUS
  <2> DEFINE A == {j \in K : j <= i}
  <2>1. A \in SUBSET K
    OBVIOUS
  <2> HIDE DEF A
  <2>2. IsFiniteSet(A) /\ Cardinality(A) <= Cardinality(K)
    BY <2>1, FS_Subset
  <2>3. Cardinality(A) \in Nat
    BY <2>2, FS_CardinalityType
  <2> QED
    BY <2>2, <2>3 DEF A, Rank
<1>3. \A i \in K : Rank(K, i) >= 1
  <2> SUFFICES ASSUME NEW i \in K PROVE Rank(K, i) >= 1
    OBVIOUS
  <2> DEFINE A == {j \in K : j <= i}
  <2>1. {i} \in SUBSET A /\ IsFiniteSet(A)
    BY <1>2
  <2> HIDE DEF A
  <2>2. Cardinality({i}) <= Cardinality(A) /\ Cardinality({i}) = 1
    BY <2>1, FS_Subset, FS_Singleton
  <2>3. Cardinality(A) \in Nat
    BY <2>1, FS_CardinalityType
  <2> QED
    BY <2>2, <2>3 DEF A, Rank
<1>4. ASSUME NEW i \in K, NEW j \in K, i < j PROVE Rank(K, i) < Rank(K, j)
  <2> DEFINE A == {x \in K : x <= i}
             B == {x \in K : x <= j}
  <2>1. A \in SUBSET B /\ j \in B /\ j \notin A
    <3>1. \A x \in K : x \in Int
      OBVIOUS
    <3>2. i \in Int /\ j \in Int
      BY <3>1
    <3>3. \A x \in K : x <= i => x <= j
      BY <3>1, <3>2, <1>4
    <3>4. ~ (j <= i) /\ j <= j
      BY <3>2, <1>4
    <3> QED
      BY <3>3, <3>4
  <2>2. IsFiniteSet(A) /\ IsFiniteSet(B)
    BY <1>2
  <2> HIDE DEF A, B
  <2>3. Cardinality(A) <= Cardinality(B) /\ Cardinality(A) # Cardinality(B)
    <3>1. /\ Cardinality(A) <= Cardinality(B)
          /\ Cardinality(B) = Cardinality(A) => B = A
      BY <2>1, <2>2, FS_Subset, Zenon
    <3> QED
      BY <2>1, <3>1
  <2>4. Cardinality(A) \in Nat /\ Cardinality(B) \in Nat
    BY <2>2, FS_CardinalityType
  <2>5. Cardinality(A) < Cardinality(B)
    BY <2>3, <2>4
  <2> QED
    BY <2>5 DEF A, B, Rank
<1>5. ASSUME NEW i \in K, NEW j \in K, Rank(K, i) = Rank(K, j) PROVE i = j
  <2>1. i \in Int /\ j \in Int /\ Rank(K, i) \in Nat
    BY <1>2
  <2>2. ~ (i < j) /\ ~ (j < i)
    BY <1>4, <1>5, <2>1
  <2> QED
    BY <2>1, <2>2
<1>6. \A i \in K : Rank(K, i) \in 1 .. Cardinality(K)
  <2> SUFFICES ASSUME NEW i \in K PROVE Rank(K, i) \in 1 .. Cardinality(K)
    OBVIOUS
  <2>1. Rank(K, i) \in Nat /\ Rank(K, i) <= Cardinality(K) /\ Rank(K, i) >= 1
    BY <1>2, <1>3
  <2> QED
    BY <1>1, <2>1
<1> QED
  BY <1>1, <1>4, <1>5, <1>6

\* Nth is the inverse of the rank.
LEMMA NthFacts ==
  ASSUME NEW K \in SUBSET Int, IsFiniteSet(K)
  PROVE  /\ \A n \in 1 .. Cardinality(K) : Nth(K, n) \in K /\ Rank(K, Nth(K, n)) = n
         /\ \A i \in K : Nth(K, Rank(K, i)) = i
         /\ \A m, n \in 1 .. Cardinality(K) : m < n => Nth(K, m) < Nth(K, n)
<1> DEFINE c == Cardinality(K)
           M == [i \in K |-> Rank(K, i)]
<1>1. c \in Nat /\ IsFiniteSet(1 .. c) /\ Cardinality(1 .. c) = c
  BY RankOrder, FS_Interval
<1>2. M \in Injection(K, 1 .. c)
  <2>1. M \in [K -> 1 .. c]
    BY RankOrder
  <2>2. \A i, j \in K : M[i] = M[j] => i = j
    BY RankOrder
  <2> HIDE DEF M
  <2> QED
    BY <2>1, <2>2 DEF Injection, IsInjective
<1>3. M \in Surjection(K, 1 .. c)
  BY <1>1, <1>2, FS_Injection
<1>4. \A n \in 1 .. c : \E i \in K : Rank(K, i) = n
  BY <1>3 DEF Surjection
<1>5. \A n \in 1 .. c : Nth(K, n) \in K /\ Rank(K, Nth(K, n)) = n
  BY <1>4 DEF Nth, Rank
<1>6. ASSUME NEW i \in K PROVE Nth(K, Rank(K, i)) = i
  <2>1. Rank(K, i) \in 1 .. c
    BY RankOrder
  <2>2. Nth(K, Rank(K, i)) \in K /\ Rank(K, Nth(K, Rank(K, i))) = Rank(K, i)
    BY <1>5, <2>1
  <2>3. \A x, y \in K : Rank(K, x) = Rank(K, y) => x = y
    BY RankOrder
  <2> QED
    BY <2>2, <2>3, Zenon
<1>7. ASSUME NEW m \in 1 .. c, NEW n \in 1 .. c, m < n PROVE Nth(K, m) < Nth(K, n)
  <2> DEFINE i == Nth(K, m)
             j == Nth(K, n)
  <2>1. i \in K /\ j \in K /\ Rank(K, i) = m /\ Rank(K, j) = n
    BY <1>5
  <2> HIDE DEF i, j
  <2>2. i # j /\ ~ (j < i)
    <3>1. i # j
      BY <2>1, <1>7
    <3>2. j < i => Rank(K, j) < Rank(K, i)
      BY <2>1, RankOrder
    <3>3. ~ (n < m)
      BY <1>1, <1>7
    <3> QED
      BY <2>1, <3>1, <3>2, <3>3
  <2>3. i \in Int /\ j \in Int
    BY <2>1
  <2>4. i < j
    BY <2>2, <2>3
  <2> QED
    BY <2>4 DEF i, j
<1> QED
  BY <1>5, <1>6, <1>7

-----------------------------------------------------------------------------
(* Deleting states.                                                        *)

\* A state that stays gets its rank among those that stay as its number.
LEMMA NewIdFacts ==
  ASSUME NEW f, IsVectorFst(f), NEW d \in SUBSET States(f)
  PROVE  LET K == States(f) \ d
             newid == NewIds(f, d)
         IN  /\ K \in SUBSET Int /\ IsFiniteSet(K)
             /\ NumStates(f) - Cardinality(d) = Cardinality(K)
             /\ \A s \in d : newid[s] = kNoStateId
             /\ \A s \in K : newid[s] = Rank(K, s) - 1
<1> DEFINE N == NumStates(f)
           K == States(f) \ d
           newid == NewIds(f, d)
<1>1. /\ N \in Nat /\ States(f) = 0 .. N - 1
      /\ IsFiniteSet(States(f)) /\ Cardinality(States(f)) = N
  <2>1. N \in Nat /\ States(f) = 0 .. N - 1
    BY MachineFacts
  <2> HIDE DEF N
  <2> QED
    BY <2>1, FS_Interval
<1>2. K \in SUBSET Int
  BY <1>1
<1>3. IsFiniteSet(K) /\ Cardinality(K) = N - Cardinality(d)
  <2>1. States(f) \cap d = d
    OBVIOUS
  <2>2. /\ IsFiniteSet(States(f) \ d)
        /\ Cardinality(States(f) \ d) =
             Cardinality(States(f)) - Cardinality(States(f) \cap d)
    BY <1>1, FS_Difference, Zenon
  <2> QED
    BY <1>1, <2>1, <2>2
<1>4. \A s \in d : newid[s] = kNoStateId
  BY DEF NewIds
<1>5. ASSUME NEW s \in K PROVE newid[s] = Rank(K, s) - 1
  <2> DEFINE A == {k \in K : k < s}
             B == {x \in d : x < s}
  <2>1. newid[s] = s - Cardinality(B)
    BY DEF NewIds
  <2>2. s \in 0 .. N - 1 /\ s \in Nat
    BY <1>1
  <2>3. A \cup B = 0 .. s - 1 /\ A \cap B = {}
    <3>1. K \cup d = 0 .. N - 1 /\ K \cap d = {}
      BY <1>1
    <3> HIDE DEF K
    <3>2. \A x : x \in A \cup B <=> x \in 0 .. N - 1 /\ x < s
      BY <3>1
    <3>3. \A x : x \in 0 .. s - 1 <=> x \in 0 .. N - 1 /\ x < s
      BY <1>1, <2>2
    <3>4. A \cap B = {}
      BY <3>1
    <3> QED
      BY <3>2, <3>3, <3>4
  <2>4. IsFiniteSet(d)
    BY <1>1, FS_Subset
  <2>5. IsFiniteSet(A) /\ IsFiniteSet(B)
    <3>1. A \in SUBSET K /\ B \in SUBSET d
      OBVIOUS
    <3> HIDE DEF A, B, K
    <3> QED
      BY <3>1, <1>3, <2>4, FS_Subset
  <2>6. Cardinality(0 .. s - 1) = s
    BY <2>2, FS_Interval
  <2>7. {k \in K : k <= s} = A \cup {s} /\ s \notin A
    BY <1>2, <2>2
  <2> HIDE DEF A, B, K, newid
  <2>8. Cardinality(A) \in Nat /\ Cardinality(B) \in Nat
    BY <2>5, FS_CardinalityType
  <2>9. Cardinality(A \cup B) = Cardinality(A) + Cardinality(B)
    <3>1. Cardinality(A \cup B) = Cardinality(A) + Cardinality(B) - Cardinality(A \cap B)
      BY <2>5, FS_Union
    <3>2. Cardinality(A \cap B) = 0
      BY <2>3, FS_EmptySet, Zenon
    <3> QED
      BY <3>1, <3>2, <2>8
  <2>10. Rank(K, s) = Cardinality(A) + 1
    <3>1. Cardinality(A \cup {s}) = Cardinality(A) + 1
      BY <2>5, <2>7, FS_AddElement, Zenon
    <3> QED
      BY <3>1, <2>7 DEF Rank
  <2>11. s = Cardinality(A) + Cardinality(B)
    BY <2>3, <2>6, <2>9
  <2> QED
    BY <2>1, <2>8, <2>10, <2>11
<1> QED
  BY <1>2, <1>3, <1>4, <1>5

\* The arcs of a state that stays: those to states that stay, renumbered by newid,
\* whose inverse is h.
LEMMA StateRetargetFacts ==
  ASSUME NEW N \in Nat, NEW n \in Nat, NEW newid, NEW h, NEW K \in SUBSET (0 .. N - 1),
         \A s \in (0 .. N - 1) \ K : newid[s] = kNoStateId,
         \A s \in K : newid[s] \in 0 .. n - 1 /\ h[newid[s]] = s,
         NEW st \in StateType(N), Counted(st)
  PROVE  LET r == StateRetarget(st, newid)
         IN  /\ r \in StateType(n) /\ Counted(r) /\ r.final = st.final
             /\ SomeArcs(st.arcs, r.arcs, 0 .. n - 1, h)
<1> DEFINE q == st.arcs
           I == {i \in DOMAIN q : newid[q[i].nextstate] # kNoStateId}
           J == DOMAIN q \ I
           c == Cardinality(I)
           p == [m \in 1 .. c |-> [q[Nth(I, m)] EXCEPT !.nextstate = newid[@]]]
           ni == st.niepsilons - Cardinality(IEpsilonsAt(q, J))
           no == st.noepsilons - Cardinality(OEpsilonsAt(q, J))
           r == StateRetarget(st, newid)
<1>1. /\ st.final \in Weights /\ q \in Seq(ArcType(N))
      /\ st.niepsilons \in Int /\ st.noepsilons \in Int
      /\ st = [final |-> st.final, arcs |-> q,
               niepsilons |-> st.niepsilons, noepsilons |-> st.noepsilons]
  BY DEF StateType
<1>2. /\ st.niepsilons = Cardinality(IEpsilonsAt(q, DOMAIN q))
      /\ st.noepsilons = Cardinality(OEpsilonsAt(q, DOMAIN q))
  BY DEF Counted
<1>3. r = [st EXCEPT !.arcs = p, !.niepsilons = ni, !.noepsilons = no]
  BY Zenon DEF StateRetarget
<1> HIDE DEF q, r
<1>4. /\ Len(q) \in Nat /\ DOMAIN q = 1 .. Len(q)
      /\ \A i \in DOMAIN q : q[i] \in ArcType(N)
  BY <1>1
<1>5. \A a \in ArcType(N) : a.nextstate \in 0 .. N - 1
  BY DEF ArcType
<1>6. kNoStateId \notin 0 .. n - 1
  BY DEF kNoStateId
<1>7. \A i \in I : /\ q[i] \in ArcType(N) /\ q[i].nextstate \in K
                   /\ newid[q[i].nextstate] \in 0 .. n - 1
                   /\ h[newid[q[i].nextstate]] = q[i].nextstate
  BY <1>4, <1>5
<1>8. I \in SUBSET Int /\ IsFiniteSet(I) /\ IsFiniteSet(J)
      /\ I \cap J = {} /\ I \cup J = DOMAIN q
  <2>1. I \in SUBSET (1 .. Len(q)) /\ J \in SUBSET (1 .. Len(q))
    BY <1>4
  <2>2. IsFiniteSet(1 .. Len(q))
    BY <1>4, FS_Interval
  <2>3. I \cap J = {} /\ I \cup J = DOMAIN q
    OBVIOUS
  <2> HIDE DEF I, J
  <2>4. IsFiniteSet(I) /\ IsFiniteSet(J)
    BY <2>1, <2>2, FS_Subset
  <2>5. I \in SUBSET Int
    BY <2>1
  <2> QED
    BY <2>3, <2>4, <2>5
<1> HIDE DEF I, J
<1>9. /\ c \in Nat
      /\ \A m \in 1 .. c : Nth(I, m) \in I
      /\ \A m, x \in 1 .. c : m < x => Nth(I, m) < Nth(I, x)
      /\ \A i \in I : Rank(I, i) \in 1 .. c /\ Nth(I, Rank(I, i)) = i
      /\ \A m \in 1 .. c : Rank(I, Nth(I, m)) = m
  BY <1>8, RankOrder, NthFacts
<1> HIDE DEF c
<1>10. ASSUME NEW m \in 1 .. c
       PROVE  /\ p[m] \in ArcType(n)
              /\ p[m].ilabel = q[Nth(I, m)].ilabel
              /\ p[m].olabel = q[Nth(I, m)].olabel
              /\ p[m].weight = q[Nth(I, m)].weight
              /\ p[m].nextstate \in 0 .. n - 1
              /\ h[p[m].nextstate] = q[Nth(I, m)].nextstate
  <2> DEFINE a == q[Nth(I, m)]
  <2>1. /\ a \in ArcType(N) /\ newid[a.nextstate] \in 0 .. n - 1
        /\ h[newid[a.nextstate]] = a.nextstate
    BY <1>7, <1>9
  <2>2. p[m] = [a EXCEPT !.nextstate = newid[a.nextstate]]
    OBVIOUS
  <2> HIDE DEF a, p
  <2> DEFINE t == newid[a.nextstate]
  <2> HIDE DEF t
  <2>3. p[m] = [a EXCEPT !.nextstate = t]
    BY <2>2 DEF t
  <2>4. t \in 0 .. n - 1 /\ h[t] = a.nextstate
    BY <2>1 DEF t
  <2>5. /\ a = [ilabel |-> a.ilabel, olabel |-> a.olabel, weight |-> a.weight,
                nextstate |-> a.nextstate]
        /\ a.ilabel \in Nat /\ a.olabel \in Nat /\ a.weight \in Weights
    BY <2>1 DEF ArcType
  <2>6. p[m] = [ilabel |-> a.ilabel, olabel |-> a.olabel, weight |-> a.weight,
                nextstate |-> t]
    BY <2>3, <2>5
  <2>7. p[m] \in ArcType(n)
    BY <2>4, <2>5, <2>6 DEF ArcType
  <2>8. /\ p[m].ilabel = a.ilabel /\ p[m].olabel = a.olabel /\ p[m].weight = a.weight
        /\ p[m].nextstate = t
    BY <2>6
  <2> QED
    BY <2>4, <2>7, <2>8 DEF a
<1>11. p \in Seq(ArcType(n)) /\ Len(p) = c /\ DOMAIN p = 1 .. c
  <2>1. p = [m \in 1 .. c |-> p[m]]
    OBVIOUS
  <2> HIDE DEF p
  <2>2. p \in [1 .. c -> ArcType(n)]
    BY <2>1, <1>10
  <2> QED
    BY <2>2, <1>9
<1> HIDE DEF p
<1>12. SomeArcs(q, p, 0 .. n - 1, h)
  <2> DEFINE k == [m \in 1 .. c |-> Nth(I, m)]
  <2>1. k \in [DOMAIN p -> DOMAIN q]
    BY <1>8, <1>9, <1>11
  <2>2. \A x, y \in DOMAIN p : x < y => k[x] < k[y]
    BY <1>9, <1>11
  <2>3. \A m \in DOMAIN p : SameArc(q[k[m]], p[m], 0 .. n - 1, h)
    <3> SUFFICES ASSUME NEW m \in 1 .. c PROVE SameArc(q[k[m]], p[m], 0 .. n - 1, h)
      BY <1>11
    <3>1. k[m] = Nth(I, m)
      OBVIOUS
    <3> QED
      BY <3>1, <1>10, Zenon DEF SameArc
  <2> HIDE DEF k
  <2> QED
    BY <2>1, <2>2, <2>3 DEF SomeArcs
<1>13. /\ Cardinality(IEpsilonsAt(p, 1 .. c)) = Cardinality(IEpsilonsAt(q, I))
       /\ Cardinality(OEpsilonsAt(p, 1 .. c)) = Cardinality(OEpsilonsAt(q, I))
  <2>1. ASSUME NEW X \in SUBSET (1 .. c), NEW Y \in SUBSET I,
               \A m \in 1 .. c : m \in X <=> Nth(I, m) \in Y
        PROVE  Cardinality(X) = Cardinality(Y)
    <3> DEFINE k == [m \in X |-> Nth(I, m)]
    <3>1. k \in [X -> Y]
      BY <2>1
    <3>2. \A x, y \in X : k[x] = k[y] => x = y
      <4> SUFFICES ASSUME NEW x \in X, NEW y \in X, Nth(I, x) = Nth(I, y) PROVE x = y
        OBVIOUS
      <4>1. Rank(I, Nth(I, x)) = x /\ Rank(I, Nth(I, y)) = y
        BY <1>9
      <4> QED
        BY <4>1
    <3>3. \A y \in Y : \E x \in X : k[x] = y
      <4> SUFFICES ASSUME NEW y \in Y PROVE \E x \in X : k[x] = y
        OBVIOUS
      <4>1. Rank(I, y) \in 1 .. c /\ Nth(I, Rank(I, y)) = y
        BY <1>9
      <4>2. Rank(I, y) \in X
        BY <4>1, <2>1
      <4> QED
        BY <4>1, <4>2
    <3> HIDE DEF k
    <3>4. k \in Injection(X, Y) /\ k \in Surjection(X, Y)
      BY <3>1, <3>2, <3>3 DEF Injection, IsInjective, Surjection
    <3>5. ExistsBijection(X, Y)
      BY <3>4 DEF ExistsBijection, Bijection
    <3>6. IsFiniteSet(1 .. c)
      BY <1>9, FS_Interval
    <3>7. IsFiniteSet(X)
      BY <3>6, FS_Subset
    <3> QED
      BY <3>5, <3>7, FS_Bijection
  <2>2. /\ IEpsilonsAt(p, 1 .. c) \in SUBSET (1 .. c) /\ IEpsilonsAt(q, I) \in SUBSET I
        /\ OEpsilonsAt(p, 1 .. c) \in SUBSET (1 .. c) /\ OEpsilonsAt(q, I) \in SUBSET I
    BY DEF IEpsilonsAt, OEpsilonsAt
  <2>3. \A m \in 1 .. c : /\ m \in IEpsilonsAt(p, 1 .. c) <=> Nth(I, m) \in IEpsilonsAt(q, I)
                          /\ m \in OEpsilonsAt(p, 1 .. c) <=> Nth(I, m) \in OEpsilonsAt(q, I)
    BY <1>9, <1>10 DEF IEpsilonsAt, OEpsilonsAt
  <2> QED
    BY <2>1, <2>2, <2>3
<1>14. /\ ni = Cardinality(IEpsilonsAt(q, I)) /\ ni \in Nat
       /\ no = Cardinality(OEpsilonsAt(q, I)) /\ no \in Nat
  <2>1. /\ Cardinality(IEpsilonsAt(q, I)) \in Nat
        /\ Cardinality(IEpsilonsAt(q, J)) \in Nat
        /\ Cardinality(OEpsilonsAt(q, I)) \in Nat
        /\ Cardinality(OEpsilonsAt(q, J)) \in Nat
        /\ Cardinality(IEpsilonsAt(q, DOMAIN q)) =
             Cardinality(IEpsilonsAt(q, I)) + Cardinality(IEpsilonsAt(q, J))
        /\ Cardinality(OEpsilonsAt(q, DOMAIN q)) =
             Cardinality(OEpsilonsAt(q, I)) + Cardinality(OEpsilonsAt(q, J))
    <3>1. DOMAIN q = I \cup J
      BY <1>8
    <3>2. IsFiniteSet(I) /\ IsFiniteSet(J) /\ I \cap J = {}
      BY <1>8
    <3>3. /\ Cardinality(IEpsilonsAt(q, I)) \in Nat
          /\ Cardinality(IEpsilonsAt(q, J)) \in Nat
          /\ Cardinality(OEpsilonsAt(q, I)) \in Nat
          /\ Cardinality(OEpsilonsAt(q, J)) \in Nat
          /\ Cardinality(IEpsilonsAt(q, I \cup J)) =
               Cardinality(IEpsilonsAt(q, I)) + Cardinality(IEpsilonsAt(q, J))
          /\ Cardinality(OEpsilonsAt(q, I \cup J)) =
               Cardinality(OEpsilonsAt(q, I)) + Cardinality(OEpsilonsAt(q, J))
      BY <3>2, EpsilonsSplit
    <3> QED
      BY <3>1, <3>3
  <2> QED
    BY <2>1, <1>2
<1> HIDE DEF ni, no
<1>15. r = [final |-> st.final, arcs |-> p, niepsilons |-> ni, noepsilons |-> no]
  BY <1>1, <1>3
<1>16. r.final = st.final /\ r.arcs = p /\ r.niepsilons = ni /\ r.noepsilons = no
  BY <1>15
<1>17. r \in StateType(n)
  BY <1>1, <1>11, <1>14, <1>15 DEF StateType
<1>18. Counted(r)
  BY <1>11, <1>13, <1>14, <1>16 DEF Counted
<1> QED
  BY <1>12, <1>16, <1>17, <1>18 DEF r, q

LEMMA DeleteStatesMachine ==
  ASSUME NEW f, IsVectorFst(f), NEW d \in SUBSET States(f), d # {}
  PROVE  LET g == DeleteStates(f, d)
         IN  /\ IsVectorFst(g)
             /\ g.props = StoreProperties(f.props, DeleteStatesProperties(f.props))
             /\ \E h : /\ Embeds(f, g, States(g), h)
                       /\ \A t \in States(g) : g.states[t].final = f.states[h[t]].final
                       /\ g.start # kNoStateId => /\ g.start \in States(g)
                                                  /\ f.start = h[g.start]
                                                  /\ f.start # kNoStateId
<1> DEFINE g == DeleteStates(f, d)
           N == NumStates(f)
           K == States(f) \ d
           n == N - Cardinality(d)
           newid == NewIds(f, d)
           h == [t \in 0 .. n - 1 |-> Nth(K, t + 1)]
           OldId(t) == CHOOSE s \in States(f) : newid[s] = t
           S == IF f.start = kNoStateId THEN f.start ELSE newid[f.start]
           Q == [t \in 0 .. n - 1 |-> StateRetarget(f.states[OldId(t)], newid)]
           P == StoreProperties(f.props, DeleteStatesProperties(f.props))
<1>1. g = [start |-> S, states |-> Q, props |-> P]
  BY Zenon DEF DeleteStates
<1>2. P \in SUBSET kFstProperties
  BY MachineFacts, TrinaryBits DEF StoreProperties, DeleteStatesProperties
<1> HIDE DEF g, P
<1>3. /\ K \in SUBSET Int /\ IsFiniteSet(K) /\ n = Cardinality(K)
      /\ \A s \in d : newid[s] = kNoStateId
      /\ \A s \in K : newid[s] = Rank(K, s) - 1
  BY NewIdFacts, Zenon
<1>4. /\ N \in Nat /\ States(f) = 0 .. N - 1
      /\ f.start \in States(f) \cup {kNoStateId}
  BY MachineFacts
<1>5. K \in SUBSET (0 .. N - 1) /\ (0 .. N - 1) \ K = d /\ K \subseteq States(f)
      /\ States(f) = K \cup d
  BY <1>4
<1> HIDE DEF K, newid, n, N
<1>6. /\ n \in Nat
      /\ \A m \in 1 .. n : Nth(K, m) \in K /\ Rank(K, Nth(K, m)) = m
      /\ \A i \in K : Rank(K, i) \in 1 .. n /\ Nth(K, Rank(K, i)) = i
      /\ \A m, x \in 1 .. n : m < x => Nth(K, m) < Nth(K, x)
  BY <1>3, RankOrder, NthFacts
<1>7. ASSUME NEW s \in K
      PROVE  newid[s] \in 0 .. n - 1 /\ h[newid[s]] = s
  <2>1. newid[s] = Rank(K, s) - 1 /\ Rank(K, s) \in 1 .. n /\ Nth(K, Rank(K, s)) = s
    BY <1>3, <1>6
  <2>2. newid[s] \in 0 .. n - 1 /\ newid[s] + 1 = Rank(K, s)
    BY <2>1, <1>6
  <2>3. h[newid[s]] = Nth(K, newid[s] + 1)
    BY <2>2
  <2> QED
    BY <2>1, <2>2, <2>3
<1>8. ASSUME NEW t \in 0 .. n - 1
      PROVE  h[t] \in K /\ newid[h[t]] = t
  <2>1. t + 1 \in 1 .. n /\ h[t] = Nth(K, t + 1) /\ t \in Int
    BY <1>6
  <2> HIDE DEF h
  <2>2. h[t] \in K /\ Rank(K, h[t]) = t + 1
    BY <2>1, <1>6
  <2>3. newid[h[t]] = Rank(K, h[t]) - 1
    BY <2>2, <1>3
  <2> QED
    BY <2>1, <2>2, <2>3
<1>9. \A u, t \in 0 .. n - 1 : u < t => h[u] < h[t]
  <2> SUFFICES ASSUME NEW u \in 0 .. n - 1, NEW t \in 0 .. n - 1, u < t
               PROVE  h[u] < h[t]
    OBVIOUS
  <2>1. u + 1 \in 1 .. n /\ t + 1 \in 1 .. n /\ u + 1 < t + 1
    BY <1>6
  <2>2. h[u] = Nth(K, u + 1) /\ h[t] = Nth(K, t + 1)
    OBVIOUS
  <2> QED
    BY <2>1, <2>2, <1>6
<1>10. h \in [0 .. n - 1 -> States(f)]
  <2>1. h = [t \in 0 .. n - 1 |-> h[t]]
    OBVIOUS
  <2> HIDE DEF h
  <2> QED
    BY <2>1, <1>5, <1>8
<1> HIDE DEF h
<1>11. ASSUME NEW t \in 0 .. n - 1 PROVE OldId(t) = h[t]
  <2>1. h[t] \in States(f) /\ newid[h[t]] = t
    BY <1>5, <1>8
  <2>2. OldId(t) \in States(f) /\ newid[OldId(t)] = t
    BY <2>1
  <2> HIDE DEF OldId
  <2>3. t # kNoStateId
    BY DEF kNoStateId
  <2>4. OldId(t) \in K
    BY <2>2, <2>3, <1>3, <1>5
  <2> QED
    BY <2>2, <2>4, <1>7
<1>12. ASSUME NEW t \in 0 .. n - 1
       PROVE  /\ Q[t] \in StateType(n) /\ Counted(Q[t])
              /\ Q[t].final = f.states[h[t]].final
              /\ SomeArcs(f.states[h[t]].arcs, Q[t].arcs, 0 .. n - 1, h)
  <2> DEFINE st == f.states[h[t]]
  <2>1. Q[t] = StateRetarget(st, newid)
    <3>1. Q[t] = StateRetarget(f.states[OldId(t)], newid)
      OBVIOUS
    <3> QED
      BY <3>1, <1>11, Zenon
  <2>2. st \in StateType(N) /\ Counted(st)
    BY <1>5, <1>8, StateFacts DEF N
  <2> HIDE DEF st, Q
  <2>3. \A s \in (0 .. N - 1) \ K : newid[s] = kNoStateId
    BY <1>3, <1>5
  <2>4. \A s \in K : newid[s] \in 0 .. n - 1 /\ h[newid[s]] = s
    BY <1>7
  <2>5. LET r == StateRetarget(st, newid)
        IN  /\ r \in StateType(n) /\ Counted(r) /\ r.final = st.final
            /\ SomeArcs(st.arcs, r.arcs, 0 .. n - 1, h)
    BY <1>4, <1>5, <1>6, <2>2, <2>3, <2>4, StateRetargetFacts, Zenon
  <2> QED
    BY <2>1, <2>5, Zenon DEF st
<1>13. Q \in [0 .. n - 1 -> StateType(n)]
  <2>1. Q = [t \in 0 .. n - 1 |-> Q[t]]
    OBVIOUS
  <2> HIDE DEF Q
  <2> QED
    BY <2>1, <1>12
<1> HIDE DEF Q
<1>14. /\ S \in (0 .. n - 1) \cup {kNoStateId}
       /\ S # kNoStateId => /\ S \in 0 .. n - 1 /\ f.start = h[S]
                            /\ f.start # kNoStateId
  <2>1. CASE f.start = kNoStateId
    BY <2>1
  <2>2. CASE f.start \in d
    BY <2>2, <1>3
  <2>3. CASE f.start # kNoStateId /\ f.start \in K
    BY <2>3, <1>7
  <2> QED
    BY <2>1, <2>2, <2>3, <1>4, <1>5
<1> HIDE DEF S
<1>15. g.start = S /\ g.states = Q /\ g.props = P
  BY <1>1
<1>16. IsVectorFst(g) /\ States(g) = 0 .. n - 1
  <2>1. g \in [start : (0 .. n - 1) \cup {kNoStateId},
               states : [0 .. n - 1 -> StateType(n)], props : SUBSET kFstProperties]
    BY <1>1, <1>2, <1>13, <1>14
  <2>2. \A t \in 0 .. n - 1 : Counted(g.states[t])
    BY <1>12, <1>15
  <2> QED
    BY <1>6, <2>1, <2>2, MakeMachine
<1>17. Embeds(f, g, States(g), h)
  <2>1. \A t \in States(g) : SomeArcs(f.states[h[t]].arcs, g.states[t].arcs, States(g), h)
    BY <1>12, <1>15, <1>16
  <2> QED
    BY <2>1, <1>9, <1>10, <1>16 DEF Embeds
<1>18. \A t \in States(g) : g.states[t].final = f.states[h[t]].final
  BY <1>12, <1>15, <1>16
<1>19. g.start # kNoStateId => /\ g.start \in States(g) /\ f.start = h[g.start]
                               /\ f.start # kNoStateId
  BY <1>14, <1>15, <1>16
<1> QED
  BY <1>15, <1>16, <1>17, <1>18, <1>19, Zenon DEF g, P

LEMMA DeleteStatesSound ==
  ASSUME NEW f, IsVectorFst(f), Sound(f), NEW d \in SUBSET States(f)
  PROVE  IsVectorFst(DeleteStates(f, d)) /\ Sound(DeleteStates(f, d))
<1> DEFINE g == DeleteStates(f, d)
<1>1. CASE d = {}
  BY <1>1 DEF DeleteStates
<1>2. CASE d # {}
  <2>1. /\ IsVectorFst(g)
        /\ g.props = StoreProperties(f.props, DeleteStatesProperties(f.props))
        /\ \E h : /\ Embeds(f, g, States(g), h)
                  /\ \A t \in States(g) : g.states[t].final = f.states[h[t]].final
                  /\ g.start # kNoStateId => /\ g.start \in States(g)
                                             /\ f.start = h[g.start]
                                             /\ f.start # kNoStateId
    BY <1>2, DeleteStatesMachine, Zenon
  <2> HIDE DEF g
  <2>2. PICK h : /\ Embeds(f, g, States(g), h)
                 /\ \A t \in States(g) : g.states[t].final = f.states[h[t]].final
                 /\ g.start # kNoStateId => /\ g.start \in States(g)
                                            /\ f.start = h[g.start]
                                            /\ f.start # kNoStateId
    BY <2>1
  <2>3. ASSUME NEW b \in g.props, b \in kTrinaryProperties PROVE b \in Truth(g)
    <3>1. /\ b \in Truth(f)
          /\ b \in { "Acceptor", "IDeterministic", "ODeterministic", "NoEpsilons",
                     "NoIEpsilons", "NoOEpsilons", "ILabelSorted", "OLabelSorted",
                     "Unweighted", "Acyclic", "InitialAcyclic", "TopSorted",
                     "UnweightedCycles" }
      BY <2>1, <2>3, TrinaryBits
         DEF StoreProperties, DeleteStatesProperties, kDeleteStatesProperties,
             kSetArcProperties, kNullProperties, Sound
    <3>2. /\ IsAcceptor(f) => IsAcceptor(g)
          /\ HasNoEpsilons(f) => HasNoEpsilons(g)
          /\ HasNoIEpsilons(f) => HasNoIEpsilons(g)
          /\ HasNoOEpsilons(f) => HasNoOEpsilons(g)
          /\ HasTrivialArcs(f) => HasTrivialArcs(g)
      BY <2>1, <2>2, EmbeddedLabels
    <3>3. /\ IsIDeterministic(f) => IsIDeterministic(g)
          /\ IsODeterministic(f) => IsODeterministic(g)
          /\ IsILabelSorted(f) => IsILabelSorted(g)
          /\ IsOLabelSorted(f) => IsOLabelSorted(g)
      BY <2>1, <2>2, EmbeddedLists
    <3>4. /\ \A s \in States(g) : OnCycle(g, s) => OnCycle(f, h[s])
          /\ IsAcyclic(f) => IsAcyclic(g)
          /\ HasTrivialCycles(f) => HasTrivialCycles(g)
          /\ IsTopSorted(f) => IsTopSorted(g)
      BY <2>1, <2>2, EmbeddedCycles
    <3>5. HasTrivialFinals(f) => HasTrivialFinals(g)
      <4>1. \A t \in States(g) : h[t] \in States(f)
        BY <2>2 DEF Embeds
      <4> QED
        BY <2>2, <4>1 DEF HasTrivialFinals
    <3>6. IsInitialCyclic(g) => IsInitialCyclic(f)
      BY <2>2, <3>4 DEF IsInitialCyclic
    <3> QED
      BY <3>1, <3>2, <3>3, <3>4, <3>5, <3>6, LabelBits, ListBits, OrderBits, CycleBits
  <2>4. Sound(g)
    BY <2>3 DEF Sound
  <2> QED
    BY <2>1, <2>4 DEF g
<1> QED
  BY <1>1, <1>2

\* Of a machine without states the null properties are true.
LEMMA EmptySound ==
  ASSUME NEW P \in SUBSET kFstProperties,
         P \cap kTrinaryProperties = kNullProperties
  PROVE  LET g == [start |-> kNoStateId, states |-> <<>>, props |-> P]
         IN  IsVectorFst(g) /\ Sound(g)
<1> DEFINE g == [start |-> kNoStateId, states |-> <<>>, props |-> P]
<1>1. g.start = kNoStateId /\ g.states = <<>> /\ g.props = P
  OBVIOUS
<1>2. IsVectorFst(g) /\ States(g) = {}
  <2>1. 0 .. 0 - 1 = {}
    OBVIOUS
  <2>2. <<>> \in [{} -> StateType(0)]
    OBVIOUS
  <2>3. g \in [start : (0 .. 0 - 1) \cup {kNoStateId},
               states : [0 .. 0 - 1 -> StateType(0)], props : SUBSET kFstProperties]
    BY <2>1, <2>2
  <2>4. \A s \in 0 .. 0 - 1 : Counted(g.states[s])
    BY <2>1
  <2> HIDE DEF g
  <2> QED
    BY <2>1, <2>3, <2>4, MakeMachine
<1> HIDE DEF g
<1>3. /\ IsAcceptor(g) /\ HasNoEpsilons(g) /\ HasNoIEpsilons(g) /\ HasNoOEpsilons(g)
      /\ HasTrivialArcs(g) /\ HasTrivialFinals(g) /\ IsIDeterministic(g)
      /\ IsODeterministic(g) /\ IsILabelSorted(g) /\ IsOLabelSorted(g)
      /\ IsTopSorted(g) /\ IsAcyclic(g) /\ HasTrivialCycles(g)
      /\ IsAccessible(g) /\ IsCoAccessible(g)
  BY <1>2 DEF IsAcceptor, HasNoEpsilons, HasNoIEpsilons, HasNoOEpsilons, HasTrivialArcs,
       HasTrivialFinals, IsIDeterministic, IsODeterministic, IsILabelSorted,
       IsOLabelSorted, IsTopSorted, IsAcyclic, HasTrivialCycles, IsAccessible,
       IsCoAccessible
<1>4. IsString(g) /\ ~ IsInitialCyclic(g)
  BY <1>1, <1>2 DEF IsString, EachArc, EachState, IsInitialCyclic
<1>5. ASSUME NEW b \in kNullProperties PROVE b \in Truth(g)
  BY <1>3, <1>4, LabelBits, ListBits, OrderBits, CycleBits DEF kNullProperties
<1>6. Sound(g)
  BY <1>1, <1>5 DEF Sound
<1> QED
  BY <1>2, <1>6 DEF g

LEMMA DeleteAllStatesSound ==
  ASSUME NEW f, IsVectorFst(f)
  PROVE  IsVectorFst(DeleteAllStates(f)) /\ Sound(DeleteAllStates(f))
<1> DEFINE P == StoreProperties(f.props, DeleteAllStatesProperties(f.props, kStaticProperties))
<1>1. DeleteAllStates(f) = [start |-> kNoStateId, states |-> <<>>, props |-> P]
  BY DEF DeleteAllStates
<1>2. P \subseteq kFstProperties /\ P \cap kTrinaryProperties = kNullProperties
  BY MachineFacts, TrinaryBits
     DEF StoreProperties, DeleteAllStatesProperties, kStaticProperties, kNullProperties
<1> QED
  BY <1>1, <1>2, EmptySound

-----------------------------------------------------------------------------
(* ComputeProperties: what the pass over states and arcs refutes.          *)

\* The pairs of the arc at position i of s, one disjunct for each test.
ArcTest(A, f, s, i, junk, x, y) ==
  LET q == f.states[s].arcs
  IN  \/ x = "NotAcceptor" /\ y = "Acceptor" /\ q[i].ilabel # q[i].olabel
      \/ x = "IEpsilons" /\ y = "NoIEpsilons" /\ q[i].ilabel = 0
      \/ x = "OEpsilons" /\ y = "NoOEpsilons" /\ q[i].olabel = 0
      \/ x = "Epsilons" /\ y = "NoEpsilons" /\ q[i].ilabel = 0 /\ q[i].olabel = 0
      \/ x = "Weighted" /\ y = "Unweighted" /\ Nontrivial(q[i].weight)
      \/ /\ x = "NonIDeterministic" /\ y = "IDeterministic" /\ "IDeterministic" \in A
         /\ \E j \in 1 .. i - 1 : q[j].ilabel = q[i].ilabel
      \/ /\ x = "NonODeterministic" /\ y = "ODeterministic" /\ "ODeterministic" \in A
         /\ \E j \in 1 .. i - 1 : q[j].olabel = q[i].olabel
      \/ /\ x = "NotILabelSorted" /\ y = "ILabelSorted"
         /\ i > 1 /\ q[i].ilabel < q[i - 1].ilabel
      \/ /\ x = "NotOLabelSorted" /\ y = "OLabelSorted"
         /\ i > 1 /\ q[i].olabel < q[i - 1].olabel
      \/ /\ x = "WeightedCycles" /\ y = "UnweightedCycles" /\ "UnweightedCycles" \in A
         /\ Nontrivial(q[i].weight) /\ SameScc(f, s, q[i].nextstate, junk)
      \/ x = "NotTopSorted" /\ y = "TopSorted" /\ q[i].nextstate <= s
      \/ x = "NotString" /\ y = "String" /\ q[i].nextstate # s + 1

LEMMA ArcRefutesPairs ==
  ASSUME NEW A, NEW f, NEW s, NEW i, NEW junk
  PROVE  /\ \A p \in ArcRefutes(A, f, s, i, junk) : p = <<p[1], p[2]>>
         /\ \A x, y : <<x, y>> \in ArcRefutes(A, f, s, i, junk) <=>
                        ArcTest(A, f, s, i, junk, x, y)
<1>1. \A p \in ArcRefutes(A, f, s, i, junk) : p = <<p[1], p[2]>>
  BY SMTT(40) DEF ArcRefutes, ArcPairs, If, ILabel, OLabel
<1>2. \A x, y : <<x, y>> \in ArcRefutes(A, f, s, i, junk) <=>
                  ArcTest(A, f, s, i, junk, x, y)
  BY SMTT(40) DEF ArcRefutes, ArcPairs, If, ILabel, OLabel, ArcTest
<1> QED
  BY <1>1, <1>2

LEMMA StateRefutesPairs ==
  ASSUME NEW f, NEW s
  PROVE  LET R == StateRefutes(f, s)
         IN  /\ \A p \in R : p = <<p[1], p[2]>>
             /\ \A x, y : <<x, y>> \in R <=>
                  \/ x = "Weighted" /\ y = "Unweighted" /\ Nontrivial(f.states[s].final)
                  \/ /\ x = "NotString" /\ y = "String"
                     /\ \/ \E t \in 0 .. s - 1 : IsFinal(f, t)
                        \/ ~ IsFinal(f, s) /\ Len(f.states[s].arcs) # 1
BY DEF StateRefutes, If

LEMMA RefutedPairs ==
  ASSUME NEW f, NEW A, NEW junk
  PROVE  LET R == Refuted(f, A, junk)
         IN  /\ \A p \in R : p = <<p[1], p[2]>>
             /\ \A x, y : <<x, y>> \in R <=>
                  \/ \E s \in States(f) : <<x, y>> \in StateRefutes(f, s)
                  \/ \E s \in States(f) : \E i \in DOMAIN f.states[s].arcs :
                       <<x, y>> \in ArcRefutes(A, f, s, i, junk)
                  \/ x = "NotString" /\ y = "String" /\ f.start \notin {kNoStateId, 0}
<1> DEFINE R == Refuted(f, A, junk)
<1>1. \A p : p \in R <=>
        \/ \E s \in States(f) : p \in StateRefutes(f, s)
        \/ \E s \in States(f) : \E i \in DOMAIN f.states[s].arcs :
             p \in ArcRefutes(A, f, s, i, junk)
        \/ p = <<"NotString", "String">> /\ f.start \notin {kNoStateId, 0}
  <2> DEFINE B(s) == UNION {ArcRefutes(A, f, s, i, junk) : i \in DOMAIN f.states[s].arcs}
             U == UNION {StateRefutes(f, s) : s \in States(f)}
             V == UNION {B(s) : s \in States(f)}
             W == If(f.start \notin {kNoStateId, 0}, {<<"NotString", "String">>})
  <2>1. \A s, p : p \in B(s) <=> \E i \in DOMAIN f.states[s].arcs :
                                   p \in ArcRefutes(A, f, s, i, junk)
    OBVIOUS
  <2>2. R = U \cup V \cup W
    BY DEF Refuted
  <2> HIDE DEF B, R
  <2>3. \A p : /\ p \in U <=> \E s \in States(f) : p \in StateRefutes(f, s)
               /\ p \in V <=> \E s \in States(f) : p \in B(s)
               /\ p \in W <=> /\ p = <<"NotString", "String">>
                              /\ f.start \notin {kNoStateId, 0}
    BY DEF If
  <2> HIDE DEF U, V, W
  <2> QED
    BY <2>1, <2>2, <2>3
<1> HIDE DEF R
<1>2. ASSUME NEW p \in R PROVE p = <<p[1], p[2]>>
  <2>1. ASSUME NEW s \in States(f), p \in StateRefutes(f, s) PROVE p = <<p[1], p[2]>>
    BY <2>1, StateRefutesPairs, Zenon
  <2>2. ASSUME NEW s \in States(f), NEW i \in DOMAIN f.states[s].arcs,
               p \in ArcRefutes(A, f, s, i, junk)
        PROVE  p = <<p[1], p[2]>>
    BY <2>2, ArcRefutesPairs, Zenon
  <2> QED
    BY <1>1, <2>1, <2>2
<1> QED
  BY <1>1, <1>2 DEF R

\* No arc sorts before its neighbour exactly when the arcs are sorted.
LEMMA NeighboursSorted ==
  ASSUME NEW n \in Nat, NEW L \in [1 .. n -> Nat],
         \A i \in 1 .. n : i > 1 => ~ (L[i] < L[i - 1])
  PROVE  \A i, j \in 1 .. n : i < j => L[i] <= L[j]
<1> DEFINE S == {k \in Nat : \A i \in 1 .. n : i + k \in 1 .. n => L[i] <= L[i + k]}
<1>1. 0 \in S
  OBVIOUS
<1>2. ASSUME NEW k \in Nat, k \in S PROVE k + 1 \in S
  <2> SUFFICES ASSUME NEW i \in 1 .. n, i + (k + 1) \in 1 .. n
               PROVE  L[i] <= L[i + (k + 1)]
    OBVIOUS
  <2>1. i + k \in 1 .. n /\ i + (k + 1) > 1 /\ (i + (k + 1)) - 1 = i + k
    OBVIOUS
  <2>2. L[i] <= L[i + k]
    BY <1>2, <2>1
  <2>3. ~ (L[i + (k + 1)] < L[i + k])
    BY <2>1
  <2>4. L[i] \in Nat /\ L[i + k] \in Nat /\ L[i + (k + 1)] \in Nat
    BY <2>1
  <2> QED
    BY <2>2, <2>3, <2>4
<1> HIDE DEF S
<1>3. Nat \subseteq S
  BY <1>1, <1>2, NatSubset
<1> TAKE i, j \in 1 .. n
<1> HAVE i < j
<1>4. j - i \in Nat /\ i + (j - i) = j
  OBVIOUS
<1> QED
  BY <1>3, <1>4 DEF S

\* The tests on neighbours and on labels seen before decide order and determinism.
LEMMA ListTests ==
  ASSUME NEW f, IsVectorFst(f), NEW s \in States(f)
  PROVE  LET q == f.states[s].arcs
         IN  /\ ~ SortedLabels(q, ILabel) <=>
                  \E i \in DOMAIN q : i > 1 /\ q[i].ilabel < q[i - 1].ilabel
             /\ ~ SortedLabels(q, OLabel) <=>
                  \E i \in DOMAIN q : i > 1 /\ q[i].olabel < q[i - 1].olabel
             /\ ~ UniqueLabels(q, ILabel) <=>
                  \E i \in DOMAIN q : \E j \in 1 .. i - 1 : q[j].ilabel = q[i].ilabel
             /\ ~ UniqueLabels(q, OLabel) <=>
                  \E i \in DOMAIN q : \E j \in 1 .. i - 1 : q[j].olabel = q[i].olabel
<1> DEFINE q == f.states[s].arcs
           n == Len(q)
           I == [i \in 1 .. n |-> q[i].ilabel]
           O == [i \in 1 .. n |-> q[i].olabel]
<1>1. n \in Nat /\ DOMAIN q = 1 .. n
  BY ArcFacts
<1>2. \A i \in 1 .. n : q[i].ilabel \in Nat /\ q[i].olabel \in Nat
  BY ArcFacts
<1> HIDE DEF q, n
<1>3. I \in [1 .. n -> Nat] /\ O \in [1 .. n -> Nat]
  BY <1>2
<1>4. /\ SortedLabels(q, ILabel) <=> \A i, j \in 1 .. n : i < j => I[i] <= I[j]
      /\ SortedLabels(q, OLabel) <=> \A i, j \in 1 .. n : i < j => O[i] <= O[j]
  BY <1>1 DEF SortedLabels, ILabel, OLabel
<1>5. /\ UniqueLabels(q, ILabel) <=> \A i, j \in 1 .. n : I[i] = I[j] => i = j
      /\ UniqueLabels(q, OLabel) <=> \A i, j \in 1 .. n : O[i] = O[j] => i = j
  BY <1>1 DEF UniqueLabels, ILabel, OLabel
<1>6. \A i \in 1 .. n : I[i] = q[i].ilabel /\ O[i] = q[i].olabel
  OBVIOUS
<1> HIDE DEF I, O
<1>7. ASSUME NEW L \in [1 .. n -> Nat]
      PROVE  (\A i, j \in 1 .. n : i < j => L[i] <= L[j]) <=>
               ~ \E i \in 1 .. n : i > 1 /\ L[i] < L[i - 1]
  <2>1. ASSUME \A i, j \in 1 .. n : i < j => L[i] <= L[j],
               NEW i \in 1 .. n, i > 1, L[i] < L[i - 1]
        PROVE  FALSE
    <3>1. i - 1 \in 1 .. n /\ i - 1 < i
      BY <1>1, <2>1
    <3>2. L[i - 1] <= L[i] /\ L[i] \in Nat /\ L[i - 1] \in Nat
      BY <2>1, <3>1
    <3> QED
      BY <2>1, <3>2
  <2> QED
    BY <1>1, <2>1, NeighboursSorted
<1>8. ASSUME NEW L \in [1 .. n -> Nat]
      PROVE  (\A i, j \in 1 .. n : L[i] = L[j] => i = j) <=>
               ~ \E i \in 1 .. n : \E j \in 1 .. i - 1 : L[j] = L[i]
  <2>1. ASSUME NEW i \in 1 .. n, NEW j \in 1 .. i - 1
        PROVE  j \in 1 .. n /\ j # i
    BY <1>1
  <2>2. ASSUME NEW i \in 1 .. n, NEW j \in 1 .. n, i # j
        PROVE  i \in 1 .. j - 1 \/ j \in 1 .. i - 1
    BY <1>1, <2>2
  <2> QED
    BY <2>1, <2>2
<1>9. \A i \in 1 .. n : i > 1 => i - 1 \in 1 .. n
  BY <1>1
<1>10. \A i \in 1 .. n : \A j \in 1 .. i - 1 : j \in 1 .. n
  BY <1>1
<1>11. /\ SortedLabels(q, ILabel) <=> ~ \E i \in 1 .. n : i > 1 /\ I[i] < I[i - 1]
       /\ SortedLabels(q, OLabel) <=> ~ \E i \in 1 .. n : i > 1 /\ O[i] < O[i - 1]
       /\ UniqueLabels(q, ILabel) <=> ~ \E i \in 1 .. n : \E j \in 1 .. i - 1 : I[j] = I[i]
       /\ UniqueLabels(q, OLabel) <=> ~ \E i \in 1 .. n : \E j \in 1 .. i - 1 : O[j] = O[i]
  BY <1>3, <1>4, <1>5, <1>7, <1>8
<1>12. /\ ~ SortedLabels(q, ILabel) <=>
            \E i \in DOMAIN q : i > 1 /\ q[i].ilabel < q[i - 1].ilabel
       /\ ~ SortedLabels(q, OLabel) <=>
            \E i \in DOMAIN q : i > 1 /\ q[i].olabel < q[i - 1].olabel
  BY <1>1, <1>6, <1>9, <1>11
<1>13. /\ ~ UniqueLabels(q, ILabel) <=>
            \E i \in DOMAIN q : \E j \in 1 .. i - 1 : q[j].ilabel = q[i].ilabel
       /\ ~ UniqueLabels(q, OLabel) <=>
            \E i \in DOMAIN q : \E j \in 1 .. i - 1 : q[j].olabel = q[i].olabel
  <2>1. \A i \in 1 .. n : \A j \in 1 .. i - 1 :
          /\ I[j] = I[i] <=> q[j].ilabel = q[i].ilabel
          /\ O[j] = O[i] <=> q[j].olabel = q[i].olabel
    BY <1>6, <1>10, Zenon
  <2> QED
    BY <1>1, <1>11, <2>1, Zenon
<1> QED
  BY <1>12, <1>13 DEF q

\* The tests on states and arcs that decide whether a machine is a string.
LEMMA StringTests ==
  ASSUME NEW f, IsVectorFst(f)
  PROVE  ~ IsString(f) <=>
           \/ f.start \notin {kNoStateId, 0}
           \/ \E s \in States(f) : \E t \in 0 .. s - 1 : IsFinal(f, t)
           \/ \E s \in States(f) : ~ IsFinal(f, s) /\ Len(f.states[s].arcs) # 1
           \/ \E s \in States(f) : \E a \in ArcsOf(f, s) : a.nextstate # s + 1
<1> DEFINE n == NumStates(f)
<1>1. n \in Nat /\ States(f) = 0 .. n - 1
  BY MachineFacts
<1>2. IsString(f) <=>
        /\ f.start \in {kNoStateId, 0}
        /\ \A s \in States(f) : \A a \in ArcsOf(f, s) : a.nextstate = s + 1
        /\ \A s \in States(f) : IsFinal(f, s) => s = n - 1
        /\ \A s \in States(f) : ~ IsFinal(f, s) => Len(f.states[s].arcs) = 1
  BY DEF IsString, EachArc, EachState
<1> HIDE DEF n
<1>3. (\A s \in States(f) : IsFinal(f, s) => s = n - 1) <=>
        ~ \E s \in States(f) : \E t \in 0 .. s - 1 : IsFinal(f, t)
  <2>1. ASSUME NEW s \in States(f), NEW t \in 0 .. s - 1
        PROVE  t \in States(f) /\ t # n - 1
    BY <1>1
  <2>2. ASSUME NEW t \in States(f), t # n - 1
        PROVE  n - 1 \in States(f) /\ t \in 0 .. (n - 1) - 1
    BY <1>1, <2>2
  <2> QED
    BY <2>1, <2>2
<1> QED
  BY <1>2, <1>3

\* The pairs of what is false of f, one disjunct for each pair of bits.
FalseOf(f, A, x, y) ==
  \/ x = "NotAcceptor" /\ y = "Acceptor" /\ ~ IsAcceptor(f)
  \/ x = "IEpsilons" /\ y = "NoIEpsilons" /\ ~ HasNoIEpsilons(f)
  \/ x = "OEpsilons" /\ y = "NoOEpsilons" /\ ~ HasNoOEpsilons(f)
  \/ x = "Epsilons" /\ y = "NoEpsilons" /\ ~ HasNoEpsilons(f)
  \/ x = "Weighted" /\ y = "Unweighted" /\ ~ (HasTrivialArcs(f) /\ HasTrivialFinals(f))
  \/ /\ x = "NonIDeterministic" /\ y = "IDeterministic"
     /\ "IDeterministic" \in A /\ ~ IsIDeterministic(f)
  \/ /\ x = "NonODeterministic" /\ y = "ODeterministic"
     /\ "ODeterministic" \in A /\ ~ IsODeterministic(f)
  \/ x = "NotILabelSorted" /\ y = "ILabelSorted" /\ ~ IsILabelSorted(f)
  \/ x = "NotOLabelSorted" /\ y = "OLabelSorted" /\ ~ IsOLabelSorted(f)
  \/ /\ x = "WeightedCycles" /\ y = "UnweightedCycles"
     /\ "UnweightedCycles" \in A /\ ~ HasTrivialCycles(f)
  \/ x = "NotTopSorted" /\ y = "TopSorted" /\ ~ IsTopSorted(f)
  \/ x = "NotString" /\ y = "String" /\ ~ IsString(f)

\* The pass refutes exactly what is false of a machine that has a start state or
\* no states at all.
LEMMA RefutedTruth ==
  ASSUME NEW f, IsVectorFst(f), Conventional(f), NEW A, NEW junk
  PROVE  \A x, y : <<x, y>> \in Refuted(f, A, junk) <=> FalseOf(f, A, x, y)
<1> DEFINE S == States(f)
           D(s) == DOMAIN f.states[s].arcs
           q(s, i) == f.states[s].arcs[i]
<1>1. \A s \in S : \A a : a \in ArcsOf(f, s) <=> \E i \in D(s) : a = q(s, i)
  BY DEF ArcsOf, Range
<1>2. \A s \in S : \A i \in D(s) : q(s, i).nextstate \in Int /\ s \in Int
  <2>1. \A s \in S : \A i \in D(s) : q(s, i).nextstate \in S
    BY ArcFacts
  <2> QED
    BY <2>1, MachineFacts
<1>3. \A s \in S : \A i \in D(s) :
        SameScc(f, s, q(s, i).nextstate, junk) <=> Reaches(f, q(s, i).nextstate, s)
  <2> TAKE s \in S
  <2> TAKE i \in D(s)
  <2>1. f.start # kNoStateId
    BY MachineFacts DEF Conventional
  <2>2. Edge(f, s, q(s, i).nextstate)
    BY <1>1 DEF Edge
  <2>3. Reaches(f, s, q(s, i).nextstate)
    BY <2>2, ReachSteps, MachineIsGraph
  <2> QED
    BY <2>1, <2>3 DEF SameScc
<1>4. /\ ~ IsAcceptor(f) <=> \E s \in S : \E i \in D(s) : q(s, i).ilabel # q(s, i).olabel
      /\ ~ HasNoIEpsilons(f) <=> \E s \in S : \E i \in D(s) : q(s, i).ilabel = 0
      /\ ~ HasNoOEpsilons(f) <=> \E s \in S : \E i \in D(s) : q(s, i).olabel = 0
      /\ ~ HasNoEpsilons(f) <=>
           \E s \in S : \E i \in D(s) : q(s, i).ilabel = 0 /\ q(s, i).olabel = 0
  BY <1>1 DEF IsAcceptor, HasNoIEpsilons, HasNoOEpsilons, HasNoEpsilons
<1>5. /\ ~ HasTrivialArcs(f) <=> \E s \in S : \E i \in D(s) : Nontrivial(q(s, i).weight)
      /\ ~ HasTrivialFinals(f) <=> \E s \in S : Nontrivial(f.states[s].final)
      /\ ~ HasTrivialCycles(f) <=>
           \E s \in S : \E i \in D(s) : /\ Nontrivial(q(s, i).weight)
                                        /\ SameScc(f, s, q(s, i).nextstate, junk)
  BY <1>1, <1>3 DEF HasTrivialArcs, HasTrivialFinals, HasTrivialCycles
<1>6. ~ IsTopSorted(f) <=> \E s \in S : \E i \in D(s) : q(s, i).nextstate <= s
  BY <1>1, <1>2 DEF IsTopSorted
<1>7. /\ ~ IsIDeterministic(f) <=>
           \E s \in S : \E i \in D(s) : \E j \in 1 .. i - 1 : q(s, j).ilabel = q(s, i).ilabel
      /\ ~ IsODeterministic(f) <=>
           \E s \in S : \E i \in D(s) : \E j \in 1 .. i - 1 : q(s, j).olabel = q(s, i).olabel
  BY ListTests, ZenonT(40) DEF IsIDeterministic, IsODeterministic
<1>8. /\ ~ IsILabelSorted(f) <=>
           \E s \in S : \E i \in D(s) : i > 1 /\ q(s, i).ilabel < q(s, i - 1).ilabel
      /\ ~ IsOLabelSorted(f) <=>
           \E s \in S : \E i \in D(s) : i > 1 /\ q(s, i).olabel < q(s, i - 1).olabel
  BY ListTests, ZenonT(40) DEF IsILabelSorted, IsOLabelSorted
<1>9. ~ IsString(f) <=>
        \/ f.start \notin {kNoStateId, 0}
        \/ \E s \in S : \/ \E t \in 0 .. s - 1 : IsFinal(f, t)
                        \/ ~ IsFinal(f, s) /\ Len(f.states[s].arcs) # 1
        \/ \E s \in S : \E i \in D(s) : q(s, i).nextstate # s + 1
  BY <1>1, StringTests
<1>10. \A x, y : <<x, y>> \in Refuted(f, A, junk) <=>
         \/ \E s \in S : <<x, y>> \in StateRefutes(f, s)
         \/ \E s \in S : \E i \in D(s) : <<x, y>> \in ArcRefutes(A, f, s, i, junk)
         \/ x = "NotString" /\ y = "String" /\ f.start \notin {kNoStateId, 0}
  BY RefutedPairs, Zenon
<1>11. \A s \in S : \A x, y : <<x, y>> \in StateRefutes(f, s) <=>
         \/ x = "Weighted" /\ y = "Unweighted" /\ Nontrivial(f.states[s].final)
         \/ /\ x = "NotString" /\ y = "String"
            /\ \/ \E t \in 0 .. s - 1 : IsFinal(f, t)
               \/ ~ IsFinal(f, s) /\ Len(f.states[s].arcs) # 1
  BY StateRefutesPairs, Zenon
<1>12. \A s \in S : \A i \in D(s) : \A x, y :
         <<x, y>> \in ArcRefutes(A, f, s, i, junk) <=> ArcTest(A, f, s, i, junk, x, y)
  BY ArcRefutesPairs, Zenon
<1> HIDE DEF S
<1> TAKE x, y
<1>13. CASE x = "NotAcceptor"
  BY <1>4, <1>10, <1>11, <1>12, <1>13 DEF ArcTest, FalseOf
<1>14. CASE x \in {"IEpsilons", "OEpsilons", "Epsilons"}
  BY <1>4, <1>10, <1>11, <1>12, <1>14 DEF ArcTest, FalseOf
<1>15. CASE x \in {"Weighted", "WeightedCycles"}
  BY <1>5, <1>10, <1>11, <1>12, <1>15 DEF ArcTest, FalseOf
<1>16. CASE x \in {"NonIDeterministic", "NonODeterministic"}
  BY <1>7, <1>10, <1>11, <1>12, <1>16 DEF ArcTest, FalseOf
<1>17. CASE x \in {"NotILabelSorted", "NotOLabelSorted"}
  BY <1>8, <1>10, <1>11, <1>12, <1>17 DEF ArcTest, FalseOf
<1>18. CASE x = "NotTopSorted"
  BY <1>6, <1>10, <1>11, <1>12, <1>18 DEF ArcTest, FalseOf
<1>19. CASE x = "NotString"
  BY <1>9, <1>10, <1>11, <1>12, <1>19 DEF ArcTest, FalseOf
<1>20. CASE x \notin { "NotAcceptor", "IEpsilons", "OEpsilons", "Epsilons", "Weighted",
                       "WeightedCycles", "NonIDeterministic", "NonODeterministic",
                       "NotILabelSorted", "NotOLabelSorted", "NotTopSorted", "NotString" }
  BY <1>10, <1>11, <1>12, <1>20 DEF ArcTest, FalseOf
<1> QED
  BY <1>13, <1>14, <1>15, <1>16, <1>17, <1>18, <1>19, <1>20

\* Every pair of bits is decided by the truth, and no more is.
LEMMA TruthTrinary ==
  ASSUME NEW f
  PROVE  Truth(f) \subseteq kTrinaryProperties
<1>1. LabelFacts(f) \subseteq kTrinaryProperties
  BY TrinaryBits DEF LabelFacts, Decide, EachArc, EachState
<1>2. OrderFacts(f) \subseteq kTrinaryProperties
  BY TrinaryBits DEF OrderFacts, Decide
<1>3. CycleFacts(f) \subseteq kTrinaryProperties
  BY TrinaryBits DEF CycleFacts, Decide
<1>4. CycleWeightFacts(f) \subseteq kTrinaryProperties
  BY TrinaryBits DEF CycleWeightFacts, Decide
<1> QED
  BY <1>1, <1>2, <1>3, <1>4 DEF Truth

\* What the depth-first search reports of such a machine is the truth.
LEMMA DfsTruth ==
  ASSUME NEW f, IsVectorFst(f), Conventional(f), NEW b
  PROVE  b \in DfsFacts(f) <=> b \in kDfsProps /\ b \in Truth(f)
<1>1. kDfsProps = { "Cyclic", "Acyclic", "InitialCyclic", "InitialAcyclic", "Accessible",
                    "NotAccessible", "CoAccessible", "NotCoAccessible" }
  BY DEF kDfsProps, Bits
<1>2. CASE f.start # kNoStateId
  <2>1. DfsFacts(f) = CycleFacts(f)
    BY <1>2 DEF DfsFacts
  <2>2. b \in CycleFacts(f) =>
          b \in { "Cyclic", "Acyclic", "InitialCyclic", "InitialAcyclic", "Accessible",
                  "NotAccessible", "CoAccessible", "NotCoAccessible" }
    BY DEF CycleFacts, Decide
  <2>3. ASSUME b \in { "Cyclic", "Acyclic", "InitialCyclic", "InitialAcyclic", "Accessible",
                       "NotAccessible", "CoAccessible", "NotCoAccessible" }
        PROVE  b \notin LabelFacts(f) \cup OrderFacts(f) \cup CycleWeightFacts(f)
    <3>1. b \notin LabelFacts(f)
      BY <2>3 DEF LabelFacts, Decide
    <3>2. b \notin OrderFacts(f) \cup CycleWeightFacts(f)
      BY <2>3 DEF OrderFacts, CycleWeightFacts, Decide
    <3> QED
      BY <3>1, <3>2
  <2> QED
    BY <1>1, <2>1, <2>2, <2>3 DEF Truth
<1>3. CASE f.start = kNoStateId
  <2>1. States(f) = {}
    BY <1>3, MachineFacts DEF Conventional
  <2>2. IsAcyclic(f) /\ ~ IsInitialCyclic(f) /\ IsAccessible(f) /\ IsCoAccessible(f)
    BY <1>3, <2>1 DEF IsAcyclic, IsInitialCyclic, IsAccessible, IsCoAccessible
  <2>3. DfsFacts(f) = {"Acyclic", "InitialAcyclic", "Accessible", "CoAccessible"}
    BY <1>3 DEF DfsFacts
  <2> QED
    BY <1>1, <2>2, <2>3, CycleBits
<1> QED
  BY <1>2, <1>3

\* What ComputeProperties returns is true, and decides every bit of the mask.
LEMMA ComputeRight ==
  ASSUME NEW f, IsVectorFst(f), Conventional(f), NEW mask \in SUBSET kFstProperties,
         NEW result \in ComputeResults(f, mask)
  PROVE  /\ result \subseteq kFstProperties
         /\ \A b \in result : b \in kTrinaryProperties => b \in Truth(f)
         /\ \A b \in mask : b \in Truth(f) => b \in result
<1>1. PICK junk : result = ComputeProperties(f, mask, junk)
  BY DEF ComputeResults
<1> DEFINE dfs == mask \cap (kDfsProps \cup kCycleWeights) # {}
           scan == mask \ (kBinaryProperties \cup kDfsProps) # {}
           bin == f.props \cap kBinaryProperties
           known == bin \cup If(dfs, DfsFacts(f))
           idet == mask \cap {"IDeterministic", "NonIDeterministic"} # {}
           odet == mask \cap {"ODeterministic", "NonODeterministic"} # {}
           base == { "Acceptor", "NoEpsilons", "NoIEpsilons", "NoOEpsilons",
                     "ILabelSorted", "OLabelSorted", "Unweighted", "TopSorted",
                     "String" }
           A == known \cup (base \cup If(idet, {"IDeterministic"})
                                 \cup If(odet, {"ODeterministic"})
                                 \cup If(dfs, {"UnweightedCycles"}))
           R == Refuted(f, A, junk)
<1>2. result = IF scan THEN Raise(A, R) ELSE known
  BY <1>1 DEF ComputeProperties, Scan
<1>3. /\ kDfsProps = { "Cyclic", "Acyclic", "InitialCyclic", "InitialAcyclic",
                       "Accessible", "NotAccessible", "CoAccessible", "NotCoAccessible" }
      /\ kCycleWeights = {"WeightedCycles", "UnweightedCycles"}
      /\ kBinaryProperties = {"Expanded", "Mutable", "Error"}
  BY DEF kDfsProps, Bits, kCycleWeights, kBinaryProperties
<1>4. \A b : b \in known <=> b \in bin \/ (dfs /\ b \in kDfsProps /\ b \in Truth(f))
  BY DfsTruth DEF If
<1>5. \A b : b \in A <=> \/ b \in known \/ b \in base
                         \/ idet /\ b = "IDeterministic"
                         \/ odet /\ b = "ODeterministic"
                         \/ dfs /\ b = "UnweightedCycles"
  BY DEF If
<1> HIDE DEF A, known
<1>6. \A p \in R : p = <<p[1], p[2]>>
  BY RefutedPairs, Zenon
<1>7. \A x, y : <<x, y>> \in R <=> FalseOf(f, A, x, y)
  BY RefutedTruth, Zenon
<1> HIDE DEF R
<1>8. \A b : b \in bin => b \in {"Expanded", "Mutable", "Error"}
  BY <1>3
<1>9. CASE ~ scan
  <2>1. result = known
    BY <1>2, <1>9
  <2>2. result \subseteq kFstProperties
    BY <1>3, <1>4, <1>8, <2>1, TrinaryBits
  <2>3. \A b \in result : b \in kTrinaryProperties => b \in Truth(f)
    BY <1>4, <1>8, <2>1, TrinaryBits
  <2>4. ASSUME NEW b \in mask, b \in Truth(f) PROVE b \in result
    <3>1. b \in kDfsProps
      BY <1>3, <1>9, <2>4, TruthTrinary, TrinaryBits
    <3> QED
      BY <1>4, <2>1, <2>4, <3>1
  <2> QED
    BY <2>2, <2>3, <2>4
<1>10. CASE scan
  <2>1. \A b : b \in result <=> /\ b \in A \/ \E y : <<b, y>> \in R
                                /\ ~ \E y : <<y, b>> \in R
    BY <1>2, <1>6, <1>10, RaiseBits
  <2>2. \A b : b \in A \/ (\E y : <<b, y>> \in R) => b \in kFstProperties
    BY <1>3, <1>4, <1>5, <1>7, <1>8, TrinaryBits DEF FalseOf
  <2>3. ASSUME NEW b \in result, b \in kTrinaryProperties PROVE b \in Truth(f)
    <3>1. CASE \E y : <<b, y>> \in R
      BY <1>7, <3>1, LabelBits, ListBits, OrderBits, CycleBits DEF FalseOf
    <3>2. CASE ~ \E y : <<b, y>> \in R
      <4>1. b \in A /\ \A y : <<y, b>> \notin R
        BY <2>1, <2>3, <3>2
      <4>2. b \notin bin
        BY <1>8, <2>3, TrinaryBits
      <4>3. CASE dfs /\ b \in kDfsProps /\ b \in Truth(f)
        BY <4>3
      <4>4. CASE b \in base
        BY <1>7, <4>1, <4>4, LabelBits, ListBits, OrderBits DEF FalseOf
      <4>5. CASE b \in {"IDeterministic", "ODeterministic", "UnweightedCycles"}
        BY <1>7, <4>1, <4>5, ListBits, CycleBits DEF FalseOf
      <4> QED
        BY <1>4, <1>5, <4>1, <4>2, <4>3, <4>4, <4>5
    <3> QED
      BY <3>1, <3>2
  <2>4. ASSUME NEW b \in mask, b \in Truth(f) PROVE b \in result
    <3>1. b \in kTrinaryProperties
      BY <2>4, TruthTrinary
    <3>2. CASE b \in kDfsProps
      <4>1. dfs
        BY <2>4, <3>2
      <4>2. \A y : <<y, b>> \notin R
        BY <1>3, <1>7, <3>2 DEF FalseOf
      <4> QED
        BY <1>4, <1>5, <2>1, <2>4, <3>2, <4>1, <4>2
    <3>3. CASE b \in base
      <4>1. \A y : <<y, b>> \notin R
        BY <1>7, <2>4, <3>3, LabelBits, ListBits, OrderBits DEF FalseOf
      <4> QED
        BY <1>5, <2>1, <3>3, <4>1
    <3>4. CASE b \in { "NotAcceptor", "Epsilons", "IEpsilons", "OEpsilons",
                       "NotILabelSorted", "NotOLabelSorted", "Weighted", "NotTopSorted",
                       "NotString" }
      <4>1. \E y : <<b, y>> \in R
        BY <1>7, <2>4, <3>4, LabelBits, ListBits, OrderBits DEF FalseOf
      <4>2. \A y : <<y, b>> \notin R
        BY <1>7, <3>4 DEF FalseOf
      <4> QED
        BY <2>1, <4>1, <4>2
    <3>5. CASE b \in {"IDeterministic", "NonIDeterministic"}
      <4>1. "IDeterministic" \in A
        BY <1>5, <2>4, <3>5
      <4>2. b = "IDeterministic" => \A y : <<y, b>> \notin R
        BY <1>7, <2>4, ListBits DEF FalseOf
      <4>3. b = "NonIDeterministic" => <<b, "IDeterministic">> \in R /\ \A y : <<y, b>> \notin R
        BY <1>7, <2>4, <4>1, ListBits DEF FalseOf
      <4> QED
        BY <2>1, <3>5, <4>1, <4>2, <4>3
    <3>6. CASE b \in {"ODeterministic", "NonODeterministic"}
      <4>1. "ODeterministic" \in A
        BY <1>5, <2>4, <3>6
      <4>2. b = "ODeterministic" => \A y : <<y, b>> \notin R
        BY <1>7, <2>4, ListBits DEF FalseOf
      <4>3. b = "NonODeterministic" => <<b, "ODeterministic">> \in R /\ \A y : <<y, b>> \notin R
        BY <1>7, <2>4, <4>1, ListBits DEF FalseOf
      <4> QED
        BY <2>1, <3>6, <4>1, <4>2, <4>3
    <3>7. CASE b \in {"UnweightedCycles", "WeightedCycles"}
      <4>1. "UnweightedCycles" \in A
        BY <1>3, <1>5, <2>4, <3>7
      <4>2. b = "UnweightedCycles" => \A y : <<y, b>> \notin R
        BY <1>7, <2>4, CycleBits DEF FalseOf
      <4>3. b = "WeightedCycles" => <<b, "UnweightedCycles">> \in R /\ \A y : <<y, b>> \notin R
        BY <1>7, <2>4, <4>1, CycleBits DEF FalseOf
      <4> QED
        BY <2>1, <3>7, <4>1, <4>2, <4>3
    <3> QED
      BY <1>3, <3>1, <3>2, <3>3, <3>4, <3>5, <3>6, <3>7, TrinaryBits
  <2> QED
    BY <2>1, <2>2, <2>3, <2>4
<1> QED
  BY <1>9, <1>10

\* The two bits of a pair exclude each other.
LEMMA PairsExclude ==
  ASSUME NEW f, NEW p \in TrinaryPairs
  PROVE  /\ ~ (p[1] \in Truth(f) /\ p[2] \in Truth(f))
         /\ p[1] \in kTrinaryProperties /\ p[2] \in kTrinaryProperties
<1>1. p[1] \in kTrinaryProperties /\ p[2] \in kTrinaryProperties
  BY DEF kTrinaryProperties, Bits
<1>2. CASE p \in { <<"Acceptor", "NotAcceptor">>, <<"Epsilons", "NoEpsilons">>,
                   <<"IEpsilons", "NoIEpsilons">>, <<"OEpsilons", "NoOEpsilons">> }
  BY <1>1, <1>2, LabelBits
<1>3. CASE p \in { <<"IDeterministic", "NonIDeterministic">>,
                   <<"ODeterministic", "NonODeterministic">>,
                   <<"ILabelSorted", "NotILabelSorted">>,
                   <<"OLabelSorted", "NotOLabelSorted">> }
  BY <1>1, <1>3, ListBits
<1>4. CASE p \in { <<"Weighted", "Unweighted">>, <<"TopSorted", "NotTopSorted">>,
                   <<"String", "NotString">> }
  BY <1>1, <1>4, OrderBits
<1>5. CASE p \in { <<"Cyclic", "Acyclic">>, <<"InitialCyclic", "InitialAcyclic">>,
                   <<"Accessible", "NotAccessible">>,
                   <<"CoAccessible", "NotCoAccessible">>,
                   <<"WeightedCycles", "UnweightedCycles">> }
  BY <1>1, <1>5, CycleBits
<1> QED
  BY <1>2, <1>3, <1>4, <1>5 DEF TrinaryPairs

\* A stored bit that is known and true is the one that is stored.
LEMMA KnownStored ==
  ASSUME NEW f, Sound(f), NEW b \in KnownProperties(f.props), b \in Truth(f)
  PROVE  b \in f.props
<1>1. b \notin kBinaryProperties
  BY TruthTrinary, TrinaryBits DEF kBinaryProperties
<1>2. PICK p \in TrinaryPairs : /\ p[1] \in f.props \/ p[2] \in f.props
                                /\ b = p[1] \/ b = p[2]
  BY <1>1 DEF KnownProperties, Bits
<1>3. \A c \in f.props : c \in kTrinaryProperties => c \in Truth(f)
  BY DEF Sound
<1> QED
  BY <1>2, <1>3, PairsExclude

\* What TestProperties may return is true and decides every bit of the mask.
LEMMA TestRight ==
  ASSUME NEW f, IsVectorFst(f), Sound(f), Conventional(f),
         NEW mask \in SUBSET kFstProperties, NEW result \in TestResults(f, mask)
  PROVE  /\ result \subseteq kFstProperties
         /\ \A b \in result : b \in kTrinaryProperties => b \in Truth(f)
         /\ \A b \in mask : b \in Truth(f) => b \in result
<1>1. CASE mask \subseteq KnownProperties(f.props)
  <2>1. result = f.props
    BY <1>1 DEF TestResults
  <2> QED
    BY <1>1, <2>1, KnownStored, MachineFacts DEF Sound
<1>2. CASE ~ (mask \subseteq KnownProperties(f.props))
  <2>1. result \in ComputeResults(f, mask)
    BY <1>2 DEF TestResults
  <2> QED
    BY <2>1, ComputeRight
<1> QED
  BY <1>1, <1>2

LEMMA TestPropertiesSound ==
  ASSUME NEW f, IsVectorFst(f), Sound(f), Conventional(f),
         NEW mask \in SUBSET kFstProperties, NEW result \in TestResults(f, mask)
  PROVE  IsVectorFst(TestProperties(f, result)) /\ Sound(TestProperties(f, result))
<1> DEFINE P == UpdateProperties(f.props, result, KnownProperties(result))
           g == TestProperties(f, result)
<1>1. /\ result \subseteq kFstProperties
      /\ \A b \in result : b \in kTrinaryProperties => b \in Truth(f)
  BY TestRight
<1>2. P \in SUBSET kFstProperties
  BY <1>1, MachineFacts DEF UpdateProperties
<1>3. \A b \in P : b \in f.props \/ b \in result
  BY DEF UpdateProperties
<1>4. g = [f EXCEPT !.props = P]
  BY DEF TestProperties
<1> HIDE DEF P, g
<1>5. IsVectorFst(g) /\ g.start = f.start /\ g.states = f.states /\ g.props = P
  BY <1>2, <1>4, ReplacedProps
<1>6. \A b \in kTrinaryProperties : b \in g.props => b \in Truth(f)
  BY <1>1, <1>3, <1>5 DEF Sound
<1>7. Sound(g)
  BY <1>5, <1>6, SameMachineTruth DEF Sound
<1> QED
  BY <1>5, <1>7 DEF g

-----------------------------------------------------------------------------
(* The theorems.  The invariant is the conjunction of the type invariant   *)
(* and of the soundness of the stored bits: neither is inductive alone,    *)
(* since what TestProperties stores is only right of a well formed         *)
(* machine, and since a bit that was false before a mutation may be kept.  *)

VectorInv == VectorTypeOK /\ PropsSound

\* VectorFstImpl starts without states and with the bits of the empty machine.
LEMMA VectorInit == Init => VectorInv
<1>1. EmptyFst = [start |-> kNoStateId, states |-> <<>>,
                  props |-> kNullProperties \cup kStaticProperties]
  BY DEF EmptyFst
<1>2. LET P == kNullProperties \cup kStaticProperties
      IN  P \in SUBSET kFstProperties /\ P \cap kTrinaryProperties = kNullProperties
  BY TrinaryBits DEF kNullProperties, kStaticProperties
<1>3. IsVectorFst(EmptyFst) /\ Sound(EmptyFst)
  BY <1>1, <1>2, EmptySound
<1> QED
  BY <1>3 DEF Init, VectorInv, VectorTypeOK, PropsSound, Sound

\* The arcs a client passes.
LEMMA ClientArcs ==
  ASSUME IsVectorFst(fst), NEW a \in AllArcs
  PROVE  a \in ArcType(NumStates(fst))
<1>1. PICK k \in ArcKinds, t \in States(fst) : a = Arc(k[1], k[2], k[3], t)
  BY DEF AllArcs
<1>2. k[1] \in Nat /\ k[2] \in Nat /\ k[3] \in Weights
  BY KindsAssumption
<1> QED
  BY <1>1, <1>2, MachineFacts DEF Arc, ArcType

\* Every call preserves the invariant.
LEMMA VectorNext == VectorInv /\ [Next]_fst => VectorInv'
<1> SUFFICES ASSUME VectorInv, [Next]_fst PROVE IsVectorFst(fst') /\ Sound(fst')
  BY DEF VectorInv, VectorTypeOK, PropsSound, Sound
<1>1. IsVectorFst(fst) /\ Sound(fst)
  BY DEF VectorInv, VectorTypeOK, PropsSound, Sound
<1>2. CASE DoSetStart
  BY <1>1, <1>2, SetStartMachine, SetStartSound DEF DoSetStart
<1>3. CASE DoSetFinal
  BY <1>1, <1>3, SetFinalMachine, SetFinalSound, KindsAssumption DEF DoSetFinal
<1>4. CASE DoAddStates
  BY <1>1, <1>4, AddStatesMachine, AddStatesSound, MachineFacts, BoundsAssumption
     DEF DoAddStates
<1>5. CASE DoAddArc
  BY <1>1, <1>5, AddArcMachine, AddArcSound, ClientArcs DEF DoAddArc
<1>6. CASE DoDeleteArcs
  BY <1>1, <1>6, DeleteArcsMachine, DeleteArcsSound, BoundsAssumption DEF DoDeleteArcs
<1>7. CASE DoDeleteStates
  BY <1>1, <1>7, DeleteStatesSound DEF DoDeleteStates
<1>8. CASE DoDeleteAllStates
  BY <1>1, <1>8, DeleteAllStatesSound DEF DoDeleteAllStates
<1>9. CASE DoSetValue
  BY <1>1, <1>9, SetValueMachine, SetValueSound, ClientArcs DEF DoSetValue
<1>10. CASE DoCopy
  BY <1>1, <1>10, CopyOfSound DEF DoCopy
<1>11. CASE DoTestProperties
  BY <1>1, <1>11, TestPropertiesSound, MasksAssumption DEF DoTestProperties
<1>12. CASE UNCHANGED fst
  BY <1>1, <1>12
<1> QED
  BY <1>2, <1>3, <1>4, <1>5, <1>6, <1>7, <1>8, <1>9, <1>10, <1>11, <1>12 DEF Next

\* The invariant holds in every state of every run, of machines of any size.
THEOREM VectorInvariant == Spec => []VectorInv
<1>1. Init => VectorInv
  BY VectorInit
<1>2. VectorInv /\ [Next]_fst => VectorInv'
  BY VectorNext
<1> QED
  BY <1>1, <1>2, PTL DEF Spec

\* The start state and every arc of a VectorFst lead to states that exist, and
\* its states count their epsilons right, whatever mutators a client called.
THEOREM VectorTypes == Spec => []VectorTypeOK
<1>1. VectorInv => VectorTypeOK
  BY DEF VectorInv
<1> QED
  BY <1>1, VectorInvariant, PTL

\* No mutator and no test leaves a property bit stored that is false of the
\* machine (the masks and functions of properties.h).
THEOREM BitsSound == Spec => []PropsSound
<1>1. VectorInv => PropsSound
  BY DEF VectorInv
<1> QED
  BY <1>1, VectorInvariant, PTL

\* Properties(mask, true) returns the truth about every bit of the mask, also
\* where it relies on stored bits.
LEMMA AnswersFollow == VectorInv => AnswersTrue
<1> SUFFICES ASSUME VectorInv, fst.start # kNoStateId,
                    NEW mask \in Masks \cup {kDfsProps, kCycleWeights},
                    NEW result \in TestResults(fst, mask)
             PROVE  result \cap mask \cap kTrinaryProperties = Truth(fst) \cap mask
  BY DEF AnswersTrue
<1>1. IsVectorFst(fst) /\ Sound(fst) /\ Conventional(fst)
  BY DEF VectorInv, VectorTypeOK, PropsSound, Sound, Conventional
<1>2. mask \in SUBSET kFstProperties
  BY MasksAssumption, TrinaryBits DEF kDfsProps, kCycleWeights, Bits
<1>3. /\ \A b \in result : b \in kTrinaryProperties => b \in Truth(fst)
      /\ \A b \in mask : b \in Truth(fst) => b \in result
  BY <1>1, <1>2, TestRight
<1> QED
  BY <1>3, TruthTrinary

\* What a client is told by Properties(mask, true) is true and complete in every
\* state of every run.
THEOREM AnswersRight == Spec => []AnswersTrue
BY AnswersFollow, VectorInvariant, PTL
===============================================================================
