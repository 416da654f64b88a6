-------------------------- MODULE RelaxationProofs --------------------------
(***************************************************************************)
(* Relaxation ends with the least costs, for every graph and in whatever   *)
(* order states are expanded.                                              *)
(***************************************************************************)
EXTENDS Relaxation, TLAPS

-----------------------------------------------------------------------------
(* The inductive invariant.                                                *)

\* The variables have their types; states that wait were reached.
RelaxTypeOK ==
    /\ arcs \in SUBSET ArcSet
    /\ source \in State
    /\ DOMAIN dist \subseteq State
    /\ dist \in [DOMAIN dist -> Int]
    /\ todo \subseteq DOMAIN dist
    /\ left \subseteq arcs
    /\ at \in Int
    /\ status \in {"idle", "running", "done", "stopped"}

\* The arcs that are left are those of a reached state, whose distance is what
\* it was when the expansion began, unless it improved and waits again.
Expanding ==
    \A a \in left : /\ a.from \in DOMAIN dist
                    /\ dist[a.from] <= at
                    /\ a.from \notin todo => dist[a.from] = at

\* Arcs of states that do not wait have been used, except for those that are left.
Used ==
    status \in {"running", "done"} =>
        /\ source \in DOMAIN dist /\ dist[source] <= 0
        /\ \A a \in arcs :
              a.from \in DOMAIN dist /\ a.from \notin todo /\ a \notin left =>
                  a.to \in DOMAIN dist /\ dist[a.to] <= dist[a.from] + a.weight

\* Done means that nothing waits.
DoneEmpty == status # "running" => left = {}
DoneQuiet == status = "done" => todo = {}

RelaxInv == RelaxTypeOK /\ Expanding /\ Used /\ DoneEmpty /\ DoneQuiet

\* The invariant holds in the beginning.
LEMMA RelaxInit == Init => RelaxInv
  BY DEF Init, RelaxInv, RelaxTypeOK, Expanding, Used, DoneEmpty, DoneQuiet

\* A new computation starts from the source alone.
LEMMA RelaxBegin == RelaxInv /\ Begin => RelaxInv'
  BY DEF Begin, RelaxInv, RelaxTypeOK, Expanding, Used, DoneEmpty, DoneQuiet, ArcSet

\* An expanded state leaves its arcs in its place.
LEMMA RelaxExpand == RelaxInv /\ Expand => RelaxInv'
<1> SUFFICES ASSUME RelaxInv, Expand PROVE RelaxInv'
  OBVIOUS
<1> USE DEF RelaxInv
<1>1. PICK s \in todo : /\ todo' = todo \ {s}
                        /\ left' = From(s)
                        /\ at' = IF left' = {} THEN 0 ELSE dist[s]
  BY DEF Expand
<1>2. /\ UNCHANGED << arcs, source, dist, status >>
      /\ status = "running" /\ left = {}
  BY DEF Expand
<1>3. s \in DOMAIN dist /\ dist[s] \in Int
  BY <1>1 DEF RelaxTypeOK
<1>4. RelaxTypeOK'
  BY <1>1, <1>2, <1>3 DEF RelaxTypeOK, From
<1>5. Expanding'
  BY <1>1, <1>2, <1>3 DEF Expanding, From
<1>6. Used'
  BY <1>1, <1>2 DEF Used, From
<1>7. DoneEmpty' /\ DoneQuiet'
  BY <1>2 DEF DoneEmpty, DoneQuiet
<1> QED
  BY <1>4, <1>5, <1>6, <1>7

\* An arc that improves a distance makes its state wait again; one that does not
\* can be done with.
LEMMA RelaxRelax == RelaxInv /\ Relax => RelaxInv'
<1> SUFFICES ASSUME RelaxInv, Relax PROVE RelaxInv'
  OBVIOUS
<1> USE DEF RelaxInv
<1>1. PICK a \in left :
        /\ left' = left \ {a}
        /\ at' = IF left' = {} THEN 0 ELSE at
        /\ IF Better(a)
           THEN /\ dist' = [s \in DOMAIN dist \cup {a.to} |->
                               IF s = a.to THEN at + a.weight ELSE dist[s]]
                /\ todo' = todo \cup {a.to}
           ELSE UNCHANGED << dist, todo >>
  BY DEF Relax
<1>2. UNCHANGED << arcs, source, status >> /\ status = "running"
  BY DEF Relax
<1>3. /\ a \in arcs /\ a.from \in State /\ a.to \in State /\ a.weight \in Int
      /\ a.from \in DOMAIN dist /\ dist[a.from] <= at
      /\ at \in Int /\ at + a.weight \in Int
  BY <1>1 DEF RelaxTypeOK, Expanding, ArcSet
<1>4. ASSUME NEW b \in arcs PROVE b.from \in State /\ b.to \in State /\ b.weight \in Int
  BY DEF RelaxTypeOK, ArcSet
<1>5. DoneEmpty' /\ DoneQuiet'
  BY <1>2 DEF DoneEmpty, DoneQuiet
<1>6. CASE Better(a)
  <2>1. /\ DOMAIN dist' = DOMAIN dist \cup {a.to}
        /\ dist'[a.to] = at + a.weight
        /\ \A s \in DOMAIN dist : s # a.to => dist'[s] = dist[s]
        /\ todo' = todo \cup {a.to}
    BY <1>1, <1>6
  <2>2. \A s \in DOMAIN dist : dist[s] \in Int /\ dist'[s] \in Int /\ dist'[s] <= dist[s]
    <3> SUFFICES ASSUME NEW s \in DOMAIN dist
                 PROVE dist[s] \in Int /\ dist'[s] \in Int /\ dist'[s] <= dist[s]
      OBVIOUS
    <3>1. dist[s] \in Int
      BY DEF RelaxTypeOK
    <3>2. CASE s = a.to
      BY <1>3, <1>6, <2>1, <3>1, <3>2 DEF Better
    <3>3. CASE s # a.to
      BY <2>1, <3>1, <3>3
    <3> QED
      BY <3>2, <3>3, <3>1
  <2>3. dist' \in [DOMAIN dist' -> Int]
    <3>1. dist' = [s \in DOMAIN dist \cup {a.to} |->
                      IF s = a.to THEN at + a.weight ELSE dist[s]]
      BY <1>1, <1>6
    <3>2. \A s \in DOMAIN dist : dist[s] \in Int
      BY <2>2
    <3> QED
      BY <1>3, <3>1, <3>2
  <2>4. RelaxTypeOK'
    BY <1>1, <1>2, <1>3, <2>1, <2>3 DEF RelaxTypeOK
  <2>5. Expanding'
    <3> SUFFICES ASSUME NEW b \in left'
                 PROVE /\ b.from \in DOMAIN dist'
                       /\ dist'[b.from] <= at'
                       /\ b.from \notin todo' => dist'[b.from] = at'
      BY DEF Expanding
    <3>1. /\ b \in left /\ b.from \in DOMAIN dist /\ dist[b.from] <= at
          /\ b.from \notin todo => dist[b.from] = at
          /\ at' = at
      BY <1>1 DEF Expanding
    <3>2. dist'[b.from] <= dist[b.from] /\ dist[b.from] \in Int /\ dist'[b.from] \in Int
      BY <2>2, <3>1
    <3>3. b.from \notin todo' => b.from # a.to /\ b.from \notin todo
      BY <2>1
    <3> QED
      BY <1>3, <2>1, <3>1, <3>2, <3>3
  <2>6. Used'
    <3>1. source \in DOMAIN dist /\ dist[source] <= 0
      BY <1>2 DEF Used
    <3>2. source' \in DOMAIN dist' /\ dist'[source'] <= 0
      BY <1>2, <2>1, <2>2, <3>1
    <3>3. ASSUME NEW b \in arcs, b.from \in DOMAIN dist', b.from \notin todo', b \notin left'
          PROVE b.to \in DOMAIN dist' /\ dist'[b.to] <= dist'[b.from] + b.weight
      <4>1. b.from # a.to /\ b.from \in DOMAIN dist /\ b.from \notin todo
        BY <2>1, <3>3
      <4>2. dist'[b.from] = dist[b.from] /\ dist[b.from] \in Int /\ b.weight \in Int
        BY <1>4, <2>1, <2>2, <4>1
      <4>3. CASE b = a
        <5>1. dist[a.from] = at
          BY <1>1, <4>1, <4>3 DEF Expanding
        <5> QED
          BY <1>3, <2>1, <4>2, <4>3, <5>1
      <4>4. CASE b # a
        <5>1. b \notin left
          BY <1>1, <3>3, <4>4
        <5>2. b.to \in DOMAIN dist /\ dist[b.to] <= dist[b.from] + b.weight
          BY <1>2, <4>1, <5>1 DEF Used
        <5>3. dist[b.to] \in Int /\ dist'[b.to] \in Int /\ dist'[b.to] <= dist[b.to]
          BY <2>2, <5>2
        <5> QED
          BY <2>1, <4>2, <5>2, <5>3
      <4> QED
        BY <4>3, <4>4
    <3> QED
      BY <1>2, <3>2, <3>3 DEF Used
  <2> QED
    BY <1>5, <2>4, <2>5, <2>6
<1>7. CASE ~ Better(a)
  <2>1. dist' = dist /\ todo' = todo
    BY <1>1, <1>7
  <2>2. a.to \in DOMAIN dist /\ dist[a.to] \in Int /\ dist[a.to] <= at + a.weight
    BY <1>3, <1>7 DEF Better, RelaxTypeOK
  <2>3. RelaxTypeOK'
    BY <1>1, <1>2, <1>3, <2>1 DEF RelaxTypeOK
  <2>4. Expanding'
    BY <1>1, <2>1 DEF Expanding
  <2>5. Used'
    <3>1. source' \in DOMAIN dist' /\ dist'[source'] <= 0
      BY <1>2, <2>1 DEF Used
    <3>2. ASSUME NEW b \in arcs, b.from \in DOMAIN dist', b.from \notin todo', b \notin left'
          PROVE b.to \in DOMAIN dist' /\ dist'[b.to] <= dist'[b.from] + b.weight
      <4>1. CASE b = a
        BY <1>1, <2>1, <2>2, <3>2, <4>1 DEF Expanding
      <4>2. CASE b # a
        BY <1>1, <1>2, <2>1, <3>2, <4>2 DEF Used
      <4> QED
        BY <4>1, <4>2
    <3> QED
      BY <1>2, <3>1, <3>2 DEF Used
  <2> QED
    BY <1>5, <2>3, <2>4, <2>5
<1> QED
  BY <1>6, <1>7

\* The other steps change no distance.
LEMMA RelaxRest == RelaxInv /\ (End \/ Stop \/ UNCHANGED relaxVars) => RelaxInv'
<1> SUFFICES ASSUME RelaxInv, End \/ Stop \/ UNCHANGED relaxVars PROVE RelaxInv'
  OBVIOUS
<1> USE DEF RelaxInv, RelaxTypeOK, Expanding, Used, DoneEmpty, DoneQuiet
<1>1. CASE End
  BY <1>1 DEF End
<1>2. CASE Stop
  BY <1>2 DEF Stop
<1>3. CASE UNCHANGED relaxVars
  BY <1>3 DEF relaxVars
<1> QED
  BY <1>1, <1>2, <1>3

\* The invariant holds throughout.
LEMMA RelaxInvariant == RelaxSpec => []RelaxInv
<1>1. RelaxInv /\ [Next]_relaxVars => RelaxInv'
  BY RelaxBegin, RelaxExpand, RelaxRelax, RelaxRest DEF Next
<1> QED
  BY RelaxInit, <1>1, PTL DEF RelaxSpec

-----------------------------------------------------------------------------
(* The result.                                                             *)

\* When a computation has ended by itself, whatever the order in which its queue
\* delivered the states, no arc can improve a distance any more.
THEOREM RelaxationComplete == RelaxSpec => []NoArcImproves
<1>1. RelaxInv => NoArcImproves
  BY DEF RelaxInv, Used, DoneEmpty, DoneQuiet, NoArcImproves, Consistent
<1> QED
  BY RelaxInvariant, <1>1, PTL

\* A lower bound on the cost of all paths bounds every distance, at all times.
LEMMA LowerBoundStep ==
    RelaxInv /\ NeverTooSmall /\ [Next]_relaxVars => NeverTooSmall'
<1> SUFFICES ASSUME RelaxInv, NeverTooSmall, [Next]_relaxVars,
                    NEW D \in SUBSET State, NEW p \in [D -> Int], Consistent(p, D)',
                    NEW s \in DOMAIN dist'
             PROVE s \in D /\ p[s] <= dist'[s]
  BY DEF NeverTooSmall
<1> USE DEF RelaxInv
<1>1. CASE Begin
  BY <1>1 DEF Begin, Consistent
<1>2. CASE Relax
  <2>1. PICK a \in left :
          IF Better(a)
          THEN dist' = [t \in DOMAIN dist \cup {a.to} |->
                           IF t = a.to THEN at + a.weight ELSE dist[t]]
          ELSE UNCHANGED dist
    BY <1>2 DEF Relax
  <2>2. Consistent(p, D)
    BY <1>2 DEF Relax, Consistent
  <2>3. \A t \in DOMAIN dist : t \in D /\ p[t] <= dist[t]
    BY <2>2 DEF NeverTooSmall
  <2>4. CASE s \in DOMAIN dist /\ dist'[s] = dist[s]
    BY <2>3, <2>4
  <2>5. CASE s = a.to /\ dist'[s] = at + a.weight
    <3>1. a \in arcs /\ a.from \in DOMAIN dist /\ dist[a.from] <= at
      BY <2>1 DEF Expanding, RelaxTypeOK
    <3>2. a.from \in D /\ p[a.from] <= dist[a.from]
      BY <2>3, <3>1
    <3>3. a.to \in D /\ p[a.to] <= p[a.from] + a.weight
      BY <2>2, <3>1, <3>2 DEF Consistent
    <3>4. /\ p[a.from] \in Int /\ p[a.to] \in Int /\ a.weight \in Int
          /\ dist[a.from] \in Int /\ at \in Int
      BY <3>1, <3>2, <3>3 DEF RelaxTypeOK, ArcSet
    <3> QED
      BY <2>5, <3>1, <3>2, <3>3, <3>4
  <2> QED
    BY <2>1, <2>4, <2>5
<1>3. CASE Expand \/ End \/ Stop \/ UNCHANGED relaxVars
  <2>1. UNCHANGED << arcs, source, dist >>
    BY <1>3 DEF Expand, End, Stop, relaxVars
  <2>2. Consistent(p, D)
    BY <2>1 DEF Consistent
  <2> QED
    BY <2>1, <2>2 DEF NeverTooSmall
<1> QED
  BY <1>1, <1>2, <1>3 DEF Next

\* No distance is ever less than every path costs: a function that grows along
\* no arc by more than the arc's cost is nowhere above the distances.  With
\* RelaxationComplete, the distances of a completed computation are the greatest
\* such function.
THEOREM RelaxationExact == RelaxSpec => []NeverTooSmall
<1>1. Init => NeverTooSmall
  BY DEF Init, NeverTooSmall
<1> QED
  BY RelaxInvariant, LowerBoundStep, <1>1, PTL DEF RelaxSpec
=============================================================================
