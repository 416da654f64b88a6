---------------------------- MODULE FstOpsProofs ----------------------------
(***************************************************************************)
(* Proofs about FstOps, for machines, operands and bounds of any size:     *)
(* what the operations build is a machine, and none loses an error.        *)
(*                                                                         *)
(* The type invariant is inductive over the operations, but not over the   *)
(* mutators that an operation calls in its loops: in between, arcs lead to *)
(* states that are still to be added.  Draft(n, N, e) is what holds there: *)
(* n of N states exist, arcs may lead to all N, and the error bit is set   *)
(* if e.  Every mutator turns drafts into drafts, a loop stays in a        *)
(* sequence of sets of drafts, and a finished draft (n = N) is a machine.  *)
(*                                                                         *)
(* A loop is a recursive function over an interval, that is, a function    *)
(* chosen to satisfy an equation.  LoopRuns gives one that does, because   *)
(* every round leads from the sets of the loop to the next, and LoopStays  *)
(* gives what every such function reaches.                                 *)
(***************************************************************************)
EXTENDS FstOps, VectorFstProofs

-----------------------------------------------------------------------------
(* Loops.                                                                  *)

\* The sets S[0], ..., S[n] and the rounds step[1], ..., step[n] fit together.
Fits(S, n, step) == \A i \in 1 .. n : \A x \in S[i - 1] : step[i][x] \in S[i]

\* h[i] is what a loop of n rounds has after i rounds.
Runs(h, S, base, n, step) ==
  /\ \E T : h \in [0 .. n -> T]
  /\ \A i \in 0 .. n : h[i] \in S[i]
  /\ h[0] = base
  /\ \A i \in 1 .. n : h[i] = step[i][h[i - 1]]

\* There is a function that satisfies the equation of a loop, because every
\* round leads from one of its sets to the next.
LEMMA LoopRuns ==
  ASSUME NEW n \in Nat, NEW S, NEW base \in S[0], NEW step, Fits(S, n, step)
  PROVE  \E h : Runs(h, S, base, n, step)
<1> DEFINE Good(m) == \E h : Runs(h, S, base, m, step)
           G == {m \in Nat : m <= n => Good(m)}
<1>1. 0 \in G
  <2> DEFINE h == [i \in 0 .. 0 |-> base]
  <2>1. h[0] = base /\ h \in [0 .. 0 -> {base}]
    OBVIOUS
  <2>2. (\A i \in 1 .. 0 : FALSE) /\ \A i \in 0 .. 0 : i = 0
    OBVIOUS
  <2> HIDE DEF h
  <2>3. Runs(h, S, base, 0, step)
    BY <2>1, <2>2 DEF Runs
  <2> QED
    BY <2>3
<1>2. ASSUME NEW m \in Nat, m \in G PROVE m + 1 \in G
  <2> SUFFICES ASSUME m + 1 <= n PROVE Good(m + 1)
    OBVIOUS
  <2>1. PICK h : Runs(h, S, base, m, step)
    BY <1>2
  <2> DEFINE v == step[m + 1][h[m]]
             g == [i \in 0 .. m + 1 |-> IF i = m + 1 THEN v ELSE h[i]]
  <2>2. v \in S[m + 1]
    <3>1. m + 1 \in 1 .. n /\ (m + 1) - 1 = m /\ m \in 0 .. m
      OBVIOUS
    <3>2. h[m] \in S[m]
      BY <2>1, <3>1 DEF Runs
    <3> QED
      BY <3>1, <3>2 DEF Fits
  <2>3. \E T : g \in [0 .. m + 1 -> T]
    <3>1. PICK T : h \in [0 .. m -> T]
      BY <2>1 DEF Runs
    <3>2. g \in [0 .. m + 1 -> T \cup {v}]
      BY <3>1
    <3> QED
      BY <3>2
  <2>4. g[m + 1] = v /\ \A i \in 0 .. m : g[i] = h[i]
    OBVIOUS
  <2> HIDE DEF g
  <2>5. \A i \in 0 .. m + 1 : i = m + 1 \/ i \in 0 .. m
    OBVIOUS
  <2>6. \A i \in 0 .. m + 1 : g[i] \in S[i]
    BY <2>1, <2>2, <2>4, <2>5 DEF Runs
  <2>7. g[0] = base
    BY <2>1, <2>4 DEF Runs
  <2>8. ASSUME NEW i \in 1 .. m + 1 PROVE g[i] = step[i][g[i - 1]]
    <3>1. i - 1 \in 0 .. m
      OBVIOUS
    <3>2. g[i - 1] = h[i - 1]
      BY <3>1, <2>4
    <3>3. CASE i = m + 1
      <4>1. i - 1 = m
        BY <3>3
      <4> QED
        BY <3>2, <3>3, <4>1, <2>4
    <3>4. CASE i # m + 1
      <4>1. i \in 1 .. m /\ i \in 0 .. m
        BY <3>4
      <4> QED
        BY <3>2, <4>1, <2>1, <2>4 DEF Runs
    <3> QED
      BY <3>3, <3>4
  <2>9. Runs(g, S, base, m + 1, step)
    BY <2>3, <2>6, <2>7, <2>8 DEF Runs
  <2> QED
    BY <2>9
<1>3. Nat \subseteq G
  <2> HIDE DEF G
  <2> QED
    BY <1>1, <1>2, NatSubset
<1>4. Good(n)
  BY <1>3
<1> QED
  BY <1>4

\* A function that satisfies the equation of a loop stays in the sets.
LEMMA LoopStays ==
  ASSUME NEW n \in Nat, NEW S, NEW h, h[0] \in S[0],
         \A i \in 1 .. n : h[i - 1] \in S[i - 1] => h[i] \in S[i]
  PROVE  h[n] \in S[n]
<1> DEFINE G == {i \in Nat : i <= n => h[i] \in S[i]}
<1>1. 0 \in G
  OBVIOUS
<1>2. ASSUME NEW m \in Nat, m \in G PROVE m + 1 \in G
  <2> SUFFICES ASSUME m + 1 <= n PROVE h[m + 1] \in S[m + 1]
    OBVIOUS
  <2>1. h[m] \in S[m] /\ m + 1 \in 1 .. n /\ (m + 1) - 1 = m
    BY <1>2
  <2> QED
    BY <2>1
<1>3. Nat \subseteq G
  <2> HIDE DEF G
  <2> QED
    BY <1>1, <1>2, NatSubset
<1> QED
  BY <1>3

-----------------------------------------------------------------------------
(* Machines under construction.                                            *)

\* A machine with n states whose arcs lead to states below N, also where those
\* are still to be added; with e it has the error bit.
Draft(n, N, e) ==
  {f \in [start : (0 .. N - 1) \cup {kNoStateId},
          states : [0 .. n - 1 -> StateType(N)],
          props : SUBSET kFstProperties] :
     (\A s \in 0 .. n - 1 : Counted(f.states[s])) /\ (e => Failed(f))}

\* What is to be shown of a record to know that it is a draft.
LEMMA MakeDraft ==
  ASSUME NEW n, NEW N, NEW e, NEW a \in (0 .. N - 1) \cup {kNoStateId},
         NEW Q \in [0 .. n - 1 -> StateType(N)], NEW P \in SUBSET kFstProperties,
         \A s \in 0 .. n - 1 : Counted(Q[s]), e => "Error" \in P
  PROVE  [start |-> a, states |-> Q, props |-> P] \in Draft(n, N, e)
<1> DEFINE r == [start |-> a, states |-> Q, props |-> P]
<1>1. r \in [start : (0 .. N - 1) \cup {kNoStateId},
             states : [0 .. n - 1 -> StateType(N)], props : SUBSET kFstProperties]
  OBVIOUS
<1>2. r.states = Q /\ r.props = P
  OBVIOUS
<1> HIDE DEF r
<1>3. r \in Draft(n, N, e)
  BY <1>1, <1>2 DEF Draft, Failed
<1> QED
  BY <1>3 DEF r

\* The parts of a draft.
LEMMA DraftFacts ==
  ASSUME NEW n \in Nat, NEW N, NEW e, NEW f \in Draft(n, N, e)
  PROVE  /\ f = [start |-> f.start, states |-> f.states, props |-> f.props]
         /\ f.start \in (0 .. N - 1) \cup {kNoStateId}
         /\ f.states \in [0 .. n - 1 -> StateType(N)]
         /\ f.props \in SUBSET kFstProperties
         /\ \A s \in 0 .. n - 1 : f.states[s] \in StateType(N) /\ Counted(f.states[s])
         /\ e => "Error" \in f.props
         /\ NumStates(f) = n /\ States(f) = 0 .. n - 1
<1>1. f \in [start : (0 .. N - 1) \cup {kNoStateId},
             states : [0 .. n - 1 -> StateType(N)], props : SUBSET kFstProperties]
  BY DEF Draft
<1>2. \A s \in 0 .. n - 1 : Counted(f.states[s])
  BY DEF Draft
<1>3. e => "Error" \in f.props
  BY DEF Draft, Failed
<1>4. DOMAIN f.states = 0 .. n - 1
  BY <1>1
<1>5. Cardinality(0 .. n - 1) = n
  <2>1. 0 \in Int /\ n - 1 \in Int
    OBVIOUS
  <2> QED
    BY <2>1, FS_Interval
<1>6. NumStates(f) = n
  BY <1>4, <1>5 DEF NumStates
<1>7. States(f) = 0 .. n - 1
  BY <1>6 DEF States
<1> QED
  BY <1>1, <1>2, <1>3, <1>6, <1>7

\* A state of a draft.
LEMMA DraftState ==
  ASSUME NEW n \in Nat, NEW N, NEW e, NEW f \in Draft(n, N, e), NEW s \in 0 .. n - 1
  PROVE  /\ f.states[s].final \in Weights
         /\ f.states[s].arcs \in Seq(ArcType(N))
         /\ Len(f.states[s].arcs) \in Nat
         /\ DOMAIN f.states[s].arcs = 1 .. Len(f.states[s].arcs)
         /\ \A i \in 1 .. Len(f.states[s].arcs) : f.states[s].arcs[i] \in ArcType(N)
<1>1. f.states[s] \in StateType(N)
  BY DraftFacts
<1>2. f.states[s].final \in Weights /\ f.states[s].arcs \in Seq(ArcType(N))
  BY <1>1 DEF StateType
<1> DEFINE q == f.states[s].arcs
<1>3. q \in Seq(ArcType(N))
  BY <1>2
<1> HIDE DEF q
<1>4. /\ Len(q) \in Nat /\ DOMAIN q = 1 .. Len(q)
      /\ \A i \in 1 .. Len(q) : q[i] \in ArcType(N)
  BY <1>3
<1> QED
  BY <1>2, <1>4 DEF q

\* A finished draft is a machine, and a machine is a finished draft.
LEMMA DraftDone ==
  ASSUME NEW n \in Nat, NEW e, NEW f \in Draft(n, n, e)
  PROVE  IsVectorFst(f) /\ (e => Failed(f)) /\ NumStates(f) = n
<1>1. f \in [start : (0 .. n - 1) \cup {kNoStateId},
             states : [0 .. n - 1 -> StateType(n)], props : SUBSET kFstProperties]
  BY DEF Draft
<1>2. \A s \in 0 .. n - 1 : Counted(f.states[s])
  BY DraftFacts
<1> QED
  BY <1>1, <1>2, MakeMachine, DraftFacts DEF Failed

\* A machine that an operation extends to N states is a draft.
LEMMA DraftBegun ==
  ASSUME NEW f, IsVectorFst(f), NEW N \in Nat, NumStates(f) <= N
  PROVE  NumStates(f) \in Nat /\ f \in Draft(NumStates(f), N, Failed(f))
<1> DEFINE n == NumStates(f)
<1>1. /\ n \in Nat /\ States(f) = 0 .. n - 1
      /\ f.start \in (0 .. n - 1) \cup {kNoStateId}
      /\ f.states \in [0 .. n - 1 -> StateType(n)] /\ f.props \in SUBSET kFstProperties
      /\ f = [start |-> f.start, states |-> f.states, props |-> f.props]
  BY MachineFacts
<1>2. \A s \in 0 .. n - 1 : Counted(f.states[s])
  BY <1>1, StateFacts
<1>3. n <= N
  OBVIOUS
<1> HIDE DEF n
<1>4. ArcType(n) \subseteq ArcType(N)
  BY <1>1, <1>3 DEF ArcType
<1>5. Seq(ArcType(n)) \subseteq Seq(ArcType(N))
  BY <1>4
<1>6. StateType(n) \subseteq StateType(N)
  BY <1>5 DEF StateType
<1>7. f.states \in [0 .. n - 1 -> StateType(N)] /\ f.start \in (0 .. N - 1) \cup {kNoStateId}
  BY <1>1, <1>3, <1>6
<1>8. Failed(f) => "Error" \in f.props
  BY DEF Failed
<1>9. [start |-> f.start, states |-> f.states, props |-> f.props] \in Draft(n, N, Failed(f))
  BY <1>1, <1>2, <1>7, <1>8, MakeDraft
<1> QED
  BY <1>1, <1>9 DEF n

-----------------------------------------------------------------------------
(* Every mutator turns drafts into drafts, and none loses the error bit.   *)

\* A draft one of whose states is replaced.
LEMMA DraftReplaced ==
  ASSUME NEW n \in Nat, NEW N, NEW e, NEW f \in Draft(n, N, e), NEW s \in 0 .. n - 1,
         NEW st \in StateType(N), Counted(st), NEW P \in SUBSET kFstProperties,
         e => "Error" \in P
  PROVE  /\ Replaced(f, s, st, P) \in Draft(n, N, e)
         /\ Replaced(f, s, st, P).states[s] = st
<1> DEFINE Q == [f.states EXCEPT ![s] = st]
           g == Replaced(f, s, st, P)
<1>1. /\ f = [start |-> f.start, states |-> f.states, props |-> f.props]
      /\ f.start \in (0 .. N - 1) \cup {kNoStateId}
      /\ f.states \in [0 .. n - 1 -> StateType(N)]
      /\ \A u \in 0 .. n - 1 : Counted(f.states[u])
  BY DraftFacts
<1>2. g = [f EXCEPT !.states = Q, !.props = P]
  BY DEF Replaced
<1>3. Q \in [0 .. n - 1 -> StateType(N)] /\ Q[s] = st /\ \A u \in 0 .. n - 1 : Counted(Q[u])
  BY <1>1
<1> HIDE DEF Q, g
<1>4. g = [start |-> f.start, states |-> Q, props |-> P]
  BY <1>1, <1>2
<1>5. g.states[s] = st
  BY <1>3, <1>4
<1>6. g \in Draft(n, N, e)
  BY <1>1, <1>3, <1>4, MakeDraft
<1> QED
  BY <1>5, <1>6 DEF g

\* SetStart, to a state that exists or is still to be added.
LEMMA SetStartDraft ==
  ASSUME NEW n \in Nat, NEW N, NEW e, NEW f \in Draft(n, N, e), NEW s \in 0 .. N - 1
  PROVE  SetStart(f, s) \in Draft(n, N, e)
<1> DEFINE P == StoreProperties(f.props, SetStartProperties(f.props))
           g == SetStart(f, s)
<1>1. /\ f = [start |-> f.start, states |-> f.states, props |-> f.props]
      /\ f.states \in [0 .. n - 1 -> StateType(N)]
      /\ \A u \in 0 .. n - 1 : Counted(f.states[u])
      /\ f.props \in SUBSET kFstProperties /\ (e => "Error" \in f.props)
  BY DraftFacts
<1>2. P \in SUBSET kFstProperties /\ (e => "Error" \in P)
  BY <1>1, TrinaryBits DEF StoreProperties, SetStartProperties, If
<1>3. g = [f EXCEPT !.start = s, !.props = P]
  BY DEF SetStart
<1> HIDE DEF P, g
<1>4. g = [start |-> s, states |-> f.states, props |-> P]
  BY <1>1, <1>3
<1>5. g \in Draft(n, N, e)
  BY <1>1, <1>2, <1>4, MakeDraft
<1> QED
  BY <1>5 DEF g

\* SetFinal.
LEMMA SetFinalDraft ==
  ASSUME NEW n \in Nat, NEW N, NEW e, NEW f \in Draft(n, N, e), NEW s \in 0 .. n - 1,
         NEW w \in Weights
  PROVE  SetFinal(f, s, w) \in Draft(n, N, e)
<1> DEFINE P == StoreProperties(f.props,
                  SetFinalProperties(f.props, Nontrivial(f.states[s].final), Nontrivial(w)))
           st == [f.states[s] EXCEPT !.final = w]
<1>1. /\ f.states[s] \in StateType(N) /\ Counted(f.states[s])
      /\ f.props \in SUBSET kFstProperties /\ (e => "Error" \in f.props)
  BY DraftFacts
<1>2. P \in SUBSET kFstProperties /\ (e => "Error" \in P)
  BY <1>1, TrinaryBits DEF StoreProperties, SetFinalProperties, kSetFinalProperties, If
<1>3. /\ st \in StateType(N) /\ st.arcs = f.states[s].arcs
      /\ st.niepsilons = f.states[s].niepsilons /\ st.noepsilons = f.states[s].noepsilons
  BY <1>1 DEF StateType
<1>4. Counted(st)
  BY <1>1, <1>3 DEF Counted
<1>5. SetFinal(f, s, w) = Replaced(f, s, st, P)
  BY DEF SetFinal, Replaced
<1> HIDE DEF P, st
<1> QED
  BY <1>2, <1>3, <1>4, <1>5, DraftReplaced

\* AddStates.
LEMMA AddStatesDraft ==
  ASSUME NEW n \in Nat, NEW N, NEW e, NEW f \in Draft(n, N, e), NEW k \in Nat
  PROVE  AddStates(f, k) \in Draft(n + k, N, e)
<1> DEFINE m == n + k
           g == AddStates(f, k)
           P == StoreProperties(f.props, AddStateProperties(f.props))
           Q == [s \in 0 .. m - 1 |-> IF s \in States(f) THEN f.states[s] ELSE VectorState]
<1>1. /\ f = [start |-> f.start, states |-> f.states, props |-> f.props]
      /\ f.start \in (0 .. N - 1) \cup {kNoStateId}
      /\ f.states \in [0 .. n - 1 -> StateType(N)]
      /\ \A u \in 0 .. n - 1 : f.states[u] \in StateType(N) /\ Counted(f.states[u])
      /\ f.props \in SUBSET kFstProperties /\ (e => "Error" \in f.props)
      /\ NumStates(f) = n /\ States(f) = 0 .. n - 1
  BY DraftFacts
<1>2. P \in SUBSET kFstProperties /\ (e => "Error" \in P)
  BY <1>1, TrinaryBits DEF StoreProperties, AddStateProperties, kAddStateProperties
<1>3. g = [f EXCEPT !.states = Q, !.props = P]
  <2>1. 0 .. m - 1 = 0 .. NumStates(f) + k - 1
    BY <1>1
  <2> QED
    BY <2>1, Zenon DEF AddStates
<1>4. VectorState \in StateType(N) /\ Counted(VectorState)
  <2>1. VectorState \in StateType(N)
    BY DEF VectorState, StateType, Weights
  <2>2. VectorState.arcs = <<>> /\ VectorState.niepsilons = 0 /\ VectorState.noepsilons = 0
    BY DEF VectorState
  <2>3. IEpsilonsAt(<<>>, DOMAIN <<>>) = {} /\ OEpsilonsAt(<<>>, DOMAIN <<>>) = {}
    BY DEF IEpsilonsAt, OEpsilonsAt
  <2> QED
    BY <2>1, <2>2, <2>3, FS_EmptySet DEF Counted
<1>5. Q \in [0 .. m - 1 -> StateType(N)] /\ \A u \in 0 .. m - 1 : Counted(Q[u])
  BY <1>1, <1>4
<1> HIDE DEF P, Q, g
<1>6. g = [start |-> f.start, states |-> Q, props |-> P]
  BY <1>1, <1>3
<1>7. g \in Draft(m, N, e)
  BY <1>1, <1>2, <1>5, <1>6, MakeDraft
<1> QED
  BY <1>7 DEF g

\* AddState.
LEMMA AddStateDraft ==
  ASSUME NEW n \in Nat, NEW N, NEW e, NEW f \in Draft(n, N, e)
  PROVE  AddState(f) \in Draft(n + 1, N, e)
BY AddStatesDraft DEF AddState

\* AddArc.
LEMMA AddArcDraft ==
  ASSUME NEW n \in Nat, NEW N \in Nat, NEW e, NEW f \in Draft(n, N, e), NEW s \in 0 .. n - 1,
         NEW a \in ArcType(N)
  PROVE  AddArc(f, s, a) \in Draft(n, N, e)
<1> DEFINE P == StoreProperties(f.props,
                  AddArcProperties(f.props, s, a, Nontrivial(a.weight), f.states[s].arcs))
           st == StateAddArc(f.states[s], a)
<1>1. /\ f.states[s] \in StateType(N) /\ Counted(f.states[s])
      /\ f.props \in SUBSET kFstProperties /\ (e => "Error" \in f.props)
  BY DraftFacts
<1>2. P \in SUBSET kFstProperties /\ (e => "Error" \in P)
  BY <1>1, TrinaryBits
     DEF StoreProperties, AddArcProperties, kAddArcProperties, kSetArcProperties, If
<1>3. st \in StateType(N) /\ Counted(st)
  BY <1>1, StateAddArcFacts, Zenon
<1>4. AddArc(f, s, a) = Replaced(f, s, st, P)
  BY DEF AddArc, Replaced
<1> HIDE DEF P, st
<1> QED
  BY <1>2, <1>3, <1>4, DraftReplaced

\* DeleteArcs.
LEMMA DeleteArcsDraft ==
  ASSUME NEW n \in Nat, NEW N \in Nat, NEW e, NEW f \in Draft(n, N, e), NEW s \in 0 .. n - 1,
         NEW k \in Nat
  PROVE  DeleteArcs(f, s, k) \in Draft(n, N, e)
<1> DEFINE P == StoreProperties(f.props, DeleteArcsProperties(f.props))
           st == StateDeleteArcs(f.states[s], k)
<1>1. /\ f.states[s] \in StateType(N) /\ Counted(f.states[s])
      /\ f.props \in SUBSET kFstProperties /\ (e => "Error" \in f.props)
  BY DraftFacts
<1>2. P \in SUBSET kFstProperties /\ (e => "Error" \in P)
  BY <1>1 DEF StoreProperties, DeleteArcsProperties
<1>3. st \in StateType(N) /\ Counted(st)
  BY <1>1, StateDeleteArcsFacts, Zenon
<1>4. DeleteArcs(f, s, k) = Replaced(f, s, st, P)
  BY DEF DeleteArcs, Replaced
<1> HIDE DEF P, st
<1> QED
  BY <1>2, <1>3, <1>4, DraftReplaced

\* The drafts in which state s has L arcs.
WithArcs(n, N, e, s, L) == {f \in Draft(n, N, e) : Len(f.states[s].arcs) = L}

\* SetValue stores its bits directly: the error bit is not one that an arc clears.
LEMMA SetValueDraft ==
  ASSUME NEW n \in Nat, NEW N \in Nat, NEW e, NEW f \in Draft(n, N, e), NEW s \in 0 .. n - 1,
         NEW i \in DOMAIN f.states[s].arcs, NEW a \in ArcType(N)
  PROVE  SetValue(f, s, i, a) \in WithArcs(n, N, e, s, Len(f.states[s].arcs))
<1> DEFINE o == f.states[s].arcs[i]
           P == SetValueProperties(f.props, o, Nontrivial(o.weight), a, Nontrivial(a.weight))
           st == StateSetArc(f.states[s], a, i)
<1>1. /\ f.states[s] \in StateType(N) /\ Counted(f.states[s])
      /\ f.props \in SUBSET kFstProperties /\ (e => "Error" \in f.props)
  BY DraftFacts
<1>2. P \in SUBSET kFstProperties
  BY TrinaryBits DEF SetValueProperties, kSetArcProperties
<1>3. ASSUME e PROVE "Error" \in P
  <2>1. \A p \in ArcPairs(o, Nontrivial(o.weight)) : p[1] # "Error"
    BY DEF ArcPairs, If
  <2>2. \A p \in ArcPairs(a, Nontrivial(a.weight)) : p[2] # "Error"
    BY DEF ArcPairs, If
  <2> QED
    BY <1>1, <1>3, <2>1, <2>2 DEF SetValueProperties, Raise, kSetArcProperties
<1>4. st \in StateType(N) /\ Counted(st) /\ Len(st.arcs) = Len(f.states[s].arcs)
  <2>1. f.states[s] \in StateType(N) /\ Counted(f.states[s])
    BY <1>1
  <2>2. /\ st \in StateType(N) /\ Counted(st) /\ st.final = f.states[s].final
        /\ Len(st.arcs) = Len(f.states[s].arcs)
        /\ st.arcs[i] = a
        /\ \A j \in 1 .. Len(f.states[s].arcs) : j # i => st.arcs[j] = f.states[s].arcs[j]
    BY <2>1, StateSetArcFacts, Zenon
  <2> QED
    BY <2>2, Zenon
<1>5. SetValue(f, s, i, a) = Replaced(f, s, st, P)
  BY DEF SetValue, Replaced
<1> HIDE DEF P, st
<1>6. /\ Replaced(f, s, st, P) \in Draft(n, N, e)
      /\ Replaced(f, s, st, P).states[s] = st
  <2>1. e => "Error" \in P
    BY <1>3
  <2>2. st \in StateType(N) /\ Counted(st)
    BY <1>4
  <2>3. Replaced(f, s, st, P) \in Draft(n, N, e)
    BY <1>2, <2>1, <2>2, DraftReplaced
  <2>4. Replaced(f, s, st, P).states[s] = st
    BY <1>2, <2>1, <2>2, DraftReplaced
  <2> QED
    BY <2>3, <2>4
<1> QED
  BY <1>4, <1>5, <1>6 DEF WithArcs

\* SetProperties sets the error bit if it is asked to, and never clears it.
LEMMA SetPropertiesDraft ==
  ASSUME NEW n \in Nat, NEW N, NEW e, NEW f \in Draft(n, N, e), NEW d,
         NEW P, NEW mask \in SUBSET kFstProperties,
         d => e \/ "Error" \in P \cap mask
  PROVE  SetProperties(f, P, mask) \in Draft(n, N, d)
<1> DEFINE R == StoreMasked(f.props, P, mask)
           g == SetProperties(f, P, mask)
<1>1. /\ f = [start |-> f.start, states |-> f.states, props |-> f.props]
      /\ f.start \in (0 .. N - 1) \cup {kNoStateId}
      /\ f.states \in [0 .. n - 1 -> StateType(N)]
      /\ \A u \in 0 .. n - 1 : Counted(f.states[u])
      /\ f.props \in SUBSET kFstProperties /\ (e => "Error" \in f.props)
  BY DraftFacts
<1>2. R \in SUBSET kFstProperties /\ (d => "Error" \in R)
  BY <1>1 DEF StoreMasked
<1>3. g = [f EXCEPT !.props = R]
  BY DEF SetProperties
<1> HIDE DEF R, g
<1>4. g = [start |-> f.start, states |-> f.states, props |-> R]
  BY <1>1, <1>3
<1>5. g \in Draft(n, N, d)
  BY <1>1, <1>2, <1>4, MakeDraft
<1> QED
  BY <1>5 DEF g

-----------------------------------------------------------------------------
(* Loops over arcs and states.                                             *)

\* The loop that appends arcs to a state.
LEMMA AddArcsDraft ==
  ASSUME NEW n \in Nat, NEW N \in Nat, NEW e, NEW f \in Draft(n, N, e), NEW s \in 0 .. n - 1,
         NEW arcs \in Seq(ArcType(N))
  PROVE  AddArcs(f, s, arcs) \in Draft(n, N, e)
<1> DEFINE L == Len(arcs)
           Op(x, i) == AddArc(x, s, arcs[i])
           S == [i \in 0 .. L |-> Draft(n, N, e)]
           step == [i \in 1 .. L |-> [x \in S[i - 1] |-> Op(x, i)]]
           F(h) == [i \in 0 .. L |-> IF i = 0 THEN f ELSE Op(h[i - 1], i)]
           after == CHOOSE h : h = F(h)
<1>1. L \in Nat /\ f \in S[0]
  OBVIOUS
<1>2. ASSUME NEW i \in 1 .. L, NEW x \in S[i - 1] PROVE Op(x, i) \in S[i]
  <2>1. x \in Draft(n, N, e) /\ arcs[i] \in ArcType(N)
    BY <1>1
  <2>2. Op(x, i) \in Draft(n, N, e)
    <3> HIDE DEF S
    <3> QED
      BY <2>1, AddArcDraft
  <2> HIDE DEF Op
  <2> QED
    BY <2>2, <1>1
<1>3. AddArcs(f, s, arcs) = after[L]
  BY DEF AddArcs
<1> HIDE DEF L, Op, S
<1>4. Fits(S, L, step)
  BY <1>2 DEF Fits
<1>5. PICK k : Runs(k, S, f, L, step)
  <2> HIDE DEF step
  <2> QED
    BY <1>1, <1>4, LoopRuns
<1>6. k = F(k)
  <2>1. PICK T : k \in [0 .. L -> T]
    BY <1>5 DEF Runs
  <2>2. \A i \in 1 .. L : i - 1 \in 0 .. L
    BY <1>1
  <2>3. k[0] = f /\ \A i \in 1 .. L : k[i] = step[i][k[i - 1]] /\ k[i - 1] \in S[i - 1]
    <3> HIDE DEF step
    <3> QED
      BY <2>2, <1>5 DEF Runs
  <2>4. \A i \in 1 .. L : k[i] = Op(k[i - 1], i)
    BY <2>3
  <2> HIDE DEF step
  <2>5. \A i \in 0 .. L : i = 0 \/ i \in 1 .. L
    BY <1>1
  <2>6. \A i \in 0 .. L : k[i] = F(k)[i]
    BY <2>3, <2>4, <2>5
  <2> QED
    BY <2>1, <2>6
<1>7. after = F(after)
  <2> HIDE DEF F
  <2> QED
    BY <1>6
<1> HIDE DEF after
<1>8. after[0] = f /\ \A i \in 1 .. L : after[i] = Op(after[i - 1], i)
  <2>1. 0 \in 0 .. L /\ \A i \in 1 .. L : i \in 0 .. L /\ i # 0
    BY <1>1
  <2> QED
    BY <1>7, <2>1
<1>9. \A i \in 1 .. L : after[i - 1] \in S[i - 1] => after[i] \in S[i]
  BY <1>2, <1>8
<1>10. after[L] \in S[L]
  BY <1>1, <1>8, <1>9, LoopStays
<1>11. S[L] = Draft(n, N, e)
  BY <1>1 DEF S
<1> QED
  BY <1>3, <1>10, <1>11

\* An epsilon arc to a state below N.
LEMMA EpsilonType ==
  ASSUME NEW N \in Nat, NEW w \in Weights, NEW t \in 0 .. N - 1
  PROVE  Epsilon(w, t) \in ArcType(N)
BY DEF Epsilon, Arc, ArcType

\* The arcs of a machine with m states, appended after n states.
LEMMA ShiftedType ==
  ASSUME NEW m \in Nat, NEW n \in Nat, NEW N \in Nat, n + m <= N, NEW arcs \in Seq(ArcType(m))
  PROVE  Shifted(arcs, n) \in Seq(ArcType(N))
<1> DEFINE L == Len(arcs)
<1>1. L \in Nat /\ DOMAIN arcs = 1 .. L
  OBVIOUS
<1>2. ASSUME NEW i \in 1 .. L PROVE [arcs[i] EXCEPT !.nextstate = @ + n] \in ArcType(N)
  <2>1. arcs[i] \in ArcType(m)
    OBVIOUS
  <2>2. arcs[i].nextstate + n \in 0 .. N - 1
    <3>1. arcs[i].nextstate \in 0 .. m - 1
      BY <2>1, Zenon DEF ArcType
    <3> DEFINE t == arcs[i].nextstate
    <3> HIDE DEF t
    <3>2. t \in 0 .. m - 1 => t + n \in 0 .. N - 1
      OBVIOUS
    <3> QED
      BY <3>1, <3>2, Zenon DEF t
  <2> QED
    BY <2>1, <2>2 DEF ArcType
<1> HIDE DEF L
<1>3. Shifted(arcs, n) = [i \in 1 .. L |-> [arcs[i] EXCEPT !.nextstate = @ + n]]
  BY <1>1 DEF Shifted
<1>4. Shifted(arcs, n) \in [1 .. L -> ArcType(N)]
  BY <1>2, <1>3
<1> QED
  BY <1>1, <1>4

\* Union and Concat append a state of their second argument.
LEMMA CopyStateDraft ==
  ASSUME NEW k \in Nat, NEW N \in Nat, NEW e, NEW f \in Draft(k, N, e),
         NEW g, IsVectorFst(g), NEW s \in States(g), NEW n \in Nat, n + NumStates(g) <= N
  PROVE  CopyState(f, g, s, n) \in Draft(k + 1, N, e)
<1> DEFINE q == Shifted(g.states[s].arcs, n)
           added == SetFinal(AddState(f), k, g.states[s].final)
<1>1. NumStates(f) = k /\ k + 1 \in Nat /\ k \in 0 .. (k + 1) - 1
  BY DraftFacts
<1>2. NumStates(g) \in Nat /\ g.states[s].final \in Weights
  BY MachineFacts, StateFacts
<1>3. q \in Seq(ArcType(N))
  <2>1. g.states[s].arcs \in Seq(ArcType(NumStates(g)))
    BY StateFacts
  <2> QED
    BY <1>2, <2>1, ShiftedType
<1>4. AddState(f) \in Draft(k + 1, N, e)
  BY AddStateDraft
<1>5. added \in Draft(k + 1, N, e)
  BY <1>1, <1>2, <1>4, SetFinalDraft
<1> HIDE DEF q, added
<1>6. AddArcs(added, k, q) \in Draft(k + 1, N, e)
  BY <1>1, <1>3, <1>5, AddArcsDraft
<1> QED
  BY <1>1, <1>6 DEF CopyState, added, q

\* The loop that appends all of them.
LEMMA CopyStatesDraft ==
  ASSUME NEW f, IsVectorFst(f), NEW g, IsVectorFst(g), NEW N \in Nat,
         NumStates(f) + NumStates(g) <= N
  PROVE  CopyStates(f, g) \in Draft(NumStates(f) + NumStates(g), N, Failed(f))
<1> DEFINE n == NumStates(f)
           e == Failed(f)
           L == NumStates(g)
           Op(x, i) == CopyState(x, g, i - 1, n)
           S == [i \in 0 .. L |-> Draft(n + i, N, e)]
           step == [i \in 1 .. L |-> [x \in S[i - 1] |-> Op(x, i)]]
           F(h) == [i \in 0 .. L |-> IF i = 0 THEN f ELSE Op(h[i - 1], i)]
           after == CHOOSE h : h = F(h)
<1>1. L \in Nat /\ f \in S[0]
  <2>1. n \in Nat /\ L \in Nat /\ States(g) = 0 .. L - 1
    BY MachineFacts
  <2>2. f \in Draft(n, N, e)
    BY <2>1, DraftBegun
  <2> QED
    BY <2>1, <2>2
<1>2. ASSUME NEW i \in 1 .. L, NEW x \in S[i - 1] PROVE Op(x, i) \in S[i]
  <2>1. n \in Nat /\ States(g) = 0 .. L - 1
    BY MachineFacts
  <2>2. /\ i - 1 \in States(g) /\ n + (i - 1) \in Nat /\ (n + (i - 1)) + 1 = n + i
        /\ x \in Draft(n + (i - 1), N, e) /\ n + L <= N
    BY <1>1, <2>1
  <2> HIDE DEF S
  <2>3. Op(x, i) \in Draft((n + (i - 1)) + 1, N, e)
    <3> HIDE DEF n, e
    <3> QED
      BY <2>1, <2>2, CopyStateDraft
  <2> HIDE DEF Op
  <2>4. i \in 0 .. L
    BY <1>1
  <2> QED
    BY <2>2, <2>3, <2>4 DEF S
<1>3. CopyStates(f, g) = after[L]
  BY DEF CopyStates
<1> HIDE DEF L, Op, S
<1>4. Fits(S, L, step)
  BY <1>2 DEF Fits
<1>5. PICK k : Runs(k, S, f, L, step)
  <2> HIDE DEF step
  <2> QED
    BY <1>1, <1>4, LoopRuns
<1>6. k = F(k)
  <2>1. PICK T : k \in [0 .. L -> T]
    BY <1>5 DEF Runs
  <2>2. \A i \in 1 .. L : i - 1 \in 0 .. L
    BY <1>1
  <2>3. k[0] = f /\ \A i \in 1 .. L : k[i] = step[i][k[i - 1]] /\ k[i - 1] \in S[i - 1]
    <3> HIDE DEF step
    <3> QED
      BY <2>2, <1>5 DEF Runs
  <2>4. \A i \in 1 .. L : k[i] = Op(k[i - 1], i)
    BY <2>3
  <2> HIDE DEF step
  <2>5. \A i \in 0 .. L : i = 0 \/ i \in 1 .. L
    BY <1>1
  <2>6. \A i \in 0 .. L : k[i] = F(k)[i]
    BY <2>3, <2>4, <2>5
  <2> QED
    BY <2>1, <2>6
<1>7. after = F(after)
  <2> HIDE DEF F
  <2> QED
    BY <1>6
<1> HIDE DEF after
<1>8. after[0] = f /\ \A i \in 1 .. L : after[i] = Op(after[i - 1], i)
  <2>1. 0 \in 0 .. L /\ \A i \in 1 .. L : i \in 0 .. L /\ i # 0
    BY <1>1
  <2> QED
    BY <1>7, <2>1
<1>9. \A i \in 1 .. L : after[i - 1] \in S[i - 1] => after[i] \in S[i]
  BY <1>2, <1>8
<1>10. after[L] \in S[L]
  BY <1>1, <1>8, <1>9, LoopStays
<1>11. S[L] = Draft(NumStates(f) + NumStates(g), N, Failed(f))
  BY <1>1 DEF S, L
<1> QED
  BY <1>3, <1>10, <1>11

-----------------------------------------------------------------------------
(* Union.                                                                  *)

\* A machine that has the error bit if e.
Machine(f, e) == IsVectorFst(f) /\ (e => Failed(f))

\* A finished draft.
LEMMA DraftMachine ==
  ASSUME NEW n \in Nat, NEW e, NEW f \in Draft(n, n, e)
  PROVE  Machine(f, e)
BY DraftDone DEF Machine

\* A machine as a draft.
LEMMA MachineDraft ==
  ASSUME NEW f, IsVectorFst(f)
  PROVE  /\ NumStates(f) \in Nat /\ States(f) = 0 .. NumStates(f) - 1
         /\ f \in Draft(NumStates(f), NumStates(f), Failed(f))
<1>1. NumStates(f) \in Nat /\ NumStates(f) <= NumStates(f) /\ States(f) = 0 .. NumStates(f) - 1
  BY MachineFacts
<1> QED
  BY <1>1, DraftBegun

\* SetProperties(kError, kError).
LEMMA SetErrorDraft ==
  ASSUME NEW n \in Nat, NEW N, NEW e, NEW f \in Draft(n, N, e)
  PROVE  SetError(f) \in Draft(n, N, TRUE)
<1>1. {"Error"} \in SUBSET kFstProperties
  BY TrinaryBits
<1>2. SetProperties(f, {"Error"}, {"Error"}) \in Draft(n, N, TRUE)
  BY <1>1, SetPropertiesDraft
<1> QED
  BY <1>2 DEF SetError

\* An early return passes the error of the other argument on.
LEMMA PassErrorDraft ==
  ASSUME NEW n \in Nat, NEW N, NEW e, NEW f \in Draft(n, N, e), NEW g
  PROVE  PassError(f, g) \in Draft(n, N, e \/ Failed(g))
<1>1. CASE "Error" \in g.props
  <2>1. PassError(f, g) = SetError(f)
    BY <1>1 DEF PassError
  <2>2. SetError(f) \in Draft(n, N, TRUE)
    BY SetErrorDraft
  <2> QED
    BY <2>1, <2>2 DEF Draft
<1>2. CASE ~ ("Error" \in g.props)
  <2>1. PassError(f, g) = f /\ ~ Failed(g)
    BY <1>2 DEF PassError, Failed
  <2> QED
    BY <2>1 DEF Draft
<1> QED
  BY <1>1, <1>2

\* What the last step of an operation makes of a finished draft.
LEMMA ResultMachine ==
  ASSUME NEW n \in Nat, NEW e, NEW f \in Draft(n, n, e), NEW d,
         NEW P, NEW mask \in SUBSET kFstProperties, d => e \/ "Error" \in P \cap mask
  PROVE  Machine(SetProperties(f, P, mask), d)
BY SetPropertiesDraft, DraftMachine

\* Union, on each of its four paths.
LEMMA UnionMachine ==
  ASSUME NEW f, IsVectorFst(f), NEW g, IsVectorFst(g)
  PROVE  Machine(Union(f, g), Failed(f) \/ Failed(g))
<1> DEFINE n == NumStates(f)
           m == NumStates(g)
           e == Failed(f)
           d == Failed(f) \/ Failed(g)
           start2 == g.start + n
           copied == CopyStates(f, g)
           started == SetStart(copied, start2)
           nstart == NumStates(copied)
<1>1. /\ n \in Nat /\ m \in Nat /\ n + m \in Nat /\ n + m + 1 \in Nat
      /\ f.start \in (0 .. n - 1) \cup {kNoStateId} /\ g.start \in (0 .. m - 1) \cup {kNoStateId}
      /\ f.props \in SUBSET kFstProperties /\ g.props \in SUBSET kFstProperties
  BY MachineFacts
<1>2. copied \in Draft(n + m, n + m, e) /\ copied \in Draft(n + m, n + m + 1, e)
  BY <1>1, CopyStatesDraft
<1>3. kCopyProperties \in SUBSET kFstProperties /\ "Error" \in kCopyProperties
  BY TrinaryBits DEF kCopyProperties
<1>4. "Error" \in kFstProperties
  BY TrinaryBits
<1>5. CASE g.start = kNoStateId
  <2>1. Union(f, g) = PassError(f, g)
    BY <1>5 DEF Union
  <2>2. f \in Draft(n, n, e)
    BY MachineDraft
  <2>3. PassError(f, g) \in Draft(n, n, d)
    BY <1>1, <2>2, PassErrorDraft
  <2> QED
    BY <1>1, <2>1, <2>3, DraftMachine
<1>6. CASE g.start # kNoStateId /\ f.start = kNoStateId
  <2>1. start2 \in 0 .. (n + m) - 1
    BY <1>1, <1>6
  <2>2. started \in Draft(n + m, n + m, e)
    <3> HIDE DEF copied, start2
    <3> QED
      BY <1>1, <1>2, <2>1, SetStartDraft
  <2>3. CASE n = 0
    <3> DEFINE P == g.props \cup (f.props \cap {"Error"})
    <3>1. Union(f, g) = SetProperties(started, P, kCopyProperties)
      BY <1>6, <2>3 DEF Union
    <3>2. d => e \/ "Error" \in P \cap kCopyProperties
      BY <1>3 DEF Failed
    <3> HIDE DEF P, started, n, m, d, e
    <3>3. Machine(SetProperties(started, P, kCopyProperties), d)
      BY <1>1, <1>3, <2>2, <3>2, ResultMachine
    <3> QED
      BY <3>1, <3>3 DEF d
  <2>4. CASE n # 0
    <3>1. Union(f, g) = PassError(started, g)
      <4>1. NumStates(f) > 0 /\ NumStates(f) # 0
        BY <1>1, <2>4
      <4> QED
        BY <1>6, <4>1 DEF Union
    <3> HIDE DEF started, n, m, e
    <3>2. PassError(started, g) \in Draft(n + m, n + m, e \/ Failed(g))
      BY <1>1, <2>2, PassErrorDraft
    <3>3. Machine(PassError(started, g), e \/ Failed(g))
      BY <1>1, <3>2, DraftMachine
    <3> QED
      BY <3>1, <3>3 DEF e
  <2> QED
    BY <2>3, <2>4
<1>7. CASE g.start # kNoStateId /\ f.start # kNoStateId
  <2> DEFINE P == UnionProperties(f.props, g.props, FALSE)
             one == AddArc(copied, f.start, Epsilon("One", start2))
             two == << Epsilon("One", f.start), Epsilon("One", start2) >>
             both == AddArcs(SetStart(AddState(copied), nstart), nstart, two)
  <2>1. /\ f.start \in 0 .. n - 1 /\ f.start \in 0 .. (n + m) - 1 /\ f.start \in 0 .. (n + m + 1) - 1
        /\ start2 \in 0 .. (n + m) - 1 /\ start2 \in 0 .. (n + m + 1) - 1 /\ "One" \in Weights
        /\ nstart = n + m /\ n + m \in 0 .. (n + m + 1) - 1
    <3>1. nstart = n + m
      <4> HIDE DEF copied
      <4> QED
        BY <1>1, <1>2, DraftFacts
    <3> HIDE DEF nstart
    <3> QED
      BY <1>1, <1>7, <3>1 DEF Weights
  <2>2. d => "Error" \in P \cap kFstProperties
    BY <1>4 DEF UnionProperties, Failed
  <2>3. CASE "InitialAcyclic" \in f.props
    <3>1. Union(f, g) = SetProperties(one, P, kFstProperties)
      BY <1>7, <2>3 DEF Union
    <3>2. Epsilon("One", start2) \in ArcType(n + m)
      <4> HIDE DEF start2, n, m
      <4> QED
        BY <1>1, <2>1, EpsilonType
    <3>3. one \in Draft(n + m, n + m, e)
      <4> HIDE DEF start2, copied, n, m, e
      <4> QED
        BY <1>1, <1>2, <2>1, <3>2, AddArcDraft
    <3> HIDE DEF one, P, n, m, d, e
    <3>4. Machine(SetProperties(one, P, kFstProperties), d)
      BY <1>1, <2>2, <3>3, ResultMachine
    <3> QED
      BY <3>1, <3>4 DEF d
  <2>4. CASE "InitialAcyclic" \notin f.props
    <3> DEFINE k == n + m + 1
    <3>1. Union(f, g) = SetProperties(both, P, kFstProperties)
      BY <1>7, <2>4 DEF Union
    <3>2. two \in Seq(ArcType(k))
      <4>1. Epsilon("One", f.start) \in ArcType(k) /\ Epsilon("One", start2) \in ArcType(k)
        <5> HIDE DEF start2, n, m
        <5> QED
          BY <1>1, <2>1, EpsilonType
      <4> QED
        BY <4>1
    <3>3. AddState(copied) \in Draft(k, k, e)
      <4> HIDE DEF copied, n, m, e
      <4>1. AddState(copied) \in Draft(n + m + 1, k, e)
        BY <1>1, <1>2, AddStateDraft
      <4> QED
        BY <4>1
    <3>4. k \in Nat /\ nstart \in 0 .. k - 1
      BY <1>1, <2>1
    <3>5. SetStart(AddState(copied), nstart) \in Draft(k, k, e)
      <4> HIDE DEF nstart, copied, k, e
      <4> QED
        BY <3>3, <3>4, SetStartDraft
    <3>6. both \in Draft(k, k, e)
      <4> HIDE DEF nstart, copied, k, e, two
      <4> QED
        BY <3>2, <3>4, <3>5, AddArcsDraft
    <3> HIDE DEF both, P, k, d, e
    <3>7. Machine(SetProperties(both, P, kFstProperties), d)
      BY <2>2, <3>4, <3>6, ResultMachine
    <3> QED
      BY <3>1, <3>7 DEF d
  <2> QED
    BY <2>3, <2>4
<1> QED
  BY <1>5, <1>6, <1>7

-----------------------------------------------------------------------------
(* Concat.                                                                 *)

\* Concat turns a final weight into an arc to the second machine.
LEMMA RedirectDraft ==
  ASSUME NEW k \in Nat, NEW N \in Nat, NEW e, NEW f \in Draft(k, N, e), NEW s \in 0 .. k - 1,
         NEW start2 \in Int, NEW n \in Nat, start2 # kNoStateId => start2 + n \in 0 .. N - 1
  PROVE  Redirect(f, s, start2, n) \in Draft(k, N, e)
<1> DEFINE w == f.states[s].final
           cleared == SetFinal(f, s, "Zero")
<1>1. w \in Weights /\ "Zero" \in Weights
  BY DraftState DEF Weights
<1>2. cleared \in Draft(k, N, e)
  BY <1>1, SetFinalDraft
<1>3. CASE w = "Zero"
  BY <1>3 DEF Redirect
<1>4. CASE w # "Zero" /\ start2 = kNoStateId
  BY <1>2, <1>4 DEF Redirect
<1>5. CASE w # "Zero" /\ start2 # kNoStateId
  <2>1. Epsilon(w, start2 + n) \in ArcType(N)
    BY <1>1, <1>5, EpsilonType
  <2>2. Redirect(f, s, start2, n) = AddArc(cleared, s, Epsilon(w, start2 + n))
    BY <1>5 DEF Redirect
  <2> HIDE DEF cleared, w
  <2> QED
    BY <1>2, <2>1, <2>2, AddArcDraft
<1> QED
  BY <1>3, <1>4, <1>5

\* The loop over all states of the first machine.
LEMMA RedirectStatesDraft ==
  ASSUME NEW f, IsVectorFst(f), NEW g, IsVectorFst(g)
  PROVE  LET N == NumStates(f) + NumStates(g)
         IN  N \in Nat /\ RedirectStates(f, g) \in Draft(N, N, Failed(f))
<1> DEFINE N == NumStates(f) + NumStates(g)
           e == Failed(f)
           base == CopyStates(f, g)
           L == NumStates(f)
           Op(x, i) == Redirect(x, i - 1, g.start, L)
           S == [i \in 0 .. L |-> Draft(N, N, e)]
           step == [i \in 1 .. L |-> [x \in S[i - 1] |-> Op(x, i)]]
           F(h) == [i \in 0 .. L |-> IF i = 0 THEN base ELSE Op(h[i - 1], i)]
           after == CHOOSE h : h = F(h)
<1>a. /\ L \in Nat /\ NumStates(g) \in Nat /\ N \in Nat
      /\ g.start \in (0 .. NumStates(g) - 1) \cup {kNoStateId}
  BY MachineFacts
<1>1. L \in Nat /\ base \in S[0]
  <2>1. base \in Draft(N, N, e)
    BY <1>a, CopyStatesDraft
  <2> HIDE DEF base, N, e
  <2> QED
    BY <2>1, <1>a
<1>2. ASSUME NEW i \in 1 .. L, NEW x \in S[i - 1] PROVE Op(x, i) \in S[i]
  <2>1. x \in Draft(N, N, e)
    BY <1>1
  <2>2. i - 1 \in 0 .. N - 1 /\ g.start \in Int /\ (g.start # kNoStateId => g.start + L \in 0 .. N - 1)
    BY <1>a DEF kNoStateId
  <2>3. Op(x, i) \in Draft(N, N, e)
    <3> HIDE DEF S, L, N, e
    <3> QED
      BY <1>a, <2>1, <2>2, RedirectDraft
  <2>4. i \in 0 .. L
    BY <1>1
  <2> HIDE DEF Op, N, e
  <2> QED
    BY <2>3, <2>4
<1>3. RedirectStates(f, g) = after[L]
  BY DEF RedirectStates
<1> HIDE DEF L, Op, S, base, N, e
<1>4. Fits(S, L, step)
  BY <1>2 DEF Fits
<1>5. PICK k : Runs(k, S, base, L, step)
  <2> HIDE DEF step
  <2> QED
    BY <1>1, <1>4, LoopRuns
<1>6. k = F(k)
  <2>1. PICK T : k \in [0 .. L -> T]
    BY <1>5 DEF Runs
  <2>2. \A i \in 1 .. L : i - 1 \in 0 .. L
    BY <1>1
  <2>3. k[0] = base /\ \A i \in 1 .. L : k[i] = step[i][k[i - 1]] /\ k[i - 1] \in S[i - 1]
    <3> HIDE DEF step
    <3> QED
      BY <2>2, <1>5 DEF Runs
  <2>4. \A i \in 1 .. L : k[i] = Op(k[i - 1], i)
    BY <2>3
  <2> HIDE DEF step
  <2>5. \A i \in 0 .. L : i = 0 \/ i \in 1 .. L
    BY <1>1
  <2>6. \A i \in 0 .. L : k[i] = F(k)[i]
    BY <2>3, <2>4, <2>5
  <2> QED
    BY <2>1, <2>6
<1>7. after = F(after)
  <2> HIDE DEF F
  <2> QED
    BY <1>6
<1> HIDE DEF after
<1>8. after[0] = base /\ \A i \in 1 .. L : after[i] = Op(after[i - 1], i)
  <2>1. 0 \in 0 .. L /\ \A i \in 1 .. L : i \in 0 .. L /\ i # 0
    BY <1>1
  <2> QED
    BY <1>7, <2>1
<1>9. \A i \in 1 .. L : after[i - 1] \in S[i - 1] => after[i] \in S[i]
  BY <1>2, <1>8
<1>10. after[L] \in S[L]
  BY <1>1, <1>8, <1>9, LoopStays
<1>11. S[L] = Draft(N, N, e)
  BY <1>1 DEF S
<1> QED
  BY <1>a, <1>3, <1>10, <1>11 DEF N, e

\* Concat that modifies its first argument.
LEMMA ConcatAppendMachine ==
  ASSUME NEW f, IsVectorFst(f), NEW g, IsVectorFst(g)
  PROVE  Machine(ConcatAppend(f, g), Failed(f) \/ Failed(g))
<1> DEFINE N == NumStates(f) + NumStates(g)
           e == Failed(f)
           d == Failed(f) \/ Failed(g)
           joined == RedirectStates(f, g)
           P == ConcatProperties(f.props, g.props, FALSE)
<1>1. N \in Nat /\ joined \in Draft(N, N, e)
  BY RedirectStatesDraft
<1>2. NumStates(f) \in Nat /\ f \in Draft(NumStates(f), NumStates(f), e)
  BY MachineDraft
<1>3. CASE f.start = kNoStateId
  <2>1. ConcatAppend(f, g) = PassError(f, g)
    BY <1>3 DEF ConcatAppend
  <2>2. PassError(f, g) \in Draft(NumStates(f), NumStates(f), d)
    BY <1>2, PassErrorDraft
  <2> QED
    BY <1>2, <2>1, <2>2, DraftMachine
<1>4. CASE f.start # kNoStateId /\ g.start = kNoStateId
  <2>1. ConcatAppend(f, g) = PassError(joined, g)
    BY <1>4 DEF ConcatAppend
  <2> HIDE DEF joined, N, e
  <2>2. PassError(joined, g) \in Draft(N, N, e \/ Failed(g))
    BY <1>1, PassErrorDraft
  <2>3. Machine(PassError(joined, g), e \/ Failed(g))
    BY <1>1, <2>2, DraftMachine
  <2> QED
    BY <2>1, <2>3 DEF e
<1>5. CASE f.start # kNoStateId /\ g.start # kNoStateId
  <2>1. ConcatAppend(f, g) = SetProperties(joined, P, kFstProperties)
    BY <1>5 DEF ConcatAppend
  <2>2. d => "Error" \in P \cap kFstProperties
    BY TrinaryBits DEF ConcatProperties, Failed
  <2> HIDE DEF joined, N, e, P, d
  <2>3. Machine(SetProperties(joined, P, kFstProperties), d)
    BY <1>1, <2>2, ResultMachine
  <2> QED
    BY <2>1, <2>3 DEF d
<1> QED
  BY <1>3, <1>4, <1>5

\* Concat that modifies its second argument appends a state of the first.
LEMMA LinkStateDraft ==
  ASSUME NEW k \in Nat, NEW N \in Nat, NEW e, NEW f \in Draft(k, N, e),
         NEW g, IsVectorFst(g), NEW s \in States(g), NEW n \in Nat, n + NumStates(g) <= N,
         NEW start \in 0 .. N - 1
  PROVE  LinkState(f, g, s, n, start) \in Draft(k + 1, N, e)
<1> DEFINE q == Shifted(g.states[s].arcs, n)
           w == g.states[s].final
           linked == IF w = "Zero" THEN AddState(f) ELSE AddArc(AddState(f), k, Epsilon(w, start))
<1>1. NumStates(f) = k /\ k + 1 \in Nat /\ k \in 0 .. (k + 1) - 1
  BY DraftFacts
<1>2. NumStates(g) \in Nat /\ w \in Weights
  BY MachineFacts, StateFacts
<1>3. q \in Seq(ArcType(N))
  <2>1. g.states[s].arcs \in Seq(ArcType(NumStates(g)))
    BY StateFacts
  <2> QED
    BY <1>2, <2>1, ShiftedType
<1>4. AddState(f) \in Draft(k + 1, N, e)
  BY AddStateDraft
<1>5. Epsilon(w, start) \in ArcType(N)
  <2> HIDE DEF w
  <2> QED
    BY <1>2, EpsilonType
<1>6. AddArc(AddState(f), k, Epsilon(w, start)) \in Draft(k + 1, N, e)
  <2> HIDE DEF w
  <2> QED
    BY <1>1, <1>4, <1>5, AddArcDraft
<1>7. linked \in Draft(k + 1, N, e)
  BY <1>4, <1>6
<1>8. LinkState(f, g, s, n, start) = AddArcs(linked, k, q)
  BY <1>1 DEF LinkState
<1> HIDE DEF linked, q
<1> QED
  BY <1>1, <1>3, <1>7, <1>8, AddArcsDraft

\* The loop that appends all of them.
LEMMA LinkStatesDraft ==
  ASSUME NEW f, IsVectorFst(f), f.start # kNoStateId, NEW g, IsVectorFst(g), NEW N \in Nat,
         NumStates(f) + NumStates(g) <= N
  PROVE  LinkStates(g, f) \in Draft(NumStates(f) + NumStates(g), N, Failed(f))
<1> DEFINE n == NumStates(f)
           e == Failed(f)
           L == NumStates(g)
           Op(x, i) == LinkState(x, g, i - 1, n, f.start)
           S == [i \in 0 .. L |-> Draft(n + i, N, e)]
           step == [i \in 1 .. L |-> [x \in S[i - 1] |-> Op(x, i)]]
           F(h) == [i \in 0 .. L |-> IF i = 0 THEN f ELSE Op(h[i - 1], i)]
           after == CHOOSE h : h = F(h)
<1>1. L \in Nat /\ f \in S[0]
  <2>1. n \in Nat /\ L \in Nat /\ States(g) = 0 .. L - 1
    BY MachineFacts
  <2>2. f \in Draft(n, N, e)
    BY <2>1, DraftBegun
  <2> QED
    BY <2>1, <2>2
<1>2. ASSUME NEW i \in 1 .. L, NEW x \in S[i - 1] PROVE Op(x, i) \in S[i]
  <2>1. n \in Nat /\ States(g) = 0 .. L - 1 /\ f.start \in 0 .. n - 1
    BY MachineFacts
  <2>2. /\ i - 1 \in States(g) /\ n + (i - 1) \in Nat /\ (n + (i - 1)) + 1 = n + i
        /\ x \in Draft(n + (i - 1), N, e) /\ n + L <= N /\ f.start \in 0 .. N - 1
    BY <1>1, <2>1
  <2> HIDE DEF S
  <2>3. Op(x, i) \in Draft((n + (i - 1)) + 1, N, e)
    <3> HIDE DEF n, e
    <3> QED
      BY <2>1, <2>2, LinkStateDraft
  <2> HIDE DEF Op
  <2>4. i \in 0 .. L
    BY <1>1
  <2> QED
    BY <2>2, <2>3, <2>4 DEF S
<1>3. LinkStates(g, f) = after[L]
  BY DEF LinkStates
<1> HIDE DEF L, Op, S
<1>4. Fits(S, L, step)
  BY <1>2 DEF Fits
<1>5. PICK k : Runs(k, S, f, L, step)
  <2> HIDE DEF step
  <2> QED
    BY <1>1, <1>4, LoopRuns
<1>6. k = F(k)
  <2>1. PICK T : k \in [0 .. L -> T]
    BY <1>5 DEF Runs
  <2>2. \A i \in 1 .. L : i - 1 \in 0 .. L
    BY <1>1
  <2>3. k[0] = f /\ \A i \in 1 .. L : k[i] = step[i][k[i - 1]] /\ k[i - 1] \in S[i - 1]
    <3> HIDE DEF step
    <3> QED
      BY <2>2, <1>5 DEF Runs
  <2>4. \A i \in 1 .. L : k[i] = Op(k[i - 1], i)
    BY <2>3
  <2> HIDE DEF step
  <2>5. \A i \in 0 .. L : i = 0 \/ i \in 1 .. L
    BY <1>1
  <2>6. \A i \in 0 .. L : k[i] = F(k)[i]
    BY <2>3, <2>4, <2>5
  <2> QED
    BY <2>1, <2>6
<1>7. after = F(after)
  <2> HIDE DEF F
  <2> QED
    BY <1>6
<1> HIDE DEF after
<1>8. after[0] = f /\ \A i \in 1 .. L : after[i] = Op(after[i - 1], i)
  <2>1. 0 \in 0 .. L /\ \A i \in 1 .. L : i \in 0 .. L /\ i # 0
    BY <1>1
  <2> QED
    BY <1>7, <2>1
<1>9. \A i \in 1 .. L : after[i - 1] \in S[i - 1] => after[i] \in S[i]
  BY <1>2, <1>8
<1>10. after[L] \in S[L]
  BY <1>1, <1>8, <1>9, LoopStays
<1>11. S[L] = Draft(NumStates(f) + NumStates(g), N, Failed(f))
  BY <1>1 DEF S, L
<1> QED
  BY <1>3, <1>10, <1>11

\* Concat that modifies its second argument.
LEMMA ConcatPrependMachine ==
  ASSUME NEW f, IsVectorFst(f), NEW g, IsVectorFst(g)
  PROVE  Machine(ConcatPrepend(g, f), Failed(f) \/ Failed(g))
<1> DEFINE n == NumStates(f)
           N == NumStates(f) + NumStates(g)
           e == Failed(f)
           d == Failed(f) \/ Failed(g)
           joined == LinkStates(g, f)
           P == ConcatProperties(g.props, f.props, FALSE)
<1>1. n \in Nat /\ f \in Draft(n, n, e)
  BY MachineDraft
<1>2. NumStates(g) \in Nat /\ N \in Nat /\ N + 1 \in Nat
      /\ g.start \in (0 .. NumStates(g) - 1) \cup {kNoStateId}
  BY <1>1, MachineFacts
<1>3. CASE f.start = kNoStateId
  <2>1. ConcatPrepend(g, f) = PassError(f, g)
    BY <1>3 DEF ConcatPrepend
  <2>2. PassError(f, g) \in Draft(n, n, d)
    BY <1>1, PassErrorDraft
  <2> QED
    BY <1>1, <2>1, <2>2, DraftMachine
<1>4. CASE f.start # kNoStateId
  <2>1. joined \in Draft(N, N, e) /\ joined \in Draft(N, N + 1, e)
    BY <1>2, <1>4, LinkStatesDraft
  <2>2. NumStates(joined) = N
    <3> HIDE DEF joined, N, e
    <3> QED
      BY <1>2, <2>1, DraftFacts
  <2>3. CASE g.start # kNoStateId
    <3> DEFINE started == SetStart(joined, g.start + n)
    <3>1. ConcatPrepend(g, f) = SetProperties(started, P, kFstProperties)
      BY <1>4, <2>3 DEF ConcatPrepend
    <3>2. g.start + n \in 0 .. N - 1
      BY <1>1, <1>2, <2>3
    <3>3. started \in Draft(N, N, e)
      <4> HIDE DEF joined, N, e, n
      <4> QED
        BY <1>2, <2>1, <3>2, SetStartDraft
    <3>4. d => "Error" \in P \cap kFstProperties
      BY TrinaryBits DEF ConcatProperties, Failed
    <3> HIDE DEF started, N, e, P, d
    <3>5. Machine(SetProperties(started, P, kFstProperties), d)
      BY <1>2, <3>3, <3>4, ResultMachine
    <3> QED
      BY <3>1, <3>5 DEF d
  <2>4. CASE g.start = kNoStateId /\ "Error" \in g.props
    <3>1. ConcatPrepend(g, f) = SetError(joined)
      BY <1>4, <2>4 DEF ConcatPrepend
    <3> HIDE DEF joined, N, e
    <3>2. SetError(joined) \in Draft(N, N, TRUE)
      BY <1>2, <2>1, SetErrorDraft
    <3>3. Machine(SetError(joined), TRUE)
      BY <1>2, <3>2, DraftMachine
    <3> QED
      BY <3>1, <3>3 DEF Machine
  <2>5. CASE g.start = kNoStateId /\ "Error" \notin g.props
    <3> DEFINE started == SetStart(AddState(joined), N)
    <3>1. ConcatPrepend(g, f) = started
      BY <1>4, <2>2, <2>5 DEF ConcatPrepend
    <3>2. N \in 0 .. (N + 1) - 1
      BY <1>2
    <3>3. AddState(joined) \in Draft(N + 1, N + 1, e)
      <4> HIDE DEF joined, N, e
      <4> QED
        BY <1>2, <2>1, AddStateDraft
    <3>4. started \in Draft(N + 1, N + 1, e)
      <4> HIDE DEF joined, N, e
      <4> QED
        BY <1>2, <3>2, <3>3, SetStartDraft
    <3>5. Machine(started, e)
      <4> HIDE DEF started, N, e
      <4> QED
        BY <1>2, <3>4, DraftMachine
    <3>6. ~ Failed(g)
      BY <2>5 DEF Failed
    <3> HIDE DEF started
    <3> QED
      BY <3>1, <3>5, <3>6 DEF Machine
  <2> QED
    BY <2>3, <2>4, <2>5
<1> QED
  BY <1>3, <1>4

-----------------------------------------------------------------------------
(* Closure.                                                                *)

\* AddArc leaves the start state alone.
LEMMA AddArcStart ==
  ASSUME NEW n \in Nat, NEW N, NEW e, NEW f \in Draft(n, N, e), NEW s, NEW a
  PROVE  AddArc(f, s, a).start = f.start
<1> DEFINE P == StoreProperties(f.props,
                  AddArcProperties(f.props, s, a, Nontrivial(a.weight), f.states[s].arcs))
           Q == [f.states EXCEPT ![s] = StateAddArc(@, a)]
<1>1. f = [start |-> f.start, states |-> f.states, props |-> f.props]
  BY DraftFacts
<1>2. AddArc(f, s, a) = [f EXCEPT !.states = Q, !.props = P]
  BY DEF AddArc
<1> HIDE DEF P, Q
<1> QED
  BY <1>1, <1>2

\* The machines with a start state below n.
Started(n, N, e) == {f \in Draft(n, N, e) : f.start \in 0 .. n - 1}

\* Closure adds an arc from a final state to the start state.
LEMMA LoopBackDraft ==
  ASSUME NEW n \in Nat, NEW N \in Nat, n <= N, NEW e, NEW f \in Started(n, N, e),
         NEW s \in 0 .. n - 1
  PROVE  LoopBack(f, s) \in Started(n, N, e)
<1> DEFINE w == f.states[s].final
           a == Epsilon(w, f.start)
<1>1. f \in Draft(n, N, e) /\ f.start \in 0 .. n - 1
  BY DEF Started
<1>2. w \in Weights /\ f.start \in 0 .. N - 1
  BY <1>1, DraftState
<1>3. a \in ArcType(N)
  <2> HIDE DEF w
  <2> QED
    BY <1>2, EpsilonType
<1>4. LoopBack(f, s) = IF IsFinal(f, s) THEN AddArc(f, s, a) ELSE f
  BY DEF LoopBack
<1> HIDE DEF a
<1>5. AddArc(f, s, a) \in Draft(n, N, e) /\ AddArc(f, s, a).start = f.start
  BY <1>1, <1>3, AddArcDraft, AddArcStart
<1> QED
  BY <1>1, <1>4, <1>5 DEF Started

\* The loop over all states.
LEMMA LoopStatesDraft ==
  ASSUME NEW f, IsVectorFst(f), f.start # kNoStateId, NEW N \in Nat, NumStates(f) <= N
  PROVE  LoopStates(f) \in Started(NumStates(f), N, Failed(f))
<1> DEFINE e == Failed(f)
           L == NumStates(f)
           Op(x, i) == LoopBack(x, i - 1)
           S == [i \in 0 .. L |-> Started(L, N, e)]
           step == [i \in 1 .. L |-> [x \in S[i - 1] |-> Op(x, i)]]
           F(h) == [i \in 0 .. L |-> IF i = 0 THEN f ELSE Op(h[i - 1], i)]
           after == CHOOSE h : h = F(h)
<1>1. L \in Nat /\ f \in S[0]
  <2>1. L \in Nat /\ f.start \in 0 .. L - 1
    BY MachineFacts
  <2>2. f \in Draft(L, N, e)
    BY <2>1, DraftBegun
  <2>3. f \in Started(L, N, e)
    BY <2>1, <2>2 DEF Started
  <2> HIDE DEF L, e
  <2> QED
    BY <2>1, <2>3
<1>2. ASSUME NEW i \in 1 .. L, NEW x \in S[i - 1] PROVE Op(x, i) \in S[i]
  <2>1. x \in Started(L, N, e) /\ i - 1 \in 0 .. L - 1 /\ i \in 0 .. L /\ L <= N
    BY <1>1
  <2>2. Op(x, i) \in Started(L, N, e)
    <3> HIDE DEF S, L, e
    <3> QED
      BY <1>1, <2>1, LoopBackDraft
  <2> HIDE DEF Op, L, e
  <2> QED
    BY <2>1, <2>2
<1>3. LoopStates(f) = after[L]
  BY DEF LoopStates
<1> HIDE DEF L, Op, S
<1>4. Fits(S, L, step)
  BY <1>2 DEF Fits
<1>5. PICK k : Runs(k, S, f, L, step)
  <2> HIDE DEF step
  <2> QED
    BY <1>1, <1>4, LoopRuns
<1>6. k = F(k)
  <2>1. PICK T : k \in [0 .. L -> T]
    BY <1>5 DEF Runs
  <2>2. \A i \in 1 .. L : i - 1 \in 0 .. L
    BY <1>1
  <2>3. k[0] = f /\ \A i \in 1 .. L : k[i] = step[i][k[i - 1]] /\ k[i - 1] \in S[i - 1]
    <3> HIDE DEF step
    <3> QED
      BY <2>2, <1>5 DEF Runs
  <2>4. \A i \in 1 .. L : k[i] = Op(k[i - 1], i)
    BY <2>3
  <2> HIDE DEF step
  <2>5. \A i \in 0 .. L : i = 0 \/ i \in 1 .. L
    BY <1>1
  <2>6. \A i \in 0 .. L : k[i] = F(k)[i]
    BY <2>3, <2>4, <2>5
  <2> QED
    BY <2>1, <2>6
<1>7. after = F(after)
  <2> HIDE DEF F
  <2> QED
    BY <1>6
<1> HIDE DEF after
<1>8. after[0] = f /\ \A i \in 1 .. L : after[i] = Op(after[i - 1], i)
  <2>1. 0 \in 0 .. L /\ \A i \in 1 .. L : i \in 0 .. L /\ i # 0
    BY <1>1
  <2> QED
    BY <1>7, <2>1
<1>9. \A i \in 1 .. L : after[i - 1] \in S[i - 1] => after[i] \in S[i]
  BY <1>2, <1>8
<1>10. after[L] \in S[L]
  BY <1>1, <1>8, <1>9, LoopStays
<1>11. S[L] = Started(NumStates(f), N, Failed(f))
  BY <1>1 DEF S, L
<1> QED
  BY <1>3, <1>10, <1>11

\* Closure, with and without a new start state.
LEMMA ClosureMachine ==
  ASSUME NEW f, IsVectorFst(f), NEW star \in BOOLEAN
  PROVE  Machine(Closure(f, star), Failed(f))
<1> DEFINE n == NumStates(f)
           k == n + 1
           e == Failed(f)
           looped == IF f.start = kNoStateId THEN f ELSE LoopStates(f)
           started == SetFinal(SetStart(AddState(looped), n), n, "One")
           result == CASE ~ star -> looped
                       [] star /\ f.start = kNoStateId -> started
                       [] OTHER -> AddArc(started, n, Epsilon("One", f.start))
           P == ClosureProperties(f.props, FALSE)
<1>1. n \in Nat /\ k \in Nat /\ n <= n /\ n <= k /\ n \in 0 .. k - 1 /\ "One" \in Weights
      /\ (f.start # kNoStateId => f.start \in 0 .. k - 1)
  BY MachineFacts DEF Weights
<1>2. looped \in Draft(n, n, e) /\ looped \in Draft(n, k, e)
  <2>1. f.start = kNoStateId => looped \in Draft(n, n, e) /\ looped \in Draft(n, k, e)
    <3>1. f \in Draft(n, n, e) /\ f \in Draft(n, k, e)
      BY <1>1, DraftBegun
    <3> QED
      BY <3>1
  <2>2. f.start # kNoStateId => looped \in Draft(n, n, e) /\ looped \in Draft(n, k, e)
    <3>1. ASSUME f.start # kNoStateId
          PROVE  LoopStates(f) \in Started(n, n, e) /\ LoopStates(f) \in Started(n, k, e)
      BY <1>1, <3>1, LoopStatesDraft
    <3> QED
      BY <3>1 DEF Started
  <2> QED
    BY <2>1, <2>2
<1>3. Closure(f, star) = SetProperties(result, P, kFstProperties)
  BY DEF Closure
<1>4. e => "Error" \in P \cap kFstProperties
  BY TrinaryBits DEF ClosureProperties, Failed
<1> HIDE DEF looped, P
<1>5. AddState(looped) \in Draft(k, k, e)
  <2>1. AddState(looped) \in Draft(n + 1, k, e)
    <3> HIDE DEF n, k, e
    <3> QED
      BY <1>1, <1>2, AddStateDraft
  <2> QED
    BY <2>1
<1>6. started \in Draft(k, k, e)
  <2> HIDE DEF n, k, e
  <2>1. SetStart(AddState(looped), n) \in Draft(k, k, e)
    BY <1>1, <1>5, SetStartDraft
  <2> QED
    BY <1>1, <2>1, SetFinalDraft
<1> HIDE DEF started
<1>7. f.start # kNoStateId => AddArc(started, n, Epsilon("One", f.start)) \in Draft(k, k, e)
  <2> HIDE DEF n, k, e
  <2>1. f.start # kNoStateId => Epsilon("One", f.start) \in ArcType(k)
    BY <1>1, EpsilonType
  <2> QED
    BY <1>1, <1>6, <2>1, AddArcDraft
<1>8. result \in Draft(n, n, e) \/ result \in Draft(k, k, e)
  <2> HIDE DEF n, k, e
  <2>1. CASE ~ star
    BY <1>2, <2>1
  <2>2. CASE star /\ f.start = kNoStateId
    BY <1>6, <2>2
  <2>3. CASE star /\ f.start # kNoStateId
    <3>1. result = AddArc(started, n, Epsilon("One", f.start))
      BY <2>3
    <3> HIDE DEF result
    <3> QED
      BY <1>7, <2>3, <3>1
  <2> QED
    BY <2>1, <2>2, <2>3
<1> HIDE DEF result, n, k, e
<1>9. Machine(SetProperties(result, P, kFstProperties), e)
  BY <1>1, <1>4, <1>8, ResultMachine
<1> QED
  BY <1>3, <1>9 DEF e

-----------------------------------------------------------------------------
(* ArcMap.                                                                 *)

\* A mapper keeps the next state of an arc, and labels and weights in range.
LEMMA MapArcType ==
  ASSUME NEW mapper, NEW T,
         NEW a \in [ilabel : Nat, olabel : Nat, weight : Weights, nextstate : T]
  PROVE  MapArc(mapper, a) \in [ilabel : Nat, olabel : Nat, weight : Weights, nextstate : T]
<1>1. a.ilabel \in Nat /\ a.olabel \in Nat /\ a.weight \in Weights /\ a.nextstate \in T
  OBVIOUS
<1>2. RemovedWeight(a.weight) \in Weights
  BY DEF RemovedWeight, Weights
<1>3. [a EXCEPT !.weight = RemovedWeight(@)] \in
        [ilabel : Nat, olabel : Nat, weight : Weights, nextstate : T]
  BY <1>2
<1>4. MapArc(mapper, a) \in {InvertArc(a), ProjectArc(a, a.ilabel), ProjectArc(a, a.olabel),
                             [a EXCEPT !.weight = RemovedWeight(@)], a}
  BY DEF MapArc
<1> QED
  BY <1>1, <1>3, <1>4 DEF InvertArc, ProjectArc, Arc

\* The loop over the arcs of a state, each replaced in place.
LEMMA MapArcsDraft ==
  ASSUME NEW mapper, NEW n \in Nat, NEW N \in Nat, NEW e, NEW f \in Draft(n, N, e),
         NEW s \in 0 .. n - 1
  PROVE  MapArcs(mapper, f, s) \in Draft(n, N, e)
<1> DEFINE arcs == f.states[s].arcs
           L == Len(arcs)
           Op(x, i) == SetValue(x, s, i, MapArc(mapper, arcs[i]))
           S == [i \in 0 .. L |-> WithArcs(n, N, e, s, L)]
           step == [i \in 1 .. L |-> [x \in S[i - 1] |-> Op(x, i)]]
           F(h) == [i \in 0 .. L |-> IF i = 0 THEN f ELSE Op(h[i - 1], i)]
           after == CHOOSE h : h = F(h)
<1>a. L \in Nat /\ \A i \in 1 .. L : arcs[i] \in ArcType(N)
  BY DraftState
<1>1. L \in Nat /\ f \in S[0]
  <2>1. f \in WithArcs(n, N, e, s, L)
    BY DEF WithArcs
  <2> HIDE DEF L
  <2> QED
    BY <1>a, <2>1
<1>2. ASSUME NEW i \in 1 .. L, NEW x \in S[i - 1] PROVE Op(x, i) \in S[i]
  <2>1. x \in WithArcs(n, N, e, s, L) /\ i \in 0 .. L
    <3> HIDE DEF L
    <3> QED
      BY <1>1
  <2> HIDE DEF S
  <2>2. x \in Draft(n, N, e) /\ Len(x.states[s].arcs) = L
    BY <2>1 DEF WithArcs
  <2>3. i \in DOMAIN x.states[s].arcs
    BY <2>2, DraftState
  <2>4. arcs[i] \in ArcType(N)
    BY <1>a
  <2> DEFINE b == MapArc(mapper, arcs[i])
  <2>5. b \in ArcType(N)
    <3> HIDE DEF arcs
    <3> QED
      BY <2>4, MapArcType DEF ArcType
  <2>6. Op(x, i) = SetValue(x, s, i, b)
    OBVIOUS
  <2> HIDE DEF b, Op, L
  <2>7. SetValue(x, s, i, b) \in WithArcs(n, N, e, s, Len(x.states[s].arcs))
    BY <2>2, <2>3, <2>5, SetValueDraft
  <2> QED
    BY <2>1, <2>2, <2>6, <2>7 DEF S
<1>3. MapArcs(mapper, f, s) = after[L]
  BY DEF MapArcs
<1> HIDE DEF L, Op, S, arcs
<1>4. Fits(S, L, step)
  BY <1>2 DEF Fits
<1>5. PICK k : Runs(k, S, f, L, step)
  <2> HIDE DEF step
  <2> QED
    BY <1>1, <1>4, LoopRuns
<1>6. k = F(k)
  <2>1. PICK T : k \in [0 .. L -> T]
    BY <1>5 DEF Runs
  <2>2. \A i \in 1 .. L : i - 1 \in 0 .. L
    BY <1>1
  <2>3. k[0] = f /\ \A i \in 1 .. L : k[i] = step[i][k[i - 1]] /\ k[i - 1] \in S[i - 1]
    <3> HIDE DEF step
    <3> QED
      BY <2>2, <1>5 DEF Runs
  <2>4. \A i \in 1 .. L : k[i] = Op(k[i - 1], i)
    BY <2>3
  <2> HIDE DEF step
  <2>5. \A i \in 0 .. L : i = 0 \/ i \in 1 .. L
    BY <1>1
  <2>6. \A i \in 0 .. L : k[i] = F(k)[i]
    BY <2>3, <2>4, <2>5
  <2> QED
    BY <2>1, <2>6
<1>7. after = F(after)
  <2> HIDE DEF F
  <2> QED
    BY <1>6
<1> HIDE DEF after
<1>8. after[0] = f /\ \A i \in 1 .. L : after[i] = Op(after[i - 1], i)
  <2>1. 0 \in 0 .. L /\ \A i \in 1 .. L : i \in 0 .. L /\ i # 0
    BY <1>1
  <2> QED
    BY <1>7, <2>1
<1>9. \A i \in 1 .. L : after[i - 1] \in S[i - 1] => after[i] \in S[i]
  BY <1>2, <1>8
<1>10. after[L] \in S[L]
  BY <1>1, <1>8, <1>9, LoopStays
<1>11. S[L] = WithArcs(n, N, e, s, L)
  BY <1>1 DEF S
<1> QED
  BY <1>3, <1>10, <1>11 DEF WithArcs

\* A final weight is mapped as an arc that leads nowhere.
LEMMA MapFinalDraft ==
  ASSUME NEW mapper, NEW n \in Nat, NEW N \in Nat, NEW e, NEW f \in Draft(n, N, e),
         NEW s \in 0 .. n - 1
  PROVE  MapFinal(mapper, f, s) \in Draft(n, N, e)
<1> DEFINE a == Epsilon(f.states[s].final, kNoStateId)
           w == MapArc(mapper, a).weight
<1>1. f.states[s].final \in Weights
  BY DraftState
<1>2. a \in [ilabel : Nat, olabel : Nat, weight : Weights, nextstate : {kNoStateId}]
  BY <1>1 DEF Epsilon, Arc
<1> HIDE DEF a
<1>3. MapArc(mapper, a) \in [ilabel : Nat, olabel : Nat, weight : Weights, nextstate : {kNoStateId}]
  BY <1>2, MapArcType
<1>4. w \in Weights
  BY <1>3
<1>5. MapFinal(mapper, f, s) = SetFinal(f, s, w)
  BY DEF MapFinal, a
<1> HIDE DEF w
<1> QED
  BY <1>4, <1>5, SetFinalDraft

\* A final weight becomes an arc to the superfinal state.
LEMMA RedirectFinalDraft ==
  ASSUME NEW n \in Nat, NEW N \in Nat, NEW e, NEW f \in Draft(n, N, e), NEW s \in 0 .. n - 1,
         NEW superfinal \in 0 .. N - 1, NEW label \in Nat
  PROVE  RedirectFinal(f, s, superfinal, label) \in Draft(n, N, e)
<1> DEFINE w == f.states[s].final
           a == Arc(label, label, w, superfinal)
           linked == IF w = "Zero" THEN f ELSE AddArc(f, s, a)
<1>1. w \in Weights /\ "Zero" \in Weights
  BY DraftState DEF Weights
<1>2. a \in ArcType(N)
  <2> HIDE DEF w
  <2> QED
    BY <1>1 DEF Arc, ArcType
<1>3. AddArc(f, s, a) \in Draft(n, N, e)
  <2> HIDE DEF a
  <2> QED
    BY <1>2, AddArcDraft
<1>4. linked \in Draft(n, N, e)
  BY <1>3
<1>5. RedirectFinal(f, s, superfinal, label) = IF s = superfinal THEN f ELSE SetFinal(linked, s, "Zero")
  BY DEF RedirectFinal
<1> HIDE DEF linked
<1>6. SetFinal(linked, s, "Zero") \in Draft(n, N, e)
  BY <1>1, <1>4, SetFinalDraft
<1> QED
  BY <1>5, <1>6

\* A state of ArcMap.
LEMMA MapStateDraft ==
  ASSUME NEW mapper, NEW n \in Nat, NEW N \in Nat, NEW e, NEW f \in Draft(n, N, e),
         NEW s \in 0 .. n - 1, NEW superfinal, RequiresSuperFinal(mapper) => superfinal \in 0 .. N - 1
  PROVE  MapState(mapper, f, s, superfinal) \in Draft(n, N, e)
<1> DEFINE mapped == MapArcs(mapper, f, s)
           label == IF mapper = "SuperFinalLabel" THEN 1 ELSE 0
<1>1. mapped \in Draft(n, N, e)
  BY MapArcsDraft
<1>2. label \in Nat
  OBVIOUS
<1>3. MapState(mapper, f, s, superfinal) =
        IF RequiresSuperFinal(mapper) THEN RedirectFinal(mapped, s, superfinal, label)
                                      ELSE MapFinal(mapper, mapped, s)
  BY DEF MapState
<1> HIDE DEF mapped, label
<1>4. CASE RequiresSuperFinal(mapper)
  <2>1. RedirectFinal(mapped, s, superfinal, label) \in Draft(n, N, e)
    BY <1>1, <1>2, <1>4, RedirectFinalDraft
  <2> QED
    BY <1>3, <1>4, <2>1
<1>5. CASE ~ RequiresSuperFinal(mapper)
  <2>1. MapFinal(mapper, mapped, s) \in Draft(n, N, e)
    BY <1>1, MapFinalDraft
  <2> QED
    BY <1>3, <1>5, <2>1
<1> QED
  BY <1>4, <1>5

\* The loop over the states, a new superfinal state included.
LEMMA MapStatesDraft ==
  ASSUME NEW mapper, NEW n \in Nat, NEW e, NEW f \in Draft(n, n, e),
         NEW superfinal, RequiresSuperFinal(mapper) => superfinal \in 0 .. n - 1
  PROVE  MapStates(mapper, f, superfinal) \in Draft(n, n, e)
<1> DEFINE L == NumStates(f)
           Op(x, i) == MapState(mapper, x, i - 1, superfinal)
           S == [i \in 0 .. L |-> Draft(n, n, e)]
           step == [i \in 1 .. L |-> [x \in S[i - 1] |-> Op(x, i)]]
           F(h) == [i \in 0 .. L |-> IF i = 0 THEN f ELSE Op(h[i - 1], i)]
           after == CHOOSE h : h = F(h)
<1>a. L \in Nat /\ L = n
  BY DraftFacts
<1>1. L \in Nat /\ f \in S[0]
  <2> HIDE DEF L
  <2> QED
    BY <1>a
<1>2. ASSUME NEW i \in 1 .. L, NEW x \in S[i - 1] PROVE Op(x, i) \in S[i]
  <2>1. x \in Draft(n, n, e) /\ i - 1 \in 0 .. n - 1 /\ i \in 0 .. L
    <3> HIDE DEF L
    <3> QED
      BY <1>a
  <2> HIDE DEF L
  <2>2. Op(x, i) \in Draft(n, n, e)
    <3> HIDE DEF S
    <3> QED
      BY <2>1, MapStateDraft
  <2> HIDE DEF Op
  <2> QED
    BY <2>1, <2>2
<1>3. MapStates(mapper, f, superfinal) = after[L]
  BY DEF MapStates
<1> HIDE DEF L, Op, S
<1>4. Fits(S, L, step)
  BY <1>2 DEF Fits
<1>5. PICK k : Runs(k, S, f, L, step)
  <2> HIDE DEF step
  <2> QED
    BY <1>1, <1>4, LoopRuns
<1>6. k = F(k)
  <2>1. PICK T : k \in [0 .. L -> T]
    BY <1>5 DEF Runs
  <2>2. \A i \in 1 .. L : i - 1 \in 0 .. L
    BY <1>1
  <2>3. k[0] = f /\ \A i \in 1 .. L : k[i] = step[i][k[i - 1]] /\ k[i - 1] \in S[i - 1]
    <3> HIDE DEF step
    <3> QED
      BY <2>2, <1>5 DEF Runs
  <2>4. \A i \in 1 .. L : k[i] = Op(k[i - 1], i)
    BY <2>3
  <2> HIDE DEF step
  <2>5. \A i \in 0 .. L : i = 0 \/ i \in 1 .. L
    BY <1>1
  <2>6. \A i \in 0 .. L : k[i] = F(k)[i]
    BY <2>3, <2>4, <2>5
  <2> QED
    BY <2>1, <2>6
<1>7. after = F(after)
  <2> HIDE DEF F
  <2> QED
    BY <1>6
<1> HIDE DEF after
<1>8. after[0] = f /\ \A i \in 1 .. L : after[i] = Op(after[i - 1], i)
  <2>1. 0 \in 0 .. L /\ \A i \in 1 .. L : i \in 0 .. L /\ i # 0
    BY <1>1
  <2> QED
    BY <1>7, <2>1
<1>9. \A i \in 1 .. L : after[i - 1] \in S[i - 1] => after[i] \in S[i]
  BY <1>2, <1>8
<1>10. after[L] \in S[L]
  BY <1>1, <1>8, <1>9, LoopStays
<1>11. S[L] = Draft(n, n, e)
  BY <1>1 DEF S
<1> QED
  BY <1>3, <1>10, <1>11

\* ArcMap, for every mapper.
LEMMA ArcMapMachine ==
  ASSUME NEW mapper, NEW f, IsVectorFst(f)
  PROVE  Machine(ArcMap(mapper, f), Failed(f))
<1> DEFINE n == NumStates(f)
           k == n + 1
           e == Failed(f)
           prepared == IF RequiresSuperFinal(mapper) THEN SetFinal(AddState(f), n, "One") ELSE f
           P == MapperProperties(mapper, f.props)
           mapped == MapStates(mapper, prepared, n)
<1>1. n \in Nat /\ k \in Nat /\ n <= k /\ n \in 0 .. k - 1 /\ "One" \in Weights
  BY MachineFacts DEF Weights
<1>2. f \in Draft(n, n, e) /\ f \in Draft(n, k, e)
  <2>1. n <= n
    BY <1>1
  <2> QED
    BY <1>1, <2>1, DraftBegun
<1>3. SetFinal(AddState(f), n, "One") \in Draft(k, k, e)
  <2>1. AddState(f) \in Draft(n + 1, k, e)
    <3> HIDE DEF n, k, e
    <3> QED
      BY <1>1, <1>2, AddStateDraft
  <2>2. AddState(f) \in Draft(k, k, e)
    BY <2>1
  <2> HIDE DEF n, k, e
  <2> QED
    BY <1>1, <2>2, SetFinalDraft
<1>4. CASE f.start = kNoStateId
  <2>1. ArcMap(mapper, f) = f
    BY <1>4 DEF ArcMap
  <2> QED
    BY <1>1, <1>2, <2>1, DraftMachine
<1>5. CASE f.start # kNoStateId
  <2>1. ArcMap(mapper, f) = SetProperties(mapped, P, kFstProperties)
    BY <1>5 DEF ArcMap
  <2>2. e => "Error" \in P \cap kFstProperties
    <3> SUFFICES ASSUME "Error" \in f.props PROVE "Error" \in P
      BY TrinaryBits DEF Failed
    <3>1. "Error" \in InvertProperties(f.props)
      BY DEF InvertProperties, StructureProperties
    <3>2. \A from, to : "Error" \in ProjectProperties(f.props, from, to)
      BY DEF ProjectProperties, StructureProperties
    <3>3. "Error" \in f.props \cap kWeightInvariantProperties
      BY TrinaryBits DEF kWeightInvariantProperties
    <3>4. "Error" \in f.props \cap kAddSuperFinalProperties
      BY TrinaryBits DEF kAddSuperFinalProperties
    <3>5. "Error" \in kILabelInvariantProperties /\ "Error" \in kOLabelInvariantProperties
      BY TrinaryBits DEF kILabelInvariantProperties, kOLabelInvariantProperties
    <3> QED
      BY <3>1, <3>2, <3>3, <3>4, <3>5 DEF MapperProperties
  <2>3. mapped \in Draft(n, n, e) \/ mapped \in Draft(k, k, e)
    <3>1. CASE RequiresSuperFinal(mapper)
      <4>1. prepared \in Draft(k, k, e)
        BY <1>3, <3>1
      <4> HIDE DEF prepared, n, k, e
      <4> QED
        BY <1>1, <4>1, MapStatesDraft
    <3>2. CASE ~ RequiresSuperFinal(mapper)
      <4>1. prepared \in Draft(n, n, e)
        BY <1>2, <3>2
      <4> HIDE DEF prepared, n, k, e
      <4> QED
        BY <1>1, <3>2, <4>1, MapStatesDraft
    <3> QED
      BY <3>1, <3>2
  <2> HIDE DEF mapped, n, k, e, P
  <2>4. Machine(SetProperties(mapped, P, kFstProperties), e)
    BY <1>1, <2>2, <2>3, ResultMachine
  <2> QED
    BY <2>1, <2>4 DEF e
<1> QED
  BY <1>4, <1>5

-----------------------------------------------------------------------------
(* ArcSort.                                                                *)

\* The members of a set D that a strict total order B puts before i.
Predecessors(D, B, i) == {j \in D : <<j, i>> \in B}
UpTo(D, B, i) == Predecessors(D, B, i) \cup {i}

\* B is a strict total order of D.
StrictOrder(D, B) ==
  /\ \A i \in D : <<i, i>> \notin B
  /\ \A i, j, k \in D : <<i, j>> \in B /\ <<j, k>> \in B => <<i, k>> \in B
  /\ \A i, j \in D : i = j \/ <<i, j>> \in B \/ <<j, i>> \in B

\* In a strict total order of n things every rank from 1 to n is taken.
LEMMA EveryRank ==
  ASSUME NEW D, IsFiniteSet(D), NEW B, StrictOrder(D, B)
  PROVE  \A r \in 1 .. Cardinality(D) : \E i \in D : 1 + Cardinality(Predecessors(D, B, i)) = r
<1> DEFINE c == Cardinality(D)
           M == [i \in D |-> Cardinality(UpTo(D, B, i))]
<1>1. c \in Nat /\ IsFiniteSet(1 .. c) /\ Cardinality(1 .. c) = c
  <2>1. c \in Nat
    BY FS_CardinalityType
  <2>2. 1 \in Int /\ c \in Int
    BY <2>1
  <2>3. IsFiniteSet(1 .. c) /\ Cardinality(1 .. c) = c
    BY <2>1, <2>2, FS_Interval
  <2> QED
    BY <2>1, <2>3
<1>2. ASSUME NEW i \in D
      PROVE  /\ IsFiniteSet(UpTo(D, B, i)) /\ UpTo(D, B, i) \in SUBSET D /\ M[i] \in 1 .. c
             /\ M[i] = 1 + Cardinality(Predecessors(D, B, i))
  <2> DEFINE A == Predecessors(D, B, i)
             U == UpTo(D, B, i)
  <2>1. A \in SUBSET D /\ U = A \cup {i} /\ i \notin A /\ U \in SUBSET D
    BY DEF UpTo, Predecessors, StrictOrder
  <2>2. M[i] = Cardinality(U)
    OBVIOUS
  <2> HIDE DEF A, U, M
  <2>3. IsFiniteSet(A) /\ IsFiniteSet(U) /\ Cardinality(U) <= Cardinality(D)
    BY <2>1, FS_Subset
  <2>4. Cardinality(A) \in Nat
    BY <2>3, FS_CardinalityType
  <2>5. Cardinality(U) = Cardinality(A) + 1
    BY <2>1, <2>3, FS_AddElement
  <2>6. Cardinality(U) \in 1 .. c /\ Cardinality(U) = 1 + Cardinality(A)
    BY <1>1, <2>3, <2>4, <2>5
  <2> QED
    BY <2>1, <2>2, <2>3, <2>6 DEF A, U
<1>3. ASSUME NEW i \in D, NEW j \in D, <<i, j>> \in B PROVE M[i] # M[j]
  <2>1. UpTo(D, B, i) \in SUBSET UpTo(D, B, j) /\ j \notin UpTo(D, B, i) /\ j \in UpTo(D, B, j)
    BY <1>3 DEF UpTo, Predecessors, StrictOrder
  <2>2. /\ IsFiniteSet(UpTo(D, B, j))
        /\ M[i] = Cardinality(UpTo(D, B, i)) /\ M[j] = Cardinality(UpTo(D, B, j))
    BY <1>2
  <2>3. Cardinality(UpTo(D, B, j)) = Cardinality(UpTo(D, B, i)) => UpTo(D, B, j) = UpTo(D, B, i)
    BY <2>1, <2>2, FS_Subset, Zenon
  <2> HIDE DEF M
  <2> QED
    BY <2>1, <2>2, <2>3
<1>4. M \in Injection(D, 1 .. c)
  <2>1. M \in [D -> 1 .. c]
    BY <1>2
  <2>2. \A i, j \in D : M[i] = M[j] => i = j
    <3> HIDE DEF M
    <3> QED
      BY <1>3 DEF StrictOrder
  <2> HIDE DEF M
  <2> QED
    BY <2>1, <2>2 DEF Injection, IsInjective
<1>5. M \in Surjection(D, 1 .. c)
  <2> HIDE DEF M
  <2> QED
    BY <1>1, <1>4, FS_Injection
<1>6. \A r \in 1 .. c : \E i \in D : M[i] = r
  <2> HIDE DEF M
  <2> QED
    BY <1>5 DEF Surjection
<1> HIDE DEF M
<1> QED
  BY <1>2, <1>6

\* n positions are n numbers.
LEMMA CountPositions ==
  ASSUME NEW n \in Nat
  PROVE  IsFiniteSet(1 .. n) /\ Cardinality(1 .. n) = n
<1>1. 1 \in Int /\ n \in Int
  OBVIOUS
<1>2. IsFiniteSet(1 .. n) /\ Cardinality(1 .. n) = IF 1 > n THEN 0 ELSE n - 1 + 1
  BY <1>1, FS_Interval
<1>3. (IF 1 > n THEN 0 ELSE n - 1 + 1) = n
  OBVIOUS
<1> QED
  BY <1>2, <1>3

\* The sort loses no arc: every position gets one.
LEMMA SortedArcsType ==
  ASSUME NEW N \in Nat, NEW arcs \in Seq(ArcType(N)), NEW side
  PROVE  SortedArcs(arcs, side) \in Seq(ArcType(N))
<1> DEFINE L == Len(arcs)
           D == DOMAIN arcs
           x == [i \in D |-> IF side = "I" THEN arcs[i].ilabel ELSE arcs[i].olabel]
           y == [i \in D |-> IF side = "I" THEN arcs[i].olabel ELSE arcs[i].ilabel]
           Before(i, j) == \/ Less(Key(arcs[i], side), Key(arcs[j], side))
                           \/ Key(arcs[i], side) = Key(arcs[j], side) /\ i < j
           B == {p \in D \X D : Before(p[1], p[2])}
           Rank1(i) == 1 + Cardinality({j \in D : Before(j, i)})
<1>1. /\ L \in Nat /\ D = 1 .. L
      /\ \A i \in D : arcs[i] \in ArcType(N)
      /\ \A i \in D : arcs[i].ilabel \in Nat /\ arcs[i].olabel \in Nat
  <2>1. L \in Nat /\ D = 1 .. L /\ \A i \in D : arcs[i] \in ArcType(N)
    OBVIOUS
  <2> QED
    BY <2>1 DEF ArcType
<1>2. \A i \in D : x[i] \in Nat /\ y[i] \in Nat /\ i \in Int
  BY <1>1
<1>3. \A i, j \in D : Before(i, j) <=> \/ x[i] < x[j]
                                       \/ x[i] = x[j] /\ y[i] < y[j]
                                       \/ x[i] = x[j] /\ y[i] = y[j] /\ i < j
  BY DEF Less, Key
<1>4. \A i, j \in D : <<i, j>> \in B <=> Before(i, j)
  OBVIOUS
<1>5. IsFiniteSet(D) /\ Cardinality(D) = L
  <2>1. L \in Nat /\ D = 1 .. L
    BY <1>1, Zenon
  <2> HIDE DEF L, D
  <2> QED
    BY <2>1, CountPositions, Zenon
<1>6. SortedArcs(arcs, side) = [r \in D |-> arcs[CHOOSE i \in D : Rank1(i) = r]]
  BY DEF SortedArcs
<1> HIDE DEF x, y, Before, B, D, L
<1>7. \A i, j \in D : <<i, j>> \in B <=> \/ x[i] < x[j]
                                         \/ x[i] = x[j] /\ y[i] < y[j]
                                         \/ x[i] = x[j] /\ y[i] = y[j] /\ i < j
  BY <1>3, <1>4
<1>8. ASSUME NEW i \in D PROVE <<i, i>> \notin B
  <2>1. <<i, i>> \in B <=> \/ x[i] < x[i]
                           \/ x[i] = x[i] /\ y[i] < y[i]
                           \/ x[i] = x[i] /\ y[i] = y[i] /\ i < i
    BY <1>7
  <2>2. x[i] \in Nat /\ y[i] \in Nat /\ i \in Int
    BY <1>2
  <2> QED
    BY <2>1, <2>2
<1>9. ASSUME NEW i \in D, NEW j \in D, NEW k \in D, <<i, j>> \in B, <<j, k>> \in B
      PROVE  <<i, k>> \in B
  <2>1. /\ x[i] \in Nat /\ y[i] \in Nat /\ i \in Int
        /\ x[j] \in Nat /\ y[j] \in Nat /\ j \in Int
        /\ x[k] \in Nat /\ y[k] \in Nat /\ k \in Int
    BY <1>2
  <2>2. \/ x[i] < x[j]
        \/ x[i] = x[j] /\ y[i] < y[j]
        \/ x[i] = x[j] /\ y[i] = y[j] /\ i < j
    BY <1>7, <1>9
  <2>3. \/ x[j] < x[k]
        \/ x[j] = x[k] /\ y[j] < y[k]
        \/ x[j] = x[k] /\ y[j] = y[k] /\ j < k
    BY <1>7, <1>9
  <2>4. \/ x[i] < x[k]
        \/ x[i] = x[k] /\ y[i] < y[k]
        \/ x[i] = x[k] /\ y[i] = y[k] /\ i < k
    BY <2>1, <2>2, <2>3
  <2> QED
    BY <1>7, <2>4
<1>10. ASSUME NEW i \in D, NEW j \in D PROVE i = j \/ <<i, j>> \in B \/ <<j, i>> \in B
  <2>1. /\ x[i] \in Nat /\ y[i] \in Nat /\ i \in Int
        /\ x[j] \in Nat /\ y[j] \in Nat /\ j \in Int
    BY <1>2
  <2>2. \/ i = j
        \/ x[i] < x[j]
        \/ x[i] = x[j] /\ y[i] < y[j]
        \/ x[i] = x[j] /\ y[i] = y[j] /\ i < j
        \/ x[j] < x[i]
        \/ x[j] = x[i] /\ y[j] < y[i]
        \/ x[j] = x[i] /\ y[j] = y[i] /\ j < i
    BY <2>1
  <2> QED
    BY <1>7, <2>2
<1>11. \A r \in 1 .. Cardinality(D) : \E i \in D : 1 + Cardinality(Predecessors(D, B, i)) = r
  <2>1. StrictOrder(D, B)
    BY <1>8, <1>9, <1>10 DEF StrictOrder
  <2>2. IsFiniteSet(D)
    BY <1>5
  <2> QED
    BY <2>1, <2>2, EveryRank, Zenon
<1>12. \A i \in D : Predecessors(D, B, i) = {j \in D : Before(j, i)}
  BY <1>4 DEF Predecessors
<1>13. \A i \in D : Rank1(i) = 1 + Cardinality(Predecessors(D, B, i))
  BY <1>12
<1> HIDE DEF Rank1
<1>14. \A r \in D : \E i \in D : Rank1(i) = r
  <2>1. \A r \in D : r \in 1 .. Cardinality(D)
    BY <1>1, <1>5
  <2> QED
    BY <2>1, <1>11, <1>13, Zenon
<1>15. \A r \in D : (CHOOSE i \in D : Rank1(i) = r) \in D
  BY <1>14
<1>16. SortedArcs(arcs, side) \in [1 .. L -> ArcType(N)]
  BY <1>1, <1>6, <1>15
<1> QED
  BY <1>1, <1>16

\* DeleteArcs and the loop that appends other arcs.
LEMMA ReplaceArcsDraft ==
  ASSUME NEW n \in Nat, NEW N \in Nat, NEW e, NEW f \in Draft(n, N, e), NEW s \in 0 .. n - 1,
         NEW arcs \in Seq(ArcType(N))
  PROVE  ReplaceArcs(f, s, arcs) \in Draft(n, N, e)
<1> DEFINE k == Len(f.states[s].arcs)
           cleared == DeleteArcs(f, s, k)
<1>1. k \in Nat
  BY DraftState
<1>2. ReplaceArcs(f, s, arcs) = AddArcs(cleared, s, arcs)
  BY DEF ReplaceArcs
<1>3. cleared \in Draft(n, N, e)
  <2> HIDE DEF k
  <2> QED
    BY <1>1, DeleteArcsDraft
<1> HIDE DEF cleared
<1> QED
  BY <1>2, <1>3, AddArcsDraft

\* A state of ArcSort.
LEMMA SortStateDraft ==
  ASSUME NEW n \in Nat, NEW N \in Nat, NEW e, NEW f \in Draft(n, N, e), NEW s \in 0 .. n - 1,
         NEW side
  PROVE  SortState(f, s, side) \in Draft(n, N, e)
<1> DEFINE q == SortedArcs(f.states[s].arcs, side)
           w == f.states[s].final
<1>1. w \in Weights /\ f.states[s].arcs \in Seq(ArcType(N))
  BY DraftState
<1>2. q \in Seq(ArcType(N))
  BY <1>1, SortedArcsType
<1>3. SortState(f, s, side) = SetFinal(ReplaceArcs(f, s, q), s, w)
  BY DEF SortState
<1> HIDE DEF q, w
<1>4. ReplaceArcs(f, s, q) \in Draft(n, N, e)
  BY <1>2, ReplaceArcsDraft
<1> QED
  BY <1>1, <1>3, <1>4, SetFinalDraft

\* The loop over the states.
LEMMA SortStatesDraft ==
  ASSUME NEW f, IsVectorFst(f), f.start # kNoStateId, NEW side
  PROVE  SortStates(f, side) \in Draft(NumStates(f), NumStates(f), Failed(f))
<1> DEFINE e == Failed(f)
           base == SetStart(f, f.start)
           L == NumStates(f)
           Op(x, i) == SortState(x, i - 1, side)
           S == [i \in 0 .. L |-> Draft(L, L, e)]
           step == [i \in 1 .. L |-> [x \in S[i - 1] |-> Op(x, i)]]
           F(h) == [i \in 0 .. L |-> IF i = 0 THEN base ELSE Op(h[i - 1], i)]
           after == CHOOSE h : h = F(h)
<1>1. L \in Nat /\ base \in S[0]
  <2>1. L \in Nat /\ f.start \in 0 .. L - 1 /\ f \in Draft(L, L, e)
    BY MachineFacts, MachineDraft
  <2> HIDE DEF L, e
  <2>2. base \in Draft(L, L, e)
    BY <2>1, SetStartDraft
  <2> HIDE DEF base
  <2> QED
    BY <2>1, <2>2
<1>2. ASSUME NEW i \in 1 .. L, NEW x \in S[i - 1] PROVE Op(x, i) \in S[i]
  <2> HIDE DEF L, e
  <2>1. x \in Draft(L, L, e) /\ i - 1 \in 0 .. L - 1 /\ i \in 0 .. L
    BY <1>1
  <2>2. Op(x, i) \in Draft(L, L, e)
    <3> HIDE DEF S
    <3> QED
      BY <1>1, <2>1, SortStateDraft
  <2> HIDE DEF Op
  <2> QED
    BY <2>1, <2>2
<1>3. SortStates(f, side) = after[L]
  BY DEF SortStates
<1> HIDE DEF L, Op, S, base
<1>4. Fits(S, L, step)
  BY <1>2 DEF Fits
<1>5. PICK k : Runs(k, S, base, L, step)
  <2> HIDE DEF step
  <2> QED
    BY <1>1, <1>4, LoopRuns
<1>6. k = F(k)
  <2>1. PICK T : k \in [0 .. L -> T]
    BY <1>5 DEF Runs
  <2>2. \A i \in 1 .. L : i - 1 \in 0 .. L
    BY <1>1
  <2>3. k[0] = base /\ \A i \in 1 .. L : k[i] = step[i][k[i - 1]] /\ k[i - 1] \in S[i - 1]
    <3> HIDE DEF step
    <3> QED
      BY <2>2, <1>5 DEF Runs
  <2>4. \A i \in 1 .. L : k[i] = Op(k[i - 1], i)
    BY <2>3
  <2> HIDE DEF step
  <2>5. \A i \in 0 .. L : i = 0 \/ i \in 1 .. L
    BY <1>1
  <2>6. \A i \in 0 .. L : k[i] = F(k)[i]
    BY <2>3, <2>4, <2>5
  <2> QED
    BY <2>1, <2>6
<1>7. after = F(after)
  <2> HIDE DEF F
  <2> QED
    BY <1>6
<1> HIDE DEF after
<1>8. after[0] = base /\ \A i \in 1 .. L : after[i] = Op(after[i - 1], i)
  <2>1. 0 \in 0 .. L /\ \A i \in 1 .. L : i \in 0 .. L /\ i # 0
    BY <1>1
  <2> QED
    BY <1>7, <2>1
<1>9. \A i \in 1 .. L : after[i - 1] \in S[i - 1] => after[i] \in S[i]
  BY <1>2, <1>8
<1>10. after[L] \in S[L]
  BY <1>1, <1>8, <1>9, LoopStays
<1>11. S[L] = Draft(NumStates(f), NumStates(f), Failed(f))
  BY <1>1 DEF S, L
<1> QED
  BY <1>3, <1>10, <1>11

\* ArcSort.
LEMMA ArcSortMachine ==
  ASSUME NEW f, IsVectorFst(f), NEW side
  PROVE  Machine(ArcSort(f, side), Failed(f))
<1> DEFINE n == NumStates(f)
           e == Failed(f)
           sorted == SortStates(f, side)
           P == IF side = "I"
                THEN ArcSortProperties(f.props, "ILabelSorted", "OLabelSorted")
                ELSE ArcSortProperties(f.props, "OLabelSorted", "ILabelSorted")
<1>1. n \in Nat /\ f \in Draft(n, n, e)
  BY MachineDraft
<1>2. CASE f.start = kNoStateId
  <2>1. ArcSort(f, side) = f
    BY <1>2 DEF ArcSort
  <2> QED
    BY <1>1, <2>1, DraftMachine
<1>3. CASE f.start # kNoStateId
  <2>1. ArcSort(f, side) = SetProperties(sorted, P, kFstProperties)
    BY <1>3 DEF ArcSort
  <2>2. e => "Error" \in P \cap kFstProperties
    BY TrinaryBits DEF Failed, ArcSortProperties, kArcSortProperties
  <2>3. sorted \in Draft(n, n, e)
    BY <1>3, SortStatesDraft
  <2> HIDE DEF sorted, n, e, P
  <2>4. Machine(SetProperties(sorted, P, kFstProperties), e)
    BY <1>1, <2>2, <2>3, ResultMachine
  <2> QED
    BY <2>1, <2>4 DEF e
<1> QED
  BY <1>2, <1>3

-----------------------------------------------------------------------------
(* StateSort and TopSort.                                                  *)

\* The arcs of a moved state.
LEMMA RelabeledType ==
  ASSUME NEW n \in Nat, NEW arcs \in Seq(ArcType(n)), NEW order \in [0 .. n - 1 -> 0 .. n - 1]
  PROVE  Relabeled(arcs, order) \in Seq(ArcType(n))
<1> DEFINE L == Len(arcs)
<1>1. L \in Nat /\ DOMAIN arcs = 1 .. L
  OBVIOUS
<1>2. ASSUME NEW i \in 1 .. L PROVE [arcs[i] EXCEPT !.nextstate = order[@]] \in ArcType(n)
  <2>1. arcs[i] \in ArcType(n)
    OBVIOUS
  <2>2. order[arcs[i].nextstate] \in 0 .. n - 1
    BY <2>1 DEF ArcType
  <2> QED
    BY <2>1, <2>2 DEF ArcType
<1> HIDE DEF L
<1>3. Relabeled(arcs, order) = [i \in 1 .. L |-> [arcs[i] EXCEPT !.nextstate = order[@]]]
  BY <1>1 DEF Relabeled
<1>4. Relabeled(arcs, order) \in [1 .. L -> ArcType(n)]
  BY <1>2, <1>3
<1> QED
  BY <1>1, <1>4

\* What the loops of StateSort carry along.
Moving(n, e) == [f : Draft(n, n, e), done : SUBSET (0 .. n - 1), s : 0 .. n - 1, held : StateType(n)]

\* One move along a cycle of the order.
LEMMA MoveStateDraft ==
  ASSUME NEW n \in Nat, NEW e, NEW acc \in Moving(n, e), NEW order \in [0 .. n - 1 -> 0 .. n - 1]
  PROVE  MoveState(acc, order) \in Moving(n, e)
<1> DEFINE s2 == order[acc.s]
           q == Relabeled(acc.held.arcs, order)
           g == ReplaceArcs(SetFinal(acc.f, s2, acc.held.final), s2, q)
           h == acc.f.states[s2]
           d == acc.done \cup {acc.s}
<1>1. /\ acc.f \in Draft(n, n, e) /\ acc.done \in SUBSET (0 .. n - 1) /\ acc.s \in 0 .. n - 1
      /\ acc.held \in StateType(n)
  BY DEF Moving
<1>2. s2 \in 0 .. n - 1 /\ d \in SUBSET (0 .. n - 1)
  BY <1>1
<1>3. acc.held.final \in Weights /\ acc.held.arcs \in Seq(ArcType(n))
  BY <1>1 DEF StateType
<1>4. q \in Seq(ArcType(n))
  BY <1>3, RelabeledType
<1>5. CASE acc.s \in acc.done
  BY <1>5 DEF MoveState
<1>6. CASE acc.s \notin acc.done
  <2>1. MoveState(acc, order) = [acc EXCEPT !.f = g, !.held = h, !.done = d, !.s = s2]
    BY <1>6 DEF MoveState
  <2> HIDE DEF s2, q, d
  <2>2. SetFinal(acc.f, s2, acc.held.final) \in Draft(n, n, e)
    BY <1>1, <1>2, <1>3, SetFinalDraft
  <2>3. g \in Draft(n, n, e)
    BY <1>2, <1>4, <2>2, ReplaceArcsDraft
  <2>4. h \in StateType(n)
    BY <1>1, <1>2, DraftFacts
  <2> HIDE DEF g, h
  <2> QED
    BY <1>2, <2>1, <2>3, <2>4 DEF Moving
<1> QED
  BY <1>5, <1>6

\* The loop along one cycle.
LEMMA MoveCycleDraft ==
  ASSUME NEW n \in Nat, NEW e, NEW acc \in Moving(n, e), NEW s \in 0 .. n - 1,
         NEW order \in [0 .. n - 1 -> 0 .. n - 1]
  PROVE  MoveCycle(acc, s, order, n) \in Moving(n, e)
<1> DEFINE base == [acc EXCEPT !.s = s, !.held = acc.f.states[s]]
           L == n
           Op(x, i) == MoveState(x, order)
           S == [i \in 0 .. L |-> Moving(n, e)]
           step == [i \in 1 .. L |-> [x \in S[i - 1] |-> Op(x, i)]]
           F(h) == [i \in 0 .. L |-> IF i = 0 THEN base ELSE Op(h[i - 1], i)]
           after == CHOOSE h : h = F(h)
<1>1. L \in Nat /\ base \in S[0]
  <2>1. acc.f \in Draft(n, n, e)
    BY DEF Moving
  <2>2. acc.f.states[s] \in StateType(n)
    BY <2>1, DraftFacts
  <2> DEFINE h == acc.f.states[s]
  <2>3. base = [acc EXCEPT !.s = s, !.held = h] /\ h \in StateType(n)
    BY <2>2
  <2> HIDE DEF h
  <2>4. base \in Moving(n, e)
    <3> HIDE DEF base
    <3> QED
      BY <2>3 DEF Moving
  <2> HIDE DEF base
  <2> QED
    BY <2>4
<1>2. ASSUME NEW i \in 1 .. L, NEW x \in S[i - 1] PROVE Op(x, i) \in S[i]
  <2>1. x \in Moving(n, e) /\ i \in 0 .. L
    OBVIOUS
  <2>2. Op(x, i) \in Moving(n, e)
    <3> HIDE DEF S
    <3> QED
      BY <2>1, MoveStateDraft
  <2> HIDE DEF Op
  <2> QED
    BY <2>1, <2>2
<1>3. MoveCycle(acc, s, order, n) = IF s \in acc.done THEN acc ELSE after[L]
  BY DEF MoveCycle
<1> HIDE DEF L, Op, S, base
<1>4. Fits(S, L, step)
  BY <1>2 DEF Fits
<1>5. PICK k : Runs(k, S, base, L, step)
  <2> HIDE DEF step
  <2> QED
    BY <1>1, <1>4, LoopRuns
<1>6. k = F(k)
  <2>1. PICK T : k \in [0 .. L -> T]
    BY <1>5 DEF Runs
  <2>2. \A i \in 1 .. L : i - 1 \in 0 .. L
    BY <1>1
  <2>3. k[0] = base /\ \A i \in 1 .. L : k[i] = step[i][k[i - 1]] /\ k[i - 1] \in S[i - 1]
    <3> HIDE DEF step
    <3> QED
      BY <2>2, <1>5 DEF Runs
  <2>4. \A i \in 1 .. L : k[i] = Op(k[i - 1], i)
    BY <2>3
  <2> HIDE DEF step
  <2>5. \A i \in 0 .. L : i = 0 \/ i \in 1 .. L
    BY <1>1
  <2>6. \A i \in 0 .. L : k[i] = F(k)[i]
    BY <2>3, <2>4, <2>5
  <2> QED
    BY <2>1, <2>6
<1>7. after = F(after)
  <2> HIDE DEF F
  <2> QED
    BY <1>6
<1> HIDE DEF after
<1>8. after[0] = base /\ \A i \in 1 .. L : after[i] = Op(after[i - 1], i)
  <2>1. 0 \in 0 .. L /\ \A i \in 1 .. L : i \in 0 .. L /\ i # 0
    BY <1>1
  <2> QED
    BY <1>7, <2>1
<1>9. \A i \in 1 .. L : after[i - 1] \in S[i - 1] => after[i] \in S[i]
  BY <1>2, <1>8
<1>10. after[L] \in S[L]
  BY <1>1, <1>8, <1>9, LoopStays
<1>11. S[L] = Moving(n, e)
  BY <1>1 DEF S
<1> QED
  BY <1>3, <1>10, <1>11

\* The loop over all states.
LEMMA MoveCyclesDraft ==
  ASSUME NEW f, IsVectorFst(f), f.start # kNoStateId, NEW order \in [States(f) -> States(f)]
  PROVE  MoveCycles(f, order) \in Draft(NumStates(f), NumStates(f), Failed(f))
<1> DEFINE e == Failed(f)
           base == [f |-> SetStart(f, order[f.start]), done |-> {}, s |-> 0, held |-> VectorState]
           L == NumStates(f)
           Op(x, i) == MoveCycle(x, i - 1, order, L)
           S == [i \in 0 .. L |-> Moving(L, e)]
           step == [i \in 1 .. L |-> [x \in S[i - 1] |-> Op(x, i)]]
           F(h) == [i \in 0 .. L |-> IF i = 0 THEN base ELSE Op(h[i - 1], i)]
           after == CHOOSE h : h = F(h)
<1>a. /\ L \in Nat /\ f.start \in 0 .. L - 1 /\ f \in Draft(L, L, e)
      /\ order \in [0 .. L - 1 -> 0 .. L - 1]
  <2>1. States(f) = 0 .. L - 1
    BY MachineFacts
  <2> QED
    BY <2>1, MachineFacts, MachineDraft
<1>1. L \in Nat /\ base \in S[0]
  <2> DEFINE g == SetStart(f, order[f.start])
  <2>1. order[f.start] \in 0 .. L - 1
    BY <1>a
  <2>2. g \in Draft(L, L, e)
    <3> HIDE DEF L, e
    <3> QED
      BY <1>a, <2>1, SetStartDraft
  <2>3. VectorState \in StateType(L)
    BY DEF VectorState, StateType, Weights
  <2>4. base = [f |-> g, done |-> {}, s |-> 0, held |-> VectorState] /\ 0 \in 0 .. L - 1
    <3>1. 0 \in 0 .. L - 1
      <4> HIDE DEF L
      <4> QED
        BY <1>a
    <3> QED
      BY <3>1
  <2> HIDE DEF g, base, L, e
  <2>5. base \in Moving(L, e)
    BY <2>2, <2>3, <2>4 DEF Moving
  <2> QED
    BY <1>a, <2>5
<1>2. ASSUME NEW i \in 1 .. L, NEW x \in S[i - 1] PROVE Op(x, i) \in S[i]
  <2> HIDE DEF L, e
  <2>1. x \in Moving(L, e) /\ i - 1 \in 0 .. L - 1 /\ i \in 0 .. L
    BY <1>1
  <2>2. Op(x, i) \in Moving(L, e)
    <3> HIDE DEF S
    <3> QED
      BY <1>a, <2>1, MoveCycleDraft
  <2> HIDE DEF Op
  <2> QED
    BY <2>1, <2>2
<1>3. MoveCycles(f, order) = after[L].f
  BY DEF MoveCycles
<1> HIDE DEF L, Op, S, base
<1>4. Fits(S, L, step)
  BY <1>2 DEF Fits
<1>5. PICK k : Runs(k, S, base, L, step)
  <2> HIDE DEF step
  <2> QED
    BY <1>1, <1>4, LoopRuns
<1>6. k = F(k)
  <2>1. PICK T : k \in [0 .. L -> T]
    BY <1>5 DEF Runs
  <2>2. \A i \in 1 .. L : i - 1 \in 0 .. L
    BY <1>1
  <2>3. k[0] = base /\ \A i \in 1 .. L : k[i] = step[i][k[i - 1]] /\ k[i - 1] \in S[i - 1]
    <3> HIDE DEF step
    <3> QED
      BY <2>2, <1>5 DEF Runs
  <2>4. \A i \in 1 .. L : k[i] = Op(k[i - 1], i)
    BY <2>3
  <2> HIDE DEF step
  <2>5. \A i \in 0 .. L : i = 0 \/ i \in 1 .. L
    BY <1>1
  <2>6. \A i \in 0 .. L : k[i] = F(k)[i]
    BY <2>3, <2>4, <2>5
  <2> QED
    BY <2>1, <2>6
<1>7. after = F(after)
  <2> HIDE DEF F
  <2> QED
    BY <1>6
<1> HIDE DEF after
<1>8. after[0] = base /\ \A i \in 1 .. L : after[i] = Op(after[i - 1], i)
  <2>1. 0 \in 0 .. L /\ \A i \in 1 .. L : i \in 0 .. L /\ i # 0
    BY <1>1
  <2> QED
    BY <1>7, <2>1
<1>9. \A i \in 1 .. L : after[i - 1] \in S[i - 1] => after[i] \in S[i]
  BY <1>2, <1>8
<1>10. after[L] \in S[L]
  BY <1>1, <1>8, <1>9, LoopStays
<1>11. S[L] = Moving(NumStates(f), Failed(f))
  BY <1>1 DEF S, L
<1> QED
  BY <1>3, <1>10, <1>11 DEF Moving

\* StateSort, for every order of the states.
LEMMA StateSortMachine ==
  ASSUME NEW f, IsVectorFst(f), NEW order \in [States(f) -> States(f)]
  PROVE  Machine(StateSort(f, order), Failed(f))
<1> DEFINE n == NumStates(f)
           e == Failed(f)
           moved == MoveCycles(f, order)
           P == f.props \cap kStateSortProperties
<1>1. n \in Nat /\ f \in Draft(n, n, e)
  BY MachineDraft
<1>2. CASE f.start = kNoStateId
  <2>1. StateSort(f, order) = f
    BY <1>2 DEF StateSort
  <2> QED
    BY <1>1, <2>1, DraftMachine
<1>3. CASE f.start # kNoStateId
  <2>1. StateSort(f, order) = SetProperties(moved, P, kFstProperties)
    BY <1>3 DEF StateSort
  <2>2. e => "Error" \in P \cap kFstProperties
    BY TrinaryBits DEF Failed, kStateSortProperties
  <2>3. moved \in Draft(n, n, e)
    BY <1>3, MoveCyclesDraft
  <2> HIDE DEF moved, n, e, P
  <2>4. Machine(SetProperties(moved, P, kFstProperties), e)
    BY <1>1, <2>2, <2>3, ResultMachine
  <2> QED
    BY <2>1, <2>4 DEF e
<1> QED
  BY <1>2, <1>3

\* Setting bits keeps a machine a machine, and never clears the error bit.
LEMMA SetPropertiesMachine ==
  ASSUME NEW f, NEW e, Machine(f, e), NEW P, NEW mask \in SUBSET kFstProperties
  PROVE  Machine(SetProperties(f, P, mask), e)
<1>1. IsVectorFst(f) /\ (e => Failed(f))
  BY DEF Machine
<1>2. NumStates(f) \in Nat /\ f \in Draft(NumStates(f), NumStates(f), Failed(f))
  BY <1>1, MachineDraft
<1>3. e => Failed(f) \/ "Error" \in P \cap mask
  BY <1>1
<1> QED
  BY <1>2, <1>3, ResultMachine

\* SetProperties(kError, kError) on a machine.
LEMMA SetErrorMachine ==
  ASSUME NEW f, IsVectorFst(f)
  PROVE  Machine(SetError(f), TRUE)
<1>1. NumStates(f) \in Nat /\ f \in Draft(NumStates(f), NumStates(f), Failed(f))
  BY MachineDraft
<1>2. SetError(f) \in Draft(NumStates(f), NumStates(f), TRUE)
  BY <1>1, SetErrorDraft
<1> QED
  BY <1>1, <1>2, DraftMachine

\* TopSort, whatever order its search finds.
LEMMA TopSortMachine ==
  ASSUME NEW f, IsVectorFst(f), NEW g \in TopSortResults(f)
  PROVE  Machine(g, Failed(f))
<1> DEFINE e == Failed(f)
           sorted == {"Acyclic", "InitialAcyclic", "TopSorted"}
           cyclic == {"Cyclic", "NotTopSorted"}
<1>1. Machine(f, e) /\ Machine(SetError(f), e)
  <2>1. Machine(SetError(f), TRUE)
    BY SetErrorMachine
  <2> QED
    BY <2>1 DEF Machine
<1>2. sorted \in SUBSET kFstProperties /\ cyclic \in SUBSET kFstProperties
  BY TrinaryBits
<1>3. \A p \in TopologicalOrders(f) : Machine(StateSort(f, p), e)
  <2>1. \A p \in TopologicalOrders(f) : p \in [States(f) -> States(f)]
    BY DEF TopologicalOrders, Orders
  <2> QED
    BY <2>1, StateSortMachine
<1>4. CASE f.start = kNoStateId
  <2>1. g = SetProperties(f, sorted, sorted) \/ g = SetProperties(SetError(f), sorted, sorted)
    BY <1>4 DEF TopSortResults
  <2> HIDE DEF sorted, e
  <2>2. Machine(g, e)
    BY <1>1, <1>2, <2>1, SetPropertiesMachine
  <2> QED
    BY <2>2 DEF e
<1>5. CASE f.start # kNoStateId /\ TopologicalOrders(f) = {}
  <2>1. g = SetProperties(f, cyclic, cyclic)
    BY <1>5 DEF TopSortResults
  <2> HIDE DEF cyclic, e
  <2>2. Machine(g, e)
    BY <1>1, <1>2, <2>1, SetPropertiesMachine
  <2> QED
    BY <2>2 DEF e
<1>6. CASE f.start # kNoStateId /\ TopologicalOrders(f) # {}
  <2>1. PICK p \in TopologicalOrders(f) : g = SetProperties(StateSort(f, p), sorted, sorted)
    BY <1>6 DEF TopSortResults
  <2> HIDE DEF sorted, e
  <2>2. Machine(g, e)
    BY <1>2, <1>3, <2>1, SetPropertiesMachine
  <2> QED
    BY <2>2 DEF e
<1> QED
  BY <1>4, <1>5, <1>6

-----------------------------------------------------------------------------
(* Connect and the mutators that are used as operations.                   *)

\* DeleteStates keeps the error bit.
LEMMA DeleteStatesKeeps ==
  ASSUME NEW f, IsVectorFst(f), NEW d \in SUBSET States(f)
  PROVE  Machine(DeleteStates(f, d), Failed(f))
<1> DEFINE g == DeleteStates(f, d)
<1>1. CASE d = {}
  BY <1>1 DEF DeleteStates, Machine
<1>2. CASE d # {}
  <2>1. /\ IsVectorFst(g)
        /\ g.props = StoreProperties(f.props, DeleteStatesProperties(f.props))
        /\ \E h : /\ Embeds(f, g, States(g), h)
                  /\ \A t \in States(g) : g.states[t].final = f.states[h[t]].final
                  /\ g.start # kNoStateId => /\ g.start \in States(g)
                                             /\ f.start = h[g.start]
                                             /\ f.start # kNoStateId
    BY <1>2, DeleteStatesMachine, Zenon
  <2> HIDE DEF g
  <2>2. Failed(f) => Failed(g)
    BY <2>1 DEF Failed, StoreProperties
  <2> QED
    BY <2>1, <2>2 DEF Machine, g
<1> QED
  BY <1>1, <1>2

\* Connect.
LEMMA ConnectMachine ==
  ASSUME NEW f, IsVectorFst(f)
  PROVE  Machine(Connect(f), Failed(f))
<1> DEFINE trimmed == {"Accessible", "CoAccessible"}
           useless == IF f.start = kNoStateId THEN {}
                      ELSE {s \in States(f) : ~ (Accessible(f, s) /\ Coaccessible(f, s))}
<1>1. Connect(f) = SetProperties(DeleteStates(f, useless), trimmed, trimmed)
  BY DEF Connect
<1>2. trimmed \in SUBSET kFstProperties /\ useless \in SUBSET States(f)
  BY TrinaryBits
<1> HIDE DEF trimmed, useless
<1>3. Machine(DeleteStates(f, useless), Failed(f))
  BY <1>2, DeleteStatesKeeps
<1> QED
  BY <1>1, <1>2, <1>3, SetPropertiesMachine

\* DeleteStates without an argument keeps the error bit.
LEMMA DeleteAllStatesKeeps ==
  ASSUME NEW f, IsVectorFst(f)
  PROVE  Machine(DeleteAllStates(f), Failed(f))
<1>1. IsVectorFst(DeleteAllStates(f))
  BY DeleteAllStatesSound
<1>2. Failed(f) => Failed(DeleteAllStates(f))
  BY DEF DeleteAllStates, StoreProperties, Failed
<1> QED
  BY <1>1, <1>2 DEF Machine

\* A test only adds bits, also where those that are stored are not all true.
LEMMA TestKeeps ==
  ASSUME NEW f, IsVectorFst(f), Conventional(f), NEW mask \in SUBSET kFstProperties,
         NEW result \in TestResults(f, mask)
  PROVE  Machine(TestProperties(f, result), Failed(f))
<1> DEFINE P == UpdateProperties(f.props, result, KnownProperties(result))
           g == TestProperties(f, result)
<1>1. result \subseteq kFstProperties
  <2>1. CASE mask \subseteq KnownProperties(f.props)
    BY <2>1, MachineFacts DEF TestResults
  <2>2. CASE ~ (mask \subseteq KnownProperties(f.props))
    <3>1. result \in ComputeResults(f, mask)
      BY <2>2 DEF TestResults
    <3> QED
      BY <3>1, ComputeRight
  <2> QED
    BY <2>1, <2>2
<1>2. P \in SUBSET kFstProperties /\ f.props \subseteq P
  BY <1>1, MachineFacts DEF UpdateProperties
<1>3. g = [f EXCEPT !.props = P]
  BY DEF TestProperties
<1> HIDE DEF P, g
<1>4. IsVectorFst(g) /\ g.start = f.start /\ g.states = f.states /\ g.props = P
  BY <1>2, <1>3, ReplacedProps
<1>5. Machine(g, Failed(f))
  BY <1>2, <1>4 DEF Machine, Failed
<1> QED
  BY <1>5 DEF g

-----------------------------------------------------------------------------
(* Reverse.                                                                *)

\* The drafts that have at least m of N states.
Growing(m, N) == UNION {Draft(k, N, FALSE) : k \in {j \in Nat : m <= j /\ j <= N}}

\* A draft with enough states.
LEMMA MakeGrowing ==
  ASSUME NEW m, NEW N, NEW k \in Nat, m <= k, k <= N, NEW f \in Draft(k, N, FALSE)
  PROVE  f \in Growing(m, N)
BY DEF Growing

\* The loop that adds states until state s exists.
LEMMA GrowToDraft ==
  ASSUME NEW k \in Nat, NEW N \in Nat, k <= N, NEW f \in Draft(k, N, FALSE),
         NEW s \in Int, -1 <= s, s < N
  PROVE  \E m \in Nat : m >= k /\ m > s /\ m <= N /\ GrowTo(f, s) \in Draft(m, N, FALSE)
<1>1. NumStates(f) = k
  BY DraftFacts
<1>2. CASE s < k
  <2>1. GrowTo(f, s) = f
    BY <1>1, <1>2 DEF GrowTo
  <2>2. k >= k /\ k > s
    BY <1>2
  <2> QED
    BY <2>1, <2>2
<1>3. CASE ~ (s < k)
  <2> DEFINE j == s + 1 - k
  <2>1. GrowTo(f, s) = AddStates(f, j) /\ j \in Nat /\ k + j = s + 1
    BY <1>1, <1>3 DEF GrowTo
  <2> HIDE DEF j
  <2>2. AddStates(f, j) \in Draft(k + j, N, FALSE)
    BY <2>1, AddStatesDraft
  <2>3. s + 1 \in Nat /\ s + 1 >= k /\ s + 1 > s /\ s + 1 <= N
    BY <1>3
  <2> QED
    BY <2>1, <2>2, <2>3
<1> QED
  BY <1>2, <1>3

\* How a machine with n states is reversed into one with N.
IsPlan(plan, n, N) ==
  /\ plan.offset \in Nat /\ n + plan.offset = N /\ (~ plan.reused => plan.offset = 1)
  /\ plan.ostart \in 0 .. N - 1 /\ plan.moved \in Weights /\ plan.prod \in Weights

\* Reverse adds the reverse of an arc, and the state it starts from if it is new.
LEMMA ReverseArcDraft ==
  ASSUME NEW n \in Nat, NEW N \in Nat, NEW plan, IsPlan(plan, n, N), NEW m \in Nat,
         NEW acc \in Growing(m, N), NEW s \in 0 .. n - 1, NEW a \in ArcType(n)
  PROVE  ReverseArc(acc, s, a, plan) \in Growing(m, N)
<1> DEFINE t == a.nextstate + plan.offset
           w == IF plan.reused /\ t = plan.ostart THEN Times(plan.moved, a.weight, plan.prod)
                                                  ELSE a.weight
           b == Arc(a.ilabel, a.olabel, w, s + plan.offset)
<1>1. PICK k \in Nat : m <= k /\ k <= N /\ acc \in Draft(k, N, FALSE)
  BY DEF Growing
<1>2. /\ plan.offset \in Nat /\ n + plan.offset = N /\ plan.moved \in Weights
      /\ plan.prod \in Weights
  BY DEF IsPlan
<1>3. /\ a.ilabel \in Nat /\ a.olabel \in Nat /\ a.weight \in Weights
      /\ a.nextstate \in 0 .. n - 1
  BY DEF ArcType
<1>4. t \in Int /\ -1 <= t /\ t < N /\ 0 <= t /\ s + plan.offset \in 0 .. N - 1
  BY <1>2, <1>3
<1>5. w \in Weights
  BY <1>2, <1>3 DEF Times, Weights
<1>6. ReverseArc(acc, s, a, plan) = AddArc(GrowTo(acc, t), t, b)
  BY DEF ReverseArc
<1> HIDE DEF t, w
<1>7. b \in ArcType(N)
  BY <1>3, <1>4, <1>5 DEF Arc, ArcType
<1> HIDE DEF b
<1>8. PICK j \in Nat : j >= k /\ j > t /\ j <= N /\ GrowTo(acc, t) \in Draft(j, N, FALSE)
  BY <1>1, <1>4, GrowToDraft
<1>9. t \in 0 .. j - 1 /\ m <= j
  BY <1>1, <1>4, <1>8
<1>10. AddArc(GrowTo(acc, t), t, b) \in Draft(j, N, FALSE)
  BY <1>7, <1>8, <1>9, AddArcDraft
<1> QED
  BY <1>6, <1>8, <1>9, <1>10, MakeGrowing

\* A state of Reverse.
LEMMA ReverseStateDraft ==
  ASSUME NEW f, IsVectorFst(f), NEW N \in Nat, NEW plan, IsPlan(plan, NumStates(f), N),
         NEW s \in States(f), NEW acc \in Growing(s + plan.offset, N)
  PROVE  ReverseState(acc, f, s, plan) \in Growing(s + plan.offset + 1, N)
<1> DEFINE os == s + plan.offset
           grown == GrowTo(acc, os)
           marked == IF s = f.start THEN SetFinal(grown, os, "One") ELSE grown
           linked == IF IsFinal(f, s) /\ ~ plan.reused
                     THEN AddArc(marked, 0, Epsilon(f.states[s].final, os)) ELSE marked
           arcs == f.states[s].arcs
           L == Len(arcs)
           Op(x, i) == ReverseArc(x, s, arcs[i], plan)
           S == [i \in 0 .. L |-> Growing(os + 1, N)]
           step == [i \in 1 .. L |-> [x \in S[i - 1] |-> Op(x, i)]]
           F(h) == [i \in 0 .. L |-> IF i = 0 THEN linked ELSE Op(h[i - 1], i)]
           after == CHOOSE h : h = F(h)
<1>a. /\ NumStates(f) \in Nat /\ s \in 0 .. NumStates(f) - 1 /\ plan.offset \in Nat
      /\ os \in 0 .. N - 1 /\ L \in Nat /\ f.states[s].final \in Weights
      /\ \A i \in 1 .. L : arcs[i] \in ArcType(NumStates(f))
  <2>1. /\ NumStates(f) \in Nat /\ s \in 0 .. NumStates(f) - 1 /\ f.states[s].final \in Weights
    BY MachineFacts, StateFacts
  <2>2. L \in Nat /\ \A i \in 1 .. L : arcs[i] \in ArcType(NumStates(f))
    BY ArcFacts
  <2>3. plan.offset \in Nat /\ NumStates(f) + plan.offset = N
    BY DEF IsPlan
  <2>4. os \in 0 .. N - 1
    BY <2>1, <2>3
  <2> HIDE DEF L, arcs, os
  <2> QED
    BY <2>1, <2>2, <2>3, <2>4
<1>1. L \in Nat /\ linked \in S[0]
  <2>1. PICK k \in Nat : os <= k /\ k <= N /\ acc \in Draft(k, N, FALSE)
    BY DEF Growing
  <2>2. os \in Int /\ -1 <= os /\ os < N
    BY <1>a
  <2> HIDE DEF os
  <2>3. PICK j \in Nat : j >= k /\ j > os /\ j <= N /\ grown \in Draft(j, N, FALSE)
    BY <2>1, <2>2, GrowToDraft
  <2> HIDE DEF grown
  <2>4. os \in 0 .. j - 1 /\ 0 \in 0 .. j - 1 /\ os + 1 <= j /\ "One" \in Weights
    BY <1>a, <2>3 DEF Weights
  <2>5. marked \in Draft(j, N, FALSE)
    <3>1. SetFinal(grown, os, "One") \in Draft(j, N, FALSE)
      BY <2>3, <2>4, SetFinalDraft
    <3> QED
      BY <2>3, <3>1
  <2> HIDE DEF marked
  <2>6. linked \in Draft(j, N, FALSE)
    <3>1. Epsilon(f.states[s].final, os) \in ArcType(N)
      BY <1>a, EpsilonType
    <3> DEFINE b == Epsilon(f.states[s].final, os)
    <3>2. linked = IF IsFinal(f, s) /\ ~ plan.reused THEN AddArc(marked, 0, b) ELSE marked
      OBVIOUS
    <3> HIDE DEF b
    <3>3. AddArc(marked, 0, b) \in Draft(j, N, FALSE)
      BY <2>4, <2>5, <3>1, AddArcDraft DEF b
    <3> HIDE DEF linked
    <3> QED
      BY <2>5, <3>2, <3>3
  <2> HIDE DEF linked, L
  <2>7. linked \in Growing(os + 1, N)
    BY <2>3, <2>4, <2>6, MakeGrowing
  <2> QED
    BY <1>a, <2>7
<1>2. ASSUME NEW i \in 1 .. L, NEW x \in S[i - 1] PROVE Op(x, i) \in S[i]
  <2>1. arcs[i] \in ArcType(NumStates(f))
    BY <1>a
  <2> HIDE DEF L, arcs, os
  <2>2. x \in Growing(os + 1, N) /\ i \in 0 .. L /\ os + 1 \in Nat
    BY <1>a
  <2>3. Op(x, i) \in Growing(os + 1, N)
    <3> HIDE DEF S
    <3> QED
      BY <1>a, <2>1, <2>2, ReverseArcDraft
  <2> HIDE DEF Op
  <2> QED
    BY <2>2, <2>3
<1>3. ReverseState(acc, f, s, plan) = after[L]
  BY DEF ReverseState
<1> HIDE DEF L, Op, S, arcs, linked
<1>4. Fits(S, L, step)
  BY <1>2 DEF Fits
<1>5. PICK k : Runs(k, S, linked, L, step)
  <2> HIDE DEF step
  <2> QED
    BY <1>1, <1>4, LoopRuns
<1>6. k = F(k)
  <2>1. PICK T : k \in [0 .. L -> T]
    BY <1>5 DEF Runs
  <2>2. \A i \in 1 .. L : i - 1 \in 0 .. L
    BY <1>1
  <2>3. k[0] = linked /\ \A i \in 1 .. L : k[i] = step[i][k[i - 1]] /\ k[i - 1] \in S[i - 1]
    <3> HIDE DEF step
    <3> QED
      BY <2>2, <1>5 DEF Runs
  <2>4. \A i \in 1 .. L : k[i] = Op(k[i - 1], i)
    BY <2>3
  <2> HIDE DEF step
  <2>5. \A i \in 0 .. L : i = 0 \/ i \in 1 .. L
    BY <1>1
  <2>6. \A i \in 0 .. L : k[i] = F(k)[i]
    BY <2>3, <2>4, <2>5
  <2> QED
    BY <2>1, <2>6
<1>7. after = F(after)
  <2> HIDE DEF F
  <2> QED
    BY <1>6
<1> HIDE DEF after
<1>8. after[0] = linked /\ \A i \in 1 .. L : after[i] = Op(after[i - 1], i)
  <2>1. 0 \in 0 .. L /\ \A i \in 1 .. L : i \in 0 .. L /\ i # 0
    BY <1>1
  <2> QED
    BY <1>7, <2>1
<1>9. \A i \in 1 .. L : after[i - 1] \in S[i - 1] => after[i] \in S[i]
  BY <1>2, <1>8
<1>10. after[L] \in S[L]
  BY <1>1, <1>8, <1>9, LoopStays
<1>11. S[L] = Growing(os + 1, N)
  BY <1>1 DEF S
<1> QED
  BY <1>3, <1>10, <1>11

\* The loop over the states: at its end all N states exist.
LEMMA ReverseStatesDraft ==
  ASSUME NEW f, IsVectorFst(f), NEW N \in Nat, NEW plan, IsPlan(plan, NumStates(f), N)
  PROVE  ReverseStates(f, plan) \in Draft(N, N, FALSE)
<1> DEFINE base == GrowTo(EmptyFst, plan.offset - 1)
           L == NumStates(f)
           Op(x, i) == ReverseState(x, f, i - 1, plan)
           S == [i \in 0 .. L |-> Growing(i + plan.offset, N)]
           step == [i \in 1 .. L |-> [x \in S[i - 1] |-> Op(x, i)]]
           F(h) == [i \in 0 .. L |-> IF i = 0 THEN base ELSE Op(h[i - 1], i)]
           after == CHOOSE h : h = F(h)
<1>a. /\ L \in Nat /\ States(f) = 0 .. L - 1 /\ plan.offset \in Nat /\ L + plan.offset = N
  BY MachineFacts DEF IsPlan
<1>1. L \in Nat /\ base \in S[0]
  <2>1. EmptyFst \in Draft(0, N, FALSE)
    <3>1. 0 .. 0 - 1 = {} /\ <<>> \in [{} -> StateType(N)]
      OBVIOUS
    <3>2. kNullProperties \cup kStaticProperties \in SUBSET kFstProperties
      BY TrinaryBits DEF kNullProperties, kStaticProperties
    <3>3. [start |-> kNoStateId, states |-> <<>>, props |-> kNullProperties \cup kStaticProperties]
            \in Draft(0, N, FALSE)
      BY <3>1, <3>2, MakeDraft
    <3> QED
      BY <3>3 DEF EmptyFst
  <2>2. plan.offset - 1 \in Int /\ -1 <= plan.offset - 1 /\ plan.offset - 1 < N /\ 0 <= N
    BY <1>a
  <2>3. PICK m \in Nat : m >= 0 /\ m > plan.offset - 1 /\ m <= N /\ base \in Draft(m, N, FALSE)
    BY <2>1, <2>2, GrowToDraft
  <2> HIDE DEF base, L
  <2>4. plan.offset <= m /\ 0 + plan.offset = plan.offset
    BY <1>a, <2>3
  <2>5. base \in Growing(plan.offset, N)
    BY <2>3, <2>4, MakeGrowing
  <2> QED
    BY <1>a, <2>4, <2>5
<1>2. ASSUME NEW i \in 1 .. L, NEW x \in S[i - 1] PROVE Op(x, i) \in S[i]
  <2>1. i - 1 \in States(f) /\ i - 1 \in 0 .. L /\ i \in 0 .. L /\ (i - 1) + plan.offset + 1 = i + plan.offset
    <3> HIDE DEF L
    <3> QED
      BY <1>a
  <2>2. x \in Growing((i - 1) + plan.offset, N)
    BY <2>1
  <2>3. Op(x, i) \in Growing((i - 1) + plan.offset + 1, N)
    <3> HIDE DEF S
    <3> QED
      BY <2>1, <2>2, ReverseStateDraft
  <2> HIDE DEF Op, L
  <2> QED
    BY <2>1, <2>3
<1>3. ReverseStates(f, plan) = after[L]
  BY DEF ReverseStates
<1> HIDE DEF L, Op, S, base
<1>4. Fits(S, L, step)
  BY <1>2 DEF Fits
<1>5. PICK k : Runs(k, S, base, L, step)
  <2> HIDE DEF step
  <2> QED
    BY <1>1, <1>4, LoopRuns
<1>6. k = F(k)
  <2>1. PICK T : k \in [0 .. L -> T]
    BY <1>5 DEF Runs
  <2>2. \A i \in 1 .. L : i - 1 \in 0 .. L
    BY <1>1
  <2>3. k[0] = base /\ \A i \in 1 .. L : k[i] = step[i][k[i - 1]] /\ k[i - 1] \in S[i - 1]
    <3> HIDE DEF step
    <3> QED
      BY <2>2, <1>5 DEF Runs
  <2>4. \A i \in 1 .. L : k[i] = Op(k[i - 1], i)
    BY <2>3
  <2> HIDE DEF step
  <2>5. \A i \in 0 .. L : i = 0 \/ i \in 1 .. L
    BY <1>1
  <2>6. \A i \in 0 .. L : k[i] = F(k)[i]
    BY <2>3, <2>4, <2>5
  <2> QED
    BY <2>1, <2>6
<1>7. after = F(after)
  <2> HIDE DEF F
  <2> QED
    BY <1>6
<1> HIDE DEF after
<1>8. after[0] = base /\ \A i \in 1 .. L : after[i] = Op(after[i - 1], i)
  <2>1. 0 \in 0 .. L /\ \A i \in 1 .. L : i \in 0 .. L /\ i # 0
    BY <1>1
  <2> QED
    BY <1>7, <2>1
<1>9. \A i \in 1 .. L : after[i - 1] \in S[i - 1] => after[i] \in S[i]
  BY <1>2, <1>8
<1>10. after[L] \in S[L]
  BY <1>1, <1>8, <1>9, LoopStays
<1>11. S[L] = Growing(N, N)
  BY <1>1, <1>a DEF S
<1>12. \A j \in Nat : N <= j /\ j <= N => j = N
  OBVIOUS
<1> QED
  BY <1>3, <1>10, <1>11, <1>12 DEF Growing

\* Reverse, with and without a new start state.
LEMMA ReverseMachine ==
  ASSUME NEW f, IsVectorFst(f), NEW super, NEW prod \in Weights
  PROVE  Machine(ReverseFst(f, super, prod), Failed(f))
<1> DEFINE n == NumStates(f)
           single == ~ super /\ SingleFinal(f)
           last == CHOOSE s \in Finals(f) : TRUE
           visited == single /\ f.states[last].final # "One"
           reused == single /\ (visited => ~ OnCycle(f, last))
           plan == Plan(f, reused, last, prod)
           N == n + plan.offset
           turned == ReverseStates(f, plan)
           started == SetStart(turned, plan.ostart)
           result == IF reused /\ last = f.start
                     THEN SetFinal(started, last, f.states[last].final) ELSE started
           iprops == (f.props \cap kCopyProperties) \cup (IF visited THEN CycleFacts(f) ELSE {})
           oprops == result.props \cup (IF visited /\ reused THEN {"InitialAcyclic"} ELSE {})
           P == ReverseProperties(iprops, ~ reused) \cup oprops
<1>1. n \in Nat /\ States(f) = 0 .. n - 1
  BY MachineFacts
<1>2. ReverseFst(f, super, prod) = SetProperties(result, P, kFstProperties)
  BY DEF ReverseFst
<1>3. Failed(f) => "Error" \in P \cap kFstProperties
  BY TrinaryBits DEF Failed, ReverseProperties, kCopyProperties
<1>4. reused => last \in 0 .. n - 1 /\ f.states[last].final \in Weights
  <2> SUFFICES ASSUME reused PROVE last \in 0 .. n - 1 /\ f.states[last].final \in Weights
    OBVIOUS
  <2>1. Cardinality(Finals(f)) = 1
    BY DEF SingleFinal
  <2>2. Finals(f) # {}
    BY <2>1, FS_EmptySet
  <2>3. last \in Finals(f)
    BY <2>2
  <2>4. last \in States(f)
    BY <2>3 DEF Finals
  <2> HIDE DEF last
  <2> QED
    BY <1>1, <2>4, StateFacts
<1> HIDE DEF single, last, visited, reused, P
<1>5. /\ plan.offset = IF reused THEN 0 ELSE 1
      /\ plan.ostart = IF reused THEN last ELSE 0
      /\ plan.moved = IF reused THEN f.states[last].final ELSE "One"
      /\ plan.prod = prod /\ plan.reused = reused
  BY DEF Plan
<1> HIDE DEF plan, n
<1>6. N \in Nat /\ IsPlan(plan, n, N) /\ (reused => N = n)
  BY <1>1, <1>4, <1>5 DEF IsPlan, Weights
<1> HIDE DEF N
<1>7. turned \in Draft(N, N, FALSE)
  BY <1>6, ReverseStatesDraft DEF n
<1> HIDE DEF turned
<1>8. started \in Draft(N, N, FALSE)
  BY <1>6, <1>7, SetStartDraft DEF IsPlan
<1> HIDE DEF started
<1>9. result \in Draft(N, N, FALSE)
  <2>1. reused => SetFinal(started, last, f.states[last].final) \in Draft(N, N, FALSE)
    BY <1>4, <1>6, <1>8, SetFinalDraft
  <2> QED
    BY <1>8, <2>1
<1> HIDE DEF result
<1>10. Failed(f) => FALSE \/ "Error" \in P \cap kFstProperties
  BY <1>3
<1>11. Machine(SetProperties(result, P, kFstProperties), Failed(f))
  BY <1>6, <1>9, <1>10, ResultMachine
<1> QED
  BY <1>2, <1>11

-----------------------------------------------------------------------------
(* The mutators on finished machines.                                      *)

\* Each mutator turns a machine into a machine and keeps its error bit.
LEMMA MutatorsKeep ==
  ASSUME NEW f, IsVectorFst(f), NEW s \in States(f)
  PROVE  /\ Machine(SetStart(f, s), Failed(f))
         /\ \A w \in Weights : Machine(SetFinal(f, s, w), Failed(f))
         /\ \A k \in Nat : Machine(DeleteArcs(f, s, k), Failed(f))
         /\ \A a \in ArcType(NumStates(f)) : Machine(AddArc(f, s, a), Failed(f))
         /\ \A a \in ArcType(NumStates(f)), i \in DOMAIN f.states[s].arcs :
              Machine(SetValue(f, s, i, a), Failed(f))
<1> DEFINE n == NumStates(f)
           e == Failed(f)
<1>1. n \in Nat /\ s \in 0 .. n - 1 /\ f \in Draft(n, n, e)
  BY MachineDraft
<1> HIDE DEF n, e
<1>2. Machine(SetStart(f, s), e)
  <2>1. SetStart(f, s) \in Draft(n, n, e)
    BY <1>1, SetStartDraft
  <2> QED
    BY <1>1, <2>1, DraftMachine
<1>3. ASSUME NEW w \in Weights PROVE Machine(SetFinal(f, s, w), e)
  <2>1. SetFinal(f, s, w) \in Draft(n, n, e)
    BY <1>1, SetFinalDraft
  <2> QED
    BY <1>1, <2>1, DraftMachine
<1>4. ASSUME NEW k \in Nat PROVE Machine(DeleteArcs(f, s, k), e)
  <2>1. DeleteArcs(f, s, k) \in Draft(n, n, e)
    BY <1>1, DeleteArcsDraft
  <2> QED
    BY <1>1, <2>1, DraftMachine
<1>5. ASSUME NEW a \in ArcType(n) PROVE Machine(AddArc(f, s, a), e)
  <2>1. AddArc(f, s, a) \in Draft(n, n, e)
    BY <1>1, AddArcDraft
  <2> QED
    BY <1>1, <2>1, DraftMachine
<1>6. ASSUME NEW a \in ArcType(n), NEW i \in DOMAIN f.states[s].arcs
      PROVE  Machine(SetValue(f, s, i, a), e)
  <2>1. SetValue(f, s, i, a) \in WithArcs(n, n, e, s, Len(f.states[s].arcs))
    BY <1>1, SetValueDraft
  <2>2. SetValue(f, s, i, a) \in Draft(n, n, e)
    BY <2>1 DEF WithArcs
  <2> QED
    BY <1>1, <2>2, DraftMachine
<1> QED
  BY <1>2, <1>3, <1>4, <1>5, <1>6 DEF n, e

\* So does AddStates.
LEMMA AddStatesKeeps ==
  ASSUME NEW f, IsVectorFst(f), NEW k \in Nat
  PROVE  Machine(AddStates(f, k), Failed(f))
<1> DEFINE n == NumStates(f)
           m == n + k
           e == Failed(f)
<1>1. n \in Nat /\ m \in Nat /\ n <= m
  BY MachineFacts
<1>2. f \in Draft(n, m, e)
  BY <1>1, DraftBegun
<1>3. AddStates(f, k) \in Draft(n + k, m, e)
  <2> HIDE DEF n, m, e
  <2> QED
    BY <1>1, <1>2, AddStatesDraft
<1>4. AddStates(f, k) \in Draft(m, m, e)
  BY <1>3
<1> HIDE DEF n, m
<1>5. Machine(AddStates(f, k), e)
  BY <1>1, <1>4, DraftMachine
<1> QED
  BY <1>5

-----------------------------------------------------------------------------
(* The theorems.                                                           *)

\* Every step of a client leads from a machine to a machine, and from one with
\* the error bit to one with the error bit.
LEMMA OpsStep ==
  ASSUME VectorTypeOK, OpsNext
  PROVE  Machine(fst', Failed(fst))
<1>1. IsVectorFst(fst)
  BY DEF VectorTypeOK
<1>2. CASE DoAddStates
  <2>1. NumStates(fst) \in Nat
    BY <1>1, MachineFacts
  <2>2. PICK n \in 0 .. MaxStates - NumStates(fst) : fst' = AddStates(fst, n)
    BY <1>2 DEF DoAddStates
  <2>3. n \in Nat
    BY <2>1, BoundsAssumption
  <2> QED
    BY <1>1, <2>2, <2>3, AddStatesKeeps
<1>3. CASE DoSetStart
  BY <1>1, <1>3, MutatorsKeep DEF DoSetStart
<1>4. CASE BuildFinal
  BY <1>1, <1>4, MutatorsKeep, OpKindsAssumption DEF BuildFinal
<1>5. CASE BuildArc
  <2>1. PICK s \in States(fst), t \in States(fst), k \in OpArcKinds :
          fst' = AddArc(fst, s, Arc(k[1], k[2], k[3], t))
    BY <1>5 DEF BuildArc
  <2>2. k[1] \in Nat /\ k[2] \in Nat /\ k[3] \in Weights
    BY OpKindsAssumption
  <2>3. t \in 0 .. NumStates(fst) - 1
    BY DEF States
  <2> DEFINE b == Arc(k[1], k[2], k[3], t)
  <2>4. b \in ArcType(NumStates(fst))
    BY <2>2, <2>3 DEF Arc, ArcType
  <2> HIDE DEF b
  <2>5. Machine(AddArc(fst, s, b), Failed(fst))
    BY <1>1, <2>4, MutatorsKeep
  <2> QED
    BY <2>1, <2>5 DEF b
<1>6. CASE DoTest
  <2>1. PICK mask \in Masks : \E result \in TestResults(fst, mask) :
          fst' = TestProperties(fst, result)
    BY <1>6 DEF DoTest, DoTestProperties
  <2>2. Conventional(fst) /\ mask \in SUBSET kFstProperties
    BY <1>6, MasksAssumption DEF DoTest, DoTestProperties
  <2> QED
    BY <1>1, <2>1, <2>2, TestKeeps
<1>7. CASE DoDeleteAllStates
  BY <1>1, <1>7, DeleteAllStatesKeeps DEF DoDeleteAllStates
<1>8. CASE DoUnion
  <2>1. PICK g \in Operands : fst' = Union(fst, g)
    BY <1>8 DEF DoUnion
  <2>2. Machine(Union(fst, g), Failed(fst) \/ Failed(g))
    BY <1>1, UnionMachine, OperandsAssumption
  <2> QED
    BY <2>1, <2>2 DEF Machine
<1>9. CASE DoConcatAppend
  <2>1. PICK g \in Operands : fst' = ConcatAppend(fst, g)
    BY <1>9 DEF DoConcatAppend
  <2>2. Machine(ConcatAppend(fst, g), Failed(fst) \/ Failed(g))
    BY <1>1, ConcatAppendMachine, OperandsAssumption
  <2> QED
    BY <2>1, <2>2 DEF Machine
<1>10. CASE DoConcatPrepend
  <2>1. PICK g \in Operands : fst' = ConcatPrepend(g, fst)
    BY <1>10 DEF DoConcatPrepend
  <2>2. Machine(ConcatPrepend(g, fst), Failed(fst) \/ Failed(g))
    BY <1>1, ConcatPrependMachine, OperandsAssumption
  <2> QED
    BY <2>1, <2>2 DEF Machine
<1>11. CASE DoClosure
  BY <1>1, <1>11, ClosureMachine DEF DoClosure
<1>12. CASE DoArcMap
  BY <1>1, <1>12, ArcMapMachine DEF DoArcMap
<1>13. CASE DoArcSort
  BY <1>1, <1>13, ArcSortMachine DEF DoArcSort
<1>14. CASE DoStateSort
  BY <1>1, <1>14, StateSortMachine DEF DoStateSort, Orders
<1>15. CASE DoTopSort
  BY <1>1, <1>15, TopSortMachine DEF DoTopSort
<1>16. CASE DoConnect
  BY <1>1, <1>16, ConnectMachine DEF DoConnect
<1>17. CASE DoReverse
  <2>1. PICK super \in BOOLEAN, prod \in {"One", "Other"} : fst' = ReverseFst(fst, super, prod)
    BY <1>17 DEF DoReverse
  <2>2. prod \in Weights
    BY DEF Weights
  <2> QED
    BY <1>1, <2>1, <2>2, ReverseMachine
<1>18. CASE DoReject
  BY <1>1, <1>18, SetErrorMachine DEF DoReject, Machine
<1> QED
  BY <1>2, <1>3, <1>4, <1>5, <1>6, <1>7, <1>8, <1>9, <1>10, <1>11, <1>12, <1>13, <1>14,
     <1>15, <1>16, <1>17, <1>18 DEF OpsNext, Build

\* The type invariant is inductive.
LEMMA OpsInductive == VectorTypeOK /\ [OpsNext]_fst => VectorTypeOK'
<1> SUFFICES ASSUME VectorTypeOK, [OpsNext]_fst PROVE VectorTypeOK'
  OBVIOUS
<1>1. CASE OpsNext
  <2>1. Machine(fst', Failed(fst))
    BY <1>1, OpsStep
  <2> QED
    BY <2>1 DEF Machine, VectorTypeOK
<1>2. CASE UNCHANGED fst
  BY <1>2 DEF VectorTypeOK, IsVectorFst, States, NumStates
<1> QED
  BY <1>1, <1>2

\* The type invariant holds of every machine a client reaches with the
\* operations: start states and arcs lead to states that exist, and the
\* epsilon counters are right.
THEOREM OpsTypes == OpsSpec => []VectorTypeOK
<1>1. Init => VectorTypeOK
  BY VectorInit DEF VectorInv
<1> QED
  BY <1>1, OpsInductive, PTL DEF OpsSpec

\* No step of a client clears the error bit.
THEOREM ErrorsStay == OpsSpec => [][Failed(fst) => Failed(fst')]_fst
<1>1. VectorTypeOK /\ [OpsNext]_fst => [Failed(fst) => Failed(fst')]_fst
  BY OpsStep DEF Machine
<1> QED
  BY <1>1, OpsTypes, PTL DEF OpsSpec

\* In every well-formed machine an error reaches the results.
LEMMA ErrorsFollow ==
  ASSUME VectorTypeOK
  PROVE  ErrorPropagates
<1> DEFINE bad == SetError(fst)
<1>1. IsVectorFst(fst)
  BY DEF VectorTypeOK
<1>2. IsVectorFst(bad) /\ Failed(bad) /\ bad.states = fst.states
  <2>1. Machine(bad, TRUE)
    BY <1>1, SetErrorMachine
  <2>2. bad = [fst EXCEPT !.props = StoreMasked(fst.props, {"Error"}, {"Error"})]
    BY DEF SetError, SetProperties
  <2>3. fst = [start |-> fst.start, states |-> fst.states, props |-> fst.props]
    BY <1>1, MachineFacts
  <2> HIDE DEF bad
  <2> QED
    BY <2>1, <2>2, <2>3 DEF Machine
<1>3. NumStates(bad) = NumStates(fst) /\ States(bad) = States(fst)
  <2> HIDE DEF bad
  <2> QED
    BY <1>2 DEF NumStates, States
<1> HIDE DEF bad
<1>4. ASSUME NEW g \in Operands
      PROVE  /\ Failed(Union(bad, g)) /\ Failed(Union(fst, SetError(g)))
             /\ Failed(ConcatAppend(bad, g)) /\ Failed(ConcatAppend(fst, SetError(g)))
             /\ Failed(ConcatPrepend(g, bad)) /\ Failed(ConcatPrepend(SetError(g), fst))
  <2>1. IsVectorFst(g) /\ Machine(SetError(g), TRUE)
    BY OperandsAssumption, SetErrorMachine
  <2> DEFINE h == SetError(g)
  <2>2. IsVectorFst(h) /\ Failed(h)
    BY <2>1 DEF Machine
  <2> HIDE DEF h
  <2>3. Failed(Union(bad, g)) /\ Failed(Union(fst, h))
    BY <1>1, <1>2, <2>1, <2>2, UnionMachine DEF Machine
  <2>4. Failed(ConcatAppend(bad, g)) /\ Failed(ConcatAppend(fst, h))
    BY <1>1, <1>2, <2>1, <2>2, ConcatAppendMachine DEF Machine
  <2>5. Failed(ConcatPrepend(g, bad)) /\ Failed(ConcatPrepend(h, fst))
    BY <1>1, <1>2, <2>1, <2>2, ConcatPrependMachine DEF Machine
  <2> QED
    BY <2>3, <2>4, <2>5 DEF h
<1>5. \A mapper \in Mappers : Failed(ArcMap(mapper, bad))
  BY <1>2, ArcMapMachine DEF Machine
<1>6. \A super \in BOOLEAN : Failed(ReverseFst(bad, super, "Other"))
  <2>1. "Other" \in Weights
    BY DEF Weights
  <2> QED
    BY <1>2, <2>1, ReverseMachine DEF Machine
<1>7. Failed(Closure(bad, TRUE)) /\ Failed(Connect(bad)) /\ Failed(DeleteAllStates(bad))
  <2>1. Failed(Closure(bad, TRUE))
    BY <1>2, ClosureMachine DEF Machine
  <2>2. Failed(Connect(bad))
    BY <1>2, ConnectMachine DEF Machine
  <2>3. Failed(DeleteAllStates(bad))
    BY <1>2, DeleteAllStatesKeeps DEF Machine
  <2> QED
    BY <2>1, <2>2, <2>3
<1>8. ASSUME NEW s \in States(fst)
      PROVE  LET a == Epsilon("One", s)
             IN  /\ Failed(AddArc(bad, s, a)) /\ Failed(DeleteArcs(bad, s, 1))
                 /\ Failed(SetFinal(bad, s, "Other")) /\ Failed(DeleteStates(bad, {s}))
                 /\ \A i \in DOMAIN fst.states[s].arcs : Failed(SetValue(bad, s, i, a))
  <2> DEFINE b == Epsilon("One", s)
  <2>1. s \in States(bad) /\ "One" \in Weights /\ "Other" \in Weights /\ 1 \in Nat
    BY <1>3 DEF Weights
  <2>2. b \in ArcType(NumStates(bad))
    <3>1. NumStates(bad) \in Nat /\ s \in 0 .. NumStates(bad) - 1
      BY <1>2, <2>1, MachineFacts
    <3> QED
      BY <2>1, <3>1, EpsilonType
  <2> HIDE DEF b
  <2>3. Failed(AddArc(bad, s, b)) /\ Failed(DeleteArcs(bad, s, 1)) /\ Failed(SetFinal(bad, s, "Other"))
    BY <1>2, <2>1, <2>2, MutatorsKeep DEF Machine
  <2>4. Failed(DeleteStates(bad, {s}))
    <3>1. {s} \in SUBSET States(bad)
      BY <2>1
    <3> QED
      BY <1>2, <3>1, DeleteStatesKeeps DEF Machine
  <2>5. \A i \in DOMAIN fst.states[s].arcs : Failed(SetValue(bad, s, i, b))
    BY <1>2, <2>1, <2>2, MutatorsKeep DEF Machine
  <2> QED
    BY <2>3, <2>4, <2>5 DEF b
<1> QED
  BY <1>4, <1>5, <1>6, <1>7, <1>8, Zenon DEF ErrorPropagates, bad

\* An error of either argument reaches the result of every operation, on every
\* path through it, whatever the machines are (union.h, concat.h, closure.h,
\* arc-map.h, connect.h, reverse.h and the mutators of vector-fst.h).
THEOREM ErrorsPropagate == OpsSpec => []ErrorPropagates
<1>1. VectorTypeOK => ErrorPropagates
  BY ErrorsFollow
<1> QED
  BY <1>1, OpsTypes, PTL
=============================================================================
