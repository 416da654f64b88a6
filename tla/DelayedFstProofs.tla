--------------------------- MODULE DelayedFstProofs ---------------------------
(***************************************************************************)
(* Proofs about DelayedFst, for every FST, every number of iterators and   *)
(* every option of the cache: the delayed FST implements the plain one.    *)
(*                                                                         *)
(* DelayedInv is the inductive invariant.  Besides the invariant of the    *)
(* store it relates the cached states to the FST they are part of          *)
(* (Content), the reference counts to the iterators (RefsAreIterators),    *)
(* and what is cached to how far the call in progress has come (OpState).  *)
(***************************************************************************)
EXTENDS DelayedFst, CacheStoreProofs

Names == {"Final", "NumArcs", "InitArcIterator", "ArcIterator"}
Functions == {"SetFinal", "Pin", "PushArc", "SetArcs", "MarkArcs", "Return"}

OpType == [name : Names, s : Ids, it : AllIters \cup {Null}, f : Functions,
           stage : {"get", "act"}, i : Nat]

ImplTypeOK ==
  /\ nknown_states \in 0 .. NumIds
  /\ min_unexpanded \in Nat
  /\ max_expanded \in Int
  /\ op \in OpType \cup {NoOp}
  /\ iters \in [AllIters -> [s : Ids \cup {NoStateId}, slot : Slots \cup {Null}]]
  /\ siter \in [on : BOOLEAN, s : Nat, u : Ids \cup {NoStateId}]

\* The call in progress is in Expand(s).
Expanding(s) == op # NoOp /\ op.s = s /\ op.f \in {"PushArc", "SetArcs", "MarkArcs"}

\* The arcs, and the number of epsilons, that Expand has given to state s so far.
Pushed(s) ==
  IF ~Expanding(s) THEN <<>>
  ELSE IF op.f = "PushArc" THEN SubSeq(RefArcs[s], 1, op.i - 1) ELSE RefArcs[s]

EpsSet(s) == IF Expanding(s) /\ op.f = "MarkArcs" THEN NumEps(RefArcs[s]) ELSE 0

\* A cached state holds what the operation defines, as far as its flags say so.
StateOK(st, s) ==
  /\ "Final" \in st.flags => st.final = RefFinal[s]
  /\ "Arcs" \in st.flags => st.arcs = RefArcs[s] /\ st.neps = NumEps(RefArcs[s])
  /\ "Arcs" \notin st.flags => st.arcs = Pushed(s) /\ st.neps = EpsSet(s)

Content ==
  \A slot \in Slots : state_vec[slot] # Null => StateOK(state_vec[slot], Value(slot))

\* An open iterator is on a cached state, where that state is looked up.
ItersStored ==
  \A it \in AllIters :
    IF iters[it].slot = Null THEN iters[it] = NoIter
    ELSE /\ iters[it].s \in Ids
         /\ iters[it].slot = SlotOf(iters[it].s)
         /\ state_vec[iters[it].slot] # Null

\* Which functions belong to which call, and the iterator it is for.
OpShape ==
  op # NoOp =>
    /\ op.name = "Final" => op.f \in {"SetFinal", "Return"}
    /\ op.name \in {"NumArcs", "InitArcIterator"} =>
         op.f \in {"PushArc", "SetArcs", "MarkArcs", "Return"}
    /\ op.name = "ArcIterator" => op.f \in {"Pin", "PushArc", "SetArcs", "MarkArcs"}
    /\ op.f \in {"MarkArcs", "Return"} => op.stage = "act"
    /\ op.f = "PushArc" => op.i \in 1 .. Len(RefArcs[op.s])
    /\ op.name \in {"Final", "NumArcs"} => op.it = Null
    /\ op.name = "InitArcIterator" => op.it \in Iters
    /\ op.name = "ArcIterator" => op.it \in AllIters
    /\ answer = NoAnswer

OpIter ==
  op # NoOp =>
    /\ op.name = "InitArcIterator" \/ op.f = "Pin" => iters[op.it] = NoIter
    /\ op.name = "ArcIterator" /\ op.f # "Pin" =>
         iters[op.it].slot # Null /\ iters[op.it].s = op.s

\* The state of the call is where the lookup left it, and not expanded yet; what
\* was pushed to it is not lost before SetArcs has counted it.
OpState ==
  op # NoOp =>
    /\ op.stage = "act" => ptr # Null /\ ptr = SlotOf(op.s)
    /\ Expanding(op.s) /\ Stored(op.s) => "Arcs" \notin state_vec[SlotOf(op.s)].flags
    /\ Pushed(op.s) # <<>> => Stored(op.s)
    /\ op.f = "Return" =>
         (IF op.name = "Final" THEN "Final" ELSE "Arcs") \in state_vec[ptr].flags

\* Collections run between the steps of a call, and never before it returns.
OpCollects == gc.on => op # NoOp /\ op.stage = "act" /\ op.f # "Return"

\* The arc iterator of Done() is open from its Pin to the end of the scan.
StateIterOK ==
  IF siter.u = NoStateId
  THEN iters[StateIter] = NoIter /\ (op # NoOp => op.it # StateIter)
  ELSE IF op = NoOp THEN iters[StateIter].slot # Null
       ELSE op.name = "ArcIterator" /\ op.it = StateIter

\* A client's iterator is on an expanded state.
ReadyExpanded ==
  \A it \in Iters : Ready(it) => "Arcs" \in state_vec[iters[it].slot].flags

DelayedInv ==
  /\ StoreInv
  /\ ImplTypeOK
  /\ Content
  /\ ItersStored
  /\ RefsAreIterators
  /\ OpShape
  /\ OpIter
  /\ OpState
  /\ OpCollects
  /\ StateIterOK
  /\ ReadyExpanded

-------------------------------------------------------------------------------
LEMMA IdsInSlots ==
  /\ 0 \in Slots /\ NoStateId \notin Ids /\ Null \notin Slots
  /\ \A s \in Ids : s + 1 \in Slots /\ s + 1 # 0 /\ s \in Nat
  /\ \A t \in Slots : t # 0 => t - 1 \in Ids /\ (t - 1) + 1 = t
  /\ IsFiniteSet(AllIters) /\ Null \notin AllIters
<1>1. IsFiniteSet(AllIters)
  BY DelayedConstants, FS_AddElement DEF AllIters
<1> QED BY <1>1, CacheConstants, NullNotASlot, DelayedConstants
        DEF Slots, Ids, NoStateId, AllIters

\* A call in progress is a record with these fields.
LEMMA OpFields ==
  ASSUME NEW o \in OpType
  PROVE  /\ o # NoOp
         /\ o.name \in Names /\ o.s \in Ids /\ o.it \in AllIters \cup {Null}
         /\ o.f \in Functions /\ o.stage \in {"get", "act"} /\ o.i \in Nat
BY DEF OpType, NoOp, Names

LEMMA CallFields ==
  ASSUME NEW name \in Names, NEW s \in Ids, NEW it \in AllIters \cup {Null},
         NEW f \in Functions
  PROVE  LET c == Call(name, s, it, f)
         IN  /\ c \in OpType
             /\ c.name = name /\ c.s = s /\ c.it = it /\ c.f = f
             /\ c.stage = "get" /\ c.i = 1
BY DEF Call, OpType

\* The cached states as they move on: SameState is a state that kept what the FST
\* reads of it, Blank one that was just created.
SameState(a, b) ==
  /\ b.arcs = a.arcs /\ b.neps = a.neps /\ b.final = a.final /\ b.ref = a.ref
  /\ "Final" \in b.flags <=> "Final" \in a.flags
  /\ "Arcs" \in b.flags <=> "Arcs" \in a.flags

Blank(b) ==
  /\ b.arcs = <<>> /\ b.neps = 0 /\ b.ref = 0
  /\ "Final" \notin b.flags /\ "Arcs" \notin b.flags

\* Slot t holds the same state before and after; it holds a new one after.
KeptIn(t) ==
  /\ state_vec[t] # Null /\ state_vec'[t] # Null
  /\ SameState(state_vec[t], state_vec'[t])
  /\ Value(t)' = Value(t)

NewIn(t) == Blank(state_vec'[t]) /\ (state_vec[t] = Null \/ state_vec[t].ref = 0)

\* A step that creates a state in this slot only, and frees none in use.
Evolves(slot) ==
  /\ \A t \in Slots : state_vec'[t] # Null => KeptIn(t) \/ (t = slot /\ NewIn(t))
  /\ \A t \in Slots : state_vec[t] # Null /\ state_vec[t].ref # 0 => KeptIn(t)

\* What FirstCacheStore::GetMutableState does to a slot.
FirstKept(f, t) ==
  /\ state_vec[t] # Null /\ f.vec[t] # Null
  /\ SameState(state_vec[t], f.vec[t])
  /\ t = 0 => f.first_id = first_id

FirstNew(f, t) == Blank(f.vec[t]) /\ (state_vec[t] = Null \/ state_vec[t].ref = 0)

LEMMA FirstGetEvolves ==
  ASSUME StoreInv, NEW s \in Ids
  PROVE  LET f == FirstGet(s)
         IN  /\ \A t \in Slots : f.vec[t] # Null =>
                  FirstKept(f, t) \/ (t = f.slot /\ FirstNew(f, t))
             /\ \A t \in Slots : state_vec[t] # Null /\ state_vec[t].ref # 0 =>
                  FirstKept(f, t)
             /\ f.slot = IF s = f.first_id THEN 0 ELSE s + 1
             /\ Stored(s) => f.slot = SlotOf(s) /\ FirstKept(f, f.slot)
<1> DEFINE f == FirstGet(s)
<1> USE IdsInSlots
<1>1. /\ state_vec \in [Slots -> CacheState \cup {Null}]
      /\ first_gc \in BOOLEAN /\ first_id \in Ids \cup {NoStateId}
  BY DEF StoreInv, StoreTypeOK
<1>2. Blank(FreshState)
  BY DEF Blank, FreshState
<1>3. \A st : SameState(st, st)
  BY DEF SameState
<1>4. CASE first_id = s \/ ~first_gc
  <2> DEFINE slot == IF first_id = s THEN 0 ELSE s + 1
  <2>1. /\ f.vec = [state_vec EXCEPT ![slot] = VectorGet(state_vec, slot)]
        /\ f.slot = slot /\ f.first_id = first_id
    BY <1>1, <1>4 DEF FirstGet
  <2>2. slot \in Slots /\ slot = SlotOf(s)
    BY <1>1 DEF SlotOf
  <2> HIDE DEF slot, f
  <2>3. \A t \in Slots : f.vec[t] = state_vec[t] \/
          (t = slot /\ state_vec[t] = Null /\ f.vec[t] = FreshState)
    BY <1>1, <2>1, <2>2 DEF VectorGet
  <2>4. \A t \in Slots : state_vec[t] # Null => FirstKept(f, t)
    BY <1>3, <2>1, <2>3 DEF FirstKept
  <2>5. \A t \in Slots : f.vec[t] # Null =>
          FirstKept(f, t) \/ (t = f.slot /\ FirstNew(f, t))
    BY <1>2, <1>3, <2>1, <2>3 DEF FirstKept, FirstNew
  <2>6. Stored(s) => FirstKept(f, f.slot)
    BY <2>1, <2>2, <2>4 DEF Stored
  <2>7. f.slot = IF s = f.first_id THEN 0 ELSE s + 1
    BY <2>1 DEF slot
  <2> QED BY <2>1, <2>2, <2>4, <2>5, <2>6, <2>7 DEF f
<1>5. CASE first_id # s /\ first_gc
  <2>1. \A t \in Slots \ {0} : state_vec[t] = Null
    BY <1>5 DEF StoreInv, FirstSlotExclusive
  <2>2. ~Stored(s)
    BY <1>5, <2>1 DEF Stored, SlotOf
  <2>3. CASE first_id = NoStateId \/ Reusable(VectorGet(state_vec, 0))
    <3>1. \E st : /\ f.vec = [state_vec EXCEPT ![0] = st] /\ Blank(st)
                  /\ state_vec[0] = Null \/ state_vec[0].ref = 0
      <4>1. CASE first_id = NoStateId
        <5>1. state_vec[0] = Null /\ VectorGet(state_vec, 0) = FreshState
          BY <4>1 DEF StoreInv, NoAlias, VectorGet
        <5> DEFINE st == [VectorGet(state_vec, 0) EXCEPT !.flags = @ \cup {"Init"}]
        <5>2. f.vec = [state_vec EXCEPT ![0] = st]
          BY <1>5, <4>1 DEF FirstGet
        <5>3. Blank(st)
          BY <5>1 DEF FreshState, Blank
        <5> QED BY <5>1, <5>2, <5>3
      <4>2. CASE first_id # NoStateId /\ Reusable(VectorGet(state_vec, 0))
        <5>1. f.vec = [state_vec EXCEPT ![0] = ReusedState]
          BY <1>5, <4>2 DEF FirstGet
        <5>2. Blank(ReusedState)
          BY DEF ReusedState, FreshState, Blank
        <5>3. state_vec[0] = Null \/ state_vec[0].ref = 0
          BY <4>2 DEF Reusable, VectorGet
        <5> QED BY <5>1, <5>2, <5>3
      <4> QED BY <2>3, <4>1, <4>2
    <3>2. f.slot = 0 /\ f.first_id = s
      BY <1>5, <2>3 DEF FirstGet
    <3> HIDE DEF f
    <3>3. Blank(f.vec[0]) /\ \A t \in Slots \ {0} : f.vec[t] = Null
      BY <1>1, <2>1, <3>1
    <3>4. \A t \in Slots : f.vec[t] # Null => t = f.slot /\ FirstNew(f, t)
      BY <3>1, <3>2, <3>3 DEF FirstNew
    <3>5. \A t \in Slots : ~(state_vec[t] # Null /\ state_vec[t].ref # 0)
      BY <2>1, <3>1
    <3> QED BY <2>2, <3>2, <3>4, <3>5 DEF f
  <2>4. CASE first_id # NoStateId /\ ~Reusable(VectorGet(state_vec, 0))
    <3> DEFINE w == [state_vec EXCEPT ![0].flags = @ \ {"Init"}]
    <3>1. /\ f.vec = [w EXCEPT ![s + 1] = VectorGet(w, s + 1)]
          /\ f.slot = s + 1 /\ f.first_id = first_id
      BY <1>5, <2>4 DEF FirstGet
    <3>2. /\ w \in [Slots -> CacheState \cup {Null}] /\ state_vec[0] # Null
          /\ w[0] # Null /\ SameState(state_vec[0], w[0])
          /\ \A t \in Slots \ {0} : w[t] = Null
      <4> DEFINE st == [state_vec[0] EXCEPT !.flags = @ \ {"Init"}]
      <4>1. state_vec[0] # Null /\ state_vec[0] \in CacheState
        BY <1>1, <2>4 DEF StoreInv, NoAlias
      <4>2. st \in CacheState /\ SameState(state_vec[0], st)
        BY <4>1 DEF CacheState, SameState
      <4>3. w = [state_vec EXCEPT ![0] = st]
        BY <1>1
      <4> HIDE DEF st, w
      <4> QED BY <1>1, <2>1, <4>1, <4>2, <4>3, NullAssumption
    <3> HIDE DEF w, f
    <3>3. f.vec[0] = w[0] /\ f.vec[s + 1] = FreshState
          /\ \A t \in Slots : t # 0 /\ t # s + 1 => f.vec[t] = Null
      BY <3>1, <3>2 DEF VectorGet
    <3>4. FirstKept(f, 0)
      BY <3>1, <3>2, <3>3 DEF FirstKept
    <3>5. FirstNew(f, s + 1)
      BY <1>2, <2>1, <3>3 DEF FirstNew
    <3>6. \A t \in Slots : f.vec[t] # Null =>
            FirstKept(f, t) \/ (t = f.slot /\ FirstNew(f, t))
      BY <3>1, <3>3, <3>4, <3>5
    <3>7. \A t \in Slots : state_vec[t] # Null /\ state_vec[t].ref # 0 => FirstKept(f, t)
      BY <2>1, <3>4
    <3> QED BY <1>5, <2>2, <3>1, <3>6, <3>7 DEF f
  <2> QED BY <2>3, <2>4
<1> QED BY <1>1, <1>4, <1>5

\* What a lookup of state s does to the cached states.
LEMMA LookupEvolves ==
  ASSUME StoreInv, NEW s \in Ids, GetMutableState(s)
  PROVE  \E slot \in Slots :
           /\ ptr' = slot /\ SlotOf(s)' = slot /\ state_vec'[slot] # Null
           /\ Evolves(slot)
           /\ Stored(s) => slot = SlotOf(s) /\ KeptIn(slot)
<1> DEFINE f     == FirstGet(s)
           state == f.vec[f.slot]
           init  == Gc /\ "Init" \notin state.flags
<1>1. /\ state_vec' = IF init THEN [f.vec EXCEPT ![f.slot].flags = @ \cup {"Init"}]
                              ELSE f.vec
      /\ first_id' = f.first_id /\ ptr' = f.slot
  BY DEF GetMutableState
<1>2. FirstGetOK(f)
  BY FirstGetLemma
<1>3. /\ \A t \in Slots : f.vec[t] # Null =>
           FirstKept(f, t) \/ (t = f.slot /\ FirstNew(f, t))
      /\ \A t \in Slots : state_vec[t] # Null /\ state_vec[t].ref # 0 => FirstKept(f, t)
      /\ f.slot = IF s = f.first_id THEN 0 ELSE s + 1
      /\ Stored(s) => f.slot = SlotOf(s) /\ FirstKept(f, f.slot)
  BY FirstGetEvolves
<1> HIDE DEF f
<1>4. /\ f.vec \in [Slots -> CacheState \cup {Null}] /\ f.slot \in Slots
      /\ state \in CacheState /\ state # Null
  BY <1>2 DEF FirstGetOK
<1>5. /\ \A t \in Slots \ {f.slot} : state_vec'[t] = f.vec[t]
      /\ state_vec'[f.slot] # Null
      /\ SameState(state, state_vec'[f.slot])
  <2> DEFINE new == [state EXCEPT !.flags = @ \cup {"Init"}]
  <2>1. new \in CacheState /\ new # Null /\ SameState(state, new) /\ SameState(state, state)
    BY <1>4, NullAssumption DEF CacheState, CacheFlags, SameState
  <2>2. state_vec' = [f.vec EXCEPT ![f.slot] = new] \/ state_vec' = f.vec
    BY <1>1
  <2> HIDE DEF new
  <2> QED BY <1>4, <2>1, <2>2
<1> HIDE DEF state
<1>6. \A t \in Slots : FirstKept(f, t) => KeptIn(t)
  <2> SUFFICES ASSUME NEW t \in Slots, FirstKept(f, t) PROVE KeptIn(t)
    OBVIOUS
  <2>1. Value(t)' = Value(t)
    BY <1>1 DEF Value, FirstKept
  <2>2. state_vec'[t] # Null /\ SameState(state_vec[t], state_vec'[t])
    <3>1. CASE t = f.slot
      BY <1>5, <3>1 DEF FirstKept, SameState, state
    <3>2. CASE t # f.slot
      BY <1>5, <3>2 DEF FirstKept
    <3> QED BY <3>1, <3>2
  <2> QED BY <2>1, <2>2 DEF KeptIn, FirstKept
<1>7. FirstNew(f, f.slot) => NewIn(f.slot)
  BY <1>5 DEF FirstNew, NewIn, Blank, SameState, state
<1>8. \A t \in Slots : state_vec'[t] # Null => f.vec[t] # Null
  BY <1>4, <1>5 DEF state
<1>9. Evolves(f.slot)
  BY <1>3, <1>6, <1>7, <1>8 DEF Evolves
<1>10. f.slot = SlotOf(s)'
  BY <1>1, <1>3 DEF SlotOf
<1> QED BY <1>1, <1>3, <1>4, <1>5, <1>6, <1>9, <1>10

\* A slot in use belongs to one state, and that state is looked up there.
LEMMA SlotValue ==
  ASSUME StoreInv
  PROVE  /\ \A t \in Slots : state_vec[t] # Null =>
              Value(t) \in Ids /\ SlotOf(Value(t)) = t
         /\ \A s \in Ids : SlotOf(s) \in Slots /\ (Stored(s) => Value(SlotOf(s)) = s)
<1> USE IdsInSlots
<1>1. /\ first_id \in Ids \cup {NoStateId}
      /\ (first_id = NoStateId) = (state_vec[0] = Null)
      /\ first_id # NoStateId => state_vec[first_id + 1] = Null
  BY DEF StoreInv, StoreTypeOK, NoAlias
<1>2. ASSUME NEW t \in Slots, state_vec[t] # Null
      PROVE  Value(t) \in Ids /\ SlotOf(Value(t)) = t
  <2>1. CASE t = 0
    BY <1>1, <1>2, <2>1 DEF Value, SlotOf
  <2>2. CASE t # 0
    <3>1. Value(t) = t - 1 /\ t - 1 \in Ids /\ (t - 1) + 1 = t
      BY <2>2 DEF Value
    <3>2. t - 1 # first_id
      BY <1>1, <1>2, <3>1
    <3> QED BY <3>1, <3>2 DEF SlotOf
  <2> QED BY <2>1, <2>2
<1>3. ASSUME NEW s \in Ids
      PROVE  SlotOf(s) \in Slots /\ (Stored(s) => Value(SlotOf(s)) = s)
  BY <1>1 DEF SlotOf, Value, Stored, Ids
<1> QED BY <1>2, <1>3

LEMMA SlotValueNext ==
  ASSUME StoreInv'
  PROVE  /\ \A t \in Slots : state_vec'[t] # Null =>
              Value(t)' \in Ids /\ SlotOf(Value(t))' = t
         /\ \A s \in Ids : SlotOf(s)' \in Slots /\ (Stored(s)' => Value(SlotOf(s))' = s)
<1> USE IdsInSlots
<1>1. /\ first_id' \in Ids \cup {NoStateId}
      /\ (first_id' = NoStateId) = (state_vec'[0] = Null)
      /\ first_id' # NoStateId => state_vec'[first_id' + 1] = Null
  BY DEF StoreInv, StoreTypeOK, NoAlias
<1>2. ASSUME NEW t \in Slots, state_vec'[t] # Null
      PROVE  Value(t)' \in Ids /\ SlotOf(Value(t))' = t
  <2>1. CASE t = 0
    BY <1>1, <1>2, <2>1 DEF Value, SlotOf
  <2>2. CASE t # 0
    <3>1. Value(t)' = t - 1 /\ t - 1 \in Ids /\ (t - 1) + 1 = t
      BY <2>2 DEF Value
    <3>2. t - 1 # first_id'
      BY <1>1, <1>2, <3>1
    <3> QED BY <3>1, <3>2 DEF SlotOf
  <2> QED BY <2>1, <2>2
<1>3. ASSUME NEW s \in Ids
      PROVE  SlotOf(s)' \in Slots /\ (Stored(s)' => Value(SlotOf(s))' = s)
  BY <1>1 DEF SlotOf, Value, Stored, Ids
<1> QED BY <1>2, <1>3

\* A state that stays in its slot is looked up there, before and after.
LEMMA KeptLookup ==
  ASSUME StoreInv, StoreInv', NEW s \in Ids, NEW t \in Slots, KeptIn(t), t = SlotOf(s)
  PROVE  t = SlotOf(s)' /\ Stored(s) /\ Stored(s)'
<1>1. Stored(s) /\ Value(t) = s
  BY SlotValue DEF KeptIn, Stored
<1>2. SlotOf(Value(t))' = t /\ Value(t)' = Value(t)
  BY SlotValueNext DEF KeptIn
<1>3. SlotOf(s)' = t
  BY <1>1, <1>2, IdsInSlots DEF SlotOf
<1> QED BY <1>1, <1>3 DEF Stored, KeptIn

\* The iterators on a slot
On(t) == {it \in AllIters : iters[it].slot = t}

LEMMA OnFinite == ASSUME NEW t PROVE IsFiniteSet(On(t))
BY IdsInSlots, FS_Subset DEF On

\* An open iterator holds a reference on a cached state, and the state is kept by
\* every step that spares the states in use.
LEMMA IterPins ==
  ASSUME ImplTypeOK, ItersStored, RefsAreIterators, StoreInv,
         NEW it \in AllIters, iters[it].slot # Null
  PROVE  /\ iters[it].slot \in Slots /\ iters[it].s \in Ids
         /\ iters[it].slot = SlotOf(iters[it].s)
         /\ state_vec[iters[it].slot] # Null
         /\ state_vec[iters[it].slot].ref # 0
<1> DEFINE t == iters[it].slot
<1>1. t \in Slots /\ iters[it].s \in Ids /\ t = SlotOf(iters[it].s) /\ state_vec[t] # Null
  BY DEF ImplTypeOK, ItersStored
<1>2. state_vec[t].ref = Cardinality(On(t))
  BY <1>1 DEF RefsAreIterators, On
<1>3. On(t) # {}
  BY DEF On
<1>4. Cardinality(On(t)) # 0
  BY <1>3, OnFinite, FS_EmptySet
<1> QED BY <1>1, <1>2, <1>4

\* The step keeps every state that an iterator is on.
Spares == \A t \in Slots : state_vec[t] # Null /\ state_vec[t].ref # 0 => KeptIn(t)

LEMMA SparesIters ==
  ASSUME ImplTypeOK, ItersStored, RefsAreIterators, StoreInv, StoreInv', Spares,
         iters' = iters
  PROVE  /\ ItersStored'
         /\ \A it \in AllIters : iters[it].slot # Null => KeptIn(iters[it].slot)
<1>1. ASSUME NEW it \in AllIters, iters[it].slot # Null
      PROVE  /\ KeptIn(iters[it].slot)
             /\ iters[it].s \in Ids
             /\ iters[it].slot = SlotOf(iters[it].s)'
             /\ state_vec'[iters[it].slot] # Null
  <2>1. /\ iters[it].slot \in Slots /\ iters[it].s \in Ids
        /\ iters[it].slot = SlotOf(iters[it].s)
        /\ KeptIn(iters[it].slot)
    BY <1>1, IterPins DEF Spares
  <2>2. iters[it].slot = SlotOf(iters[it].s)'
    <3>1. PICK s \in Ids, t \in Slots :
            s = iters[it].s /\ t = iters[it].slot /\ t = SlotOf(s) /\ KeptIn(t)
      BY <2>1
    <3>2. t = SlotOf(s)'
      BY <3>1, KeptLookup
    <3> QED BY <3>1, <3>2 DEF SlotOf
  <2> QED BY <2>1, <2>2 DEF KeptIn
<1>2. ItersStored'
  <2> SUFFICES ASSUME NEW it \in AllIters
               PROVE  IF iters[it].slot = Null THEN iters[it] = NoIter
                      ELSE /\ iters[it].s \in Ids
                           /\ iters[it].slot = SlotOf(iters[it].s)'
                           /\ state_vec'[iters[it].slot] # Null
    BY DEF ItersStored
  <2>1. CASE iters[it].slot = Null
    BY <2>1 DEF ItersStored
  <2>2. CASE iters[it].slot # Null
    BY <2>2, <1>1
  <2> QED BY <2>1, <2>2
<1> QED BY <1>1, <1>2

\* A reference count changes with the number of iterators: not at all...
LEMMA RefsKept ==
  ASSUME RefsAreIterators,
         \A t \in Slots : state_vec'[t] # Null =>
           \/ state_vec[t] # Null /\ state_vec'[t].ref = state_vec[t].ref
           \/ On(t) = {} /\ state_vec'[t].ref = 0,
         iters' = iters
  PROVE  RefsAreIterators'
<1> SUFFICES ASSUME NEW t \in Slots, state_vec'[t] # Null
             PROVE  state_vec'[t].ref = Cardinality(On(t))
  BY DEF RefsAreIterators, On
<1>1. CASE state_vec[t] # Null /\ state_vec'[t].ref = state_vec[t].ref
  BY <1>1 DEF RefsAreIterators, On
<1>2. CASE On(t) = {} /\ state_vec'[t].ref = 0
  BY <1>2, FS_EmptySet
<1> QED BY <1>1, <1>2

\* ...by one as an iterator is opened...
LEMMA RefsOpened ==
  ASSUME RefsAreIterators, iters \in [AllIters -> [s : Ids \cup {NoStateId}, slot : Slots \cup {Null}]],
         NEW it \in AllIters, iters[it].slot = Null, NEW slot \in Slots,
         NEW s, iters' = [iters EXCEPT ![it] = [s |-> s, slot |-> slot]],
         state_vec[slot] # Null, state_vec'[slot].ref = state_vec[slot].ref + 1,
         \A t \in Slots \ {slot} :
           state_vec'[t] # Null => state_vec[t] # Null /\ state_vec'[t].ref = state_vec[t].ref
  PROVE  RefsAreIterators'
<1> SUFFICES ASSUME NEW t \in Slots, state_vec'[t] # Null
             PROVE  state_vec'[t].ref = Cardinality({i \in AllIters : iters'[i].slot = t})
  BY DEF RefsAreIterators
<1>1. Null \notin Slots
  BY IdsInSlots
<1>2. CASE t = slot
  <2>1. {i \in AllIters : iters'[i].slot = t} = On(t) \cup {it}
    BY <1>2 DEF On
  <2>2. it \notin On(t)
    BY <1>1 DEF On
  <2>3. Cardinality(On(t) \cup {it}) = Cardinality(On(t)) + 1
    BY <2>2, OnFinite, FS_AddElement
  <2>4. state_vec[t].ref = Cardinality(On(t))
    BY <1>2 DEF RefsAreIterators, On
  <2> QED BY <1>2, <2>1, <2>3, <2>4
<1>3. CASE t # slot
  <2>1. {i \in AllIters : iters'[i].slot = t} = On(t)
    BY <1>1, <1>3 DEF On
  <2>2. state_vec[t].ref = Cardinality(On(t)) /\ state_vec'[t].ref = state_vec[t].ref
    BY <1>3 DEF RefsAreIterators, On
  <2> QED BY <2>1, <2>2
<1> QED BY <1>2, <1>3

\* ...or closed.
LEMMA RefsClosed ==
  ASSUME RefsAreIterators, iters \in [AllIters -> [s : Ids \cup {NoStateId}, slot : Slots \cup {Null}]],
         NEW it \in AllIters, NEW slot \in Slots, iters[it].slot = slot,
         iters' = [iters EXCEPT ![it] = NoIter],
         state_vec[slot] # Null, state_vec'[slot].ref = state_vec[slot].ref - 1,
         \A t \in Slots \ {slot} :
           state_vec'[t] # Null => state_vec[t] # Null /\ state_vec'[t].ref = state_vec[t].ref
  PROVE  RefsAreIterators'
<1> SUFFICES ASSUME NEW t \in Slots, state_vec'[t] # Null
             PROVE  state_vec'[t].ref = Cardinality({i \in AllIters : iters'[i].slot = t})
  BY DEF RefsAreIterators
<1>1. Null \notin Slots /\ NoIter.slot = Null
  BY IdsInSlots DEF NoIter
<1>2. CASE t = slot
  <2>1. {i \in AllIters : iters'[i].slot = t} = On(t) \ {it}
    BY <1>1, <1>2 DEF On
  <2>2. it \in On(t)
    BY <1>2 DEF On
  <2>3. Cardinality(On(t) \ {it}) = Cardinality(On(t)) - 1
    BY <2>2, OnFinite, FS_RemoveElement
  <2>4. state_vec[t].ref = Cardinality(On(t))
    BY <1>2 DEF RefsAreIterators, On
  <2> QED BY <1>2, <2>1, <2>3, <2>4
<1>3. CASE t # slot
  <2>1. {i \in AllIters : iters'[i].slot = t} = On(t)
    BY <1>1, <1>3 DEF On
  <2>2. state_vec[t].ref = Cardinality(On(t)) /\ state_vec'[t].ref = state_vec[t].ref
    BY <1>3 DEF RefsAreIterators, On
  <2> QED BY <2>1, <2>2
<1> QED BY <1>2, <1>3

\* What a step of a collection does to the cached states.
LEMMA CollectEvolves ==
  ASSUME StoreInv, GCStep
  PROVE  /\ ptr' = ptr /\ gc.on
         /\ \A t \in Slots : state_vec'[t] # Null => KeptIn(t)
         /\ Spares
         /\ \A t \in Slots : t = ptr => KeptIn(t)
<1> USE IdsInSlots
<1>1. /\ state_vec \in [Slots -> CacheState \cup {Null}] /\ state_list \in Seq(Slots)
      /\ gc \in [on : BOOLEAN, pos : Nat \ {0}, recent : BOOLEAN, target : Nat]
      /\ ptr \in Slots \cup {Null} /\ (ptr # Null => state_vec[ptr] # Null)
  BY DEF StoreInv, StoreTypeOK, PtrIsStored
<1>2. ASSUME UNCHANGED <<state_vec, first_id>>, NEW t \in Slots, state_vec[t] # Null
      PROVE  KeptIn(t)
  BY <1>2 DEF KeptIn, SameState, Value
<1>3. CASE SweepRecent \/ Widen \/ EndGC
  <2>1. UNCHANGED <<state_vec, first_id, ptr>> /\ gc.on
    BY <1>3 DEF SweepRecent, Widen, EndGC
  <2>2. \A t \in Slots : state_vec[t] # Null => KeptIn(t)
    BY <2>1, <1>2
  <2> QED BY <1>1, <2>1, <2>2 DEF Spares
<1>4. CASE Sweep
  <2> DEFINE slot  == state_list[gc.pos]
             state == state_vec[slot]
             free  == MayFree(state, slot)
  <2>1. gc.on /\ gc.pos \in 1 .. Len(state_list)
    BY <1>1, <1>4 DEF Sweep
  <2>2. slot \in Slots /\ state # Null /\ state \in CacheState
    BY <1>1, <2>1 DEF StoreInv, ListStored
  <2>3. /\ state_vec' = IF free THEN [state_vec EXCEPT ![slot] = Null]
                        ELSE [state_vec EXCEPT ![slot].flags = @ \ {"Recent"}]
        /\ first_id' = IF free THEN OwnerAfterDelete(slot) ELSE first_id
        /\ ptr' = ptr
    <3>1. FirstGet(Value(slot)) =
            [slot |-> slot, vec |-> state_vec, list |-> state_list,
             first_gc |-> first_gc, first_id |-> first_id]
      BY <2>1, SweepLookup
    <3> QED BY <1>4, <3>1 DEF Sweep, MayFree
  <2> HIDE DEF slot
  <2>4. CASE free
    <3>1. state.ref = 0 /\ slot # ptr
      BY <2>4 DEF MayFree
    <3>2. state_vec' = [state_vec EXCEPT ![slot] = Null] /\ first_id' = OwnerAfterDelete(slot)
      BY <2>3, <2>4
    <3>3. ASSUME NEW t \in Slots, t # slot, state_vec[t] # Null
          PROVE  KeptIn(t)
      <4>1. Value(t)' = Value(t)
        <5>1. CASE t = 0
          <6>1. SlotOf(Value(slot)) = slot
            BY <2>2, SlotValue
          <6>2. Value(slot) # first_id
            BY <3>3, <5>1, <6>1 DEF SlotOf
          <6> QED BY <3>2, <5>1, <6>2 DEF OwnerAfterDelete, Value
        <5>2. CASE t # 0
          BY <5>2 DEF Value
        <5> QED BY <5>1, <5>2
      <4>2. state_vec'[t] = state_vec[t]
        BY <1>1, <3>2, <3>3
      <4> QED BY <3>3, <4>1, <4>2 DEF KeptIn, SameState
    <3>4. state_vec'[slot] = Null
      BY <1>1, <2>2, <3>2
    <3>5. \A t \in Slots : t # slot => state_vec'[t] = state_vec[t]
      BY <1>1, <3>2
    <3> QED BY <1>1, <2>1, <2>3, <3>1, <3>3, <3>4, <3>5 DEF Spares
  <2>5. CASE ~free
    <3> DEFINE new == [state EXCEPT !.flags = @ \ {"Recent"}]
    <3>1. new \in CacheState /\ SameState(state, new)
      BY <2>2 DEF CacheState, SameState
    <3>2. state_vec' = [state_vec EXCEPT ![slot] = new] /\ first_id' = first_id
      BY <2>3, <2>5
    <3> HIDE DEF new
    <3>3. \A t \in Slots : Value(t)' = Value(t)
      BY <3>2 DEF Value
    <3>4. \A t \in Slots : IF t = slot THEN state_vec'[t] = new ELSE state_vec'[t] = state_vec[t]
      BY <1>1, <2>2, <3>2
    <3>5. \A st : SameState(st, st)
      BY DEF SameState
    <3>6. new # Null
      BY <3>1, NullAssumption
    <3>7. \A t \in Slots : state_vec[t] # Null => KeptIn(t)
      BY <3>1, <3>3, <3>4, <3>5, <3>6 DEF KeptIn
    <3>8. \A t \in Slots : state_vec'[t] # Null => state_vec[t] # Null
      BY <2>2, <3>4
    <3> QED BY <1>1, <2>1, <2>3, <3>7, <3>8 DEF Spares
  <2> QED BY <2>4, <2>5
<1> QED BY <1>3, <1>4 DEF GCStep

\* Slot t holds the same arcs and final weight before and after.
SameIn(t) ==
  /\ state_vec[t] # Null
  /\ LET a == state_vec[t]
         b == state_vec'[t]
     IN  /\ b.arcs = a.arcs /\ b.neps = a.neps /\ b.final = a.final
         /\ "Final" \in b.flags <=> "Final" \in a.flags
         /\ "Arcs" \in b.flags <=> "Arcs" \in a.flags
  /\ Value(t)' = Value(t)

LEMMA KeptSame == \A t \in Slots : KeptIn(t) => SameIn(t)
BY DEF KeptIn, SameIn, SameState

\* A cached state still agrees with the FST if it is kept, and the call in progress
\* has not moved on in it.
LEMMA ContentStep ==
  ASSUME Content,
         \A t \in Slots : state_vec'[t] # Null =>
           \/ /\ SameIn(t)
              /\ Pushed(Value(t))' = Pushed(Value(t))
              /\ EpsSet(Value(t))' = EpsSet(Value(t))
           \/ StateOK(state_vec[t], Value(t))'
  PROVE  Content'
<1> SUFFICES ASSUME NEW t \in Slots, state_vec'[t] # Null
             PROVE  StateOK(state_vec[t], Value(t))'
  BY DEF Content
<1>1. CASE /\ SameIn(t)
           /\ Pushed(Value(t))' = Pushed(Value(t))
           /\ EpsSet(Value(t))' = EpsSet(Value(t))
  <2>1. StateOK(state_vec[t], Value(t))
    BY <1>1 DEF Content, SameIn
  <2> QED BY <1>1, <2>1 DEF StateOK, SameIn
<1> QED BY <1>1

\* Pushed and EpsSet of a state follow from the call in progress alone.
LEMMA SameProgress ==
  ASSUME NEW s, op' = op
  PROVE  Pushed(s)' = Pushed(s) /\ EpsSet(s)' = EpsSet(s) /\ Expanding(s)' = Expanding(s)
BY DEF Pushed, EpsSet, Expanding

LEMMA NoProgress ==
  ASSUME NEW s, op = NoOp \/ op.s # s \/ op.f \notin {"PushArc", "SetArcs", "MarkArcs"}
  PROVE  Pushed(s) = <<>> /\ EpsSet(s) = 0
BY DEF Pushed, EpsSet, Expanding

LEMMA NoProgressNext ==
  ASSUME NEW s, op' = NoOp \/ op'.s # s \/ op'.f \notin {"PushArc", "SetArcs", "MarkArcs"}
  PROVE  Pushed(s)' = <<>> /\ EpsSet(s)' = 0
BY DEF Pushed, EpsSet, Expanding

-------------------------------------------------------------------------------
\* A set of naturals that is not empty has a least element.
LEMMA LeastNat ==
  ASSUME NEW S, S \subseteq Nat, S # {}
  PROVE  \E x \in S : \A y \in S : x <= y
<1> DEFINE R == {ss \in Nat \X Nat : ss[1] < ss[2]}
<1>1. IsWellFoundedOn(R, Nat)
  BY NatLessThanWellFounded, Zenon DEF OpToRel
<1>2. PICK x \in S : \A y \in S : ~(<<y, x>> \in R)
  BY <1>1, WFMin, Zenon
<1>3. \A y \in S : x <= y
  <2> SUFFICES ASSUME NEW y \in S PROVE x <= y
    OBVIOUS
  <2>1. x \in Nat /\ y \in Nat
    OBVIOUS
  <2>2. ~(y < x)
    BY <1>2, <2>1
  <2> QED BY <2>1, <2>2
<1> QED BY <1>3

\* A bounded set of naturals that is not empty has a greatest element.
LEMMA GreatestNat ==
  ASSUME NEW n \in Nat, NEW S, S \subseteq 0 .. n, S # {}
  PROVE  Max(S) \in S /\ \A y \in S : y <= Max(S)
<1> DEFINE T == {n - y : y \in S}
<1>1. T \subseteq Nat /\ T # {}
  <2>1. \A y \in S : n - y \in Nat
    OBVIOUS
  <2> QED BY <2>1, Zenon
<1>2. PICK x \in T : \A y \in T : x <= y
  BY <1>1, LeastNat
<1>3. PICK z \in S : x = n - z
  BY <1>2
<1>4. \A y \in S : z >= y
  <2> SUFFICES ASSUME NEW y \in S PROVE z >= y
    OBVIOUS
  <2>1. n - z <= n - y
    BY <1>2, <1>3
  <2>2. y \in 0 .. n /\ z \in 0 .. n
    BY <1>3
  <2> QED BY <2>1, <2>2
<1>5. \E m \in S : \A y \in S : m >= y
  BY <1>3, <1>4
<1> DEFINE max == CHOOSE m \in S : \A y \in S : m >= y
<1>6. max \in S /\ \A y \in S : max >= y
  BY <1>5
<1>7. Max(S) = max
  BY DEF Max
<1> HIDE DEF max
<1>8. \A y \in S : y <= max
  <2> SUFFICES ASSUME NEW y \in S PROVE y <= max
    OBVIOUS
  <2>1. y \in 0 .. n /\ max \in 0 .. n /\ max >= y
    BY <1>6
  <2> QED BY <2>1
<1> QED BY <1>6, <1>7, <1>8

\* The number of known states stays in range.
LEMMA KnownType ==
  ASSUME NEW n \in 0 .. NumIds, NEW s \in Ids
  PROVE  Known(s, n) \in 0 .. NumIds
BY CacheConstants DEF Known, Ids

LEMMA KnownArcsType ==
  ASSUME NEW n \in 0 .. NumIds, NEW arcs \in Seq(Arcs)
  PROVE  /\ KnownArcs(arcs, n) \in 0 .. NumIds
         /\ n <= KnownArcs(arcs, n)
         /\ \A i \in 1 .. Len(arcs) : NextState[arcs[i]] < KnownArcs(arcs, n)
<1> DEFINE S == {n} \cup {NextState[arc] + 1 : arc \in Range(arcs)}
<1>1. \A arc \in Range(arcs) : arc \in Arcs
  BY DEF Range
<1>2. \A arc \in Arcs : NextState[arc] \in Nat /\ NextState[arc] + 1 \in 0 .. NumIds
  BY DelayedConstants, CacheConstants DEF Ids
<1>3. S \subseteq 0 .. NumIds /\ S # {} /\ n \in S
  BY <1>1, <1>2
<1>4. \A i \in 1 .. Len(arcs) : arcs[i] \in Range(arcs)
  BY DEF Range
<1>5. \A i \in 1 .. Len(arcs) : NextState[arcs[i]] + 1 \in S
  BY <1>4
<1>6. NumIds \in Nat
  BY CacheConstants
<1> HIDE DEF S
<1>7. Max(S) \in S /\ \A y \in S : y <= Max(S)
  BY <1>3, <1>6, GreatestNat, Zenon
<1>8. Max(S) \in 0 .. NumIds /\ n <= Max(S)
  BY <1>3, <1>7
<1>9. ASSUME NEW i \in 1 .. Len(arcs)
      PROVE  NextState[arcs[i]] < Max(S)
  <2>1. NextState[arcs[i]] + 1 <= Max(S) /\ NextState[arcs[i]] \in Nat
    BY <1>1, <1>2, <1>4, <1>5, <1>7
  <2> QED BY <1>8, <2>1
<1> QED BY <1>8, <1>9 DEF KnownArcs, S

\* MinUnexpandedState finds a state that was not expanded, or one past them all.
LEMMA MinUnexpandedType ==
  ASSUME min_unexpanded \in Nat, max_expanded \in Int
  PROVE  /\ MinUnexpandedState \in Nat
         /\ min_unexpanded <= MinUnexpandedState
         /\ \A v \in min_unexpanded .. MinUnexpandedState - 1 : ExpandedState(v)
         /\ MinUnexpandedState > max_expanded \/ ~ExpandedState(MinUnexpandedState)
         /\ MinUnexpandedState = min_unexpanded \/ MinUnexpandedState <= max_expanded + 1
<1> DEFINE m == min_unexpanded
           M == max_expanded
           E(v) == ExpandedState(v)
           top == Max({m, M + 1})
           P(u) == /\ \A v \in m .. u - 1 : E(v)
                   /\ u > M \/ ~E(u)
           S == {u \in Nat : u >= m /\ (u > M \/ ~E(u))}
<1>1. top \in Nat /\ top >= m /\ top > M /\ (top = m \/ top = M + 1)
  <2>1. \E x \in {m, M + 1} : \A y \in {m, M + 1} : x >= y
    BY DEF Max
  <2>2. top \in {m, M + 1} /\ \A y \in {m, M + 1} : top >= y
    BY <2>1 DEF Max
  <2> HIDE DEF top
  <2> QED BY <2>2
<1> HIDE DEF E, top
<1>2. top \in S /\ S \subseteq Nat
  BY <1>1
<1>3. PICK x \in S : \A y \in S : x <= y
  BY <1>2, LeastNat
<1>4. x \in m .. top
  BY <1>1, <1>2, <1>3
<1>5. P(x)
  <2>1. ASSUME NEW v \in m .. x - 1 PROVE E(v)
    <3>1. v \in Nat /\ v >= m /\ ~(x <= v)
      BY <1>4
    <3>2. v \notin S
      BY <1>3, <3>1
    <3> QED BY <3>1, <3>2
  <2> QED BY <1>3, <2>1
<1>6. \E u \in m .. top : P(u)
  BY <1>4, <1>5
<1> DEFINE c == CHOOSE u \in m .. top : P(u)
<1>7. c \in m .. top /\ P(c)
  BY <1>6
<1>8. MinUnexpandedState = c
  BY DEF MinUnexpandedState, E, top
<1> HIDE DEF c
<1> QED BY <1>1, <1>7, <1>8 DEF E

-------------------------------------------------------------------------------
\* A call begins: what it still has to do is in op, and nothing else has changed.
Begins(name, s, it, f) ==
  /\ op' = Call(name, s, it, f)
  /\ \/ name = "Final" /\ f = "SetFinal" /\ it = Null
     \/ name = "NumArcs" /\ f = ExpandFrom(s) /\ it = Null /\ ~HasFlag(s, "Arcs")
     \/ /\ name = "InitArcIterator" /\ f = ExpandFrom(s) /\ it \in Iters
        /\ ~HasFlag(s, "Arcs") /\ iters[it] = NoIter
     \/ name = "ArcIterator" /\ f = "Pin" /\ it \in AllIters /\ iters[it] = NoIter

LEMMA StoreInvStutter ==
  ASSUME StoreInv, UNCHANGED storeVars
  PROVE  StoreInv'
BY StoreNextInv

LEMMA BeginProgress ==
  ASSUME NEW name, NEW s \in Ids, NEW it \in AllIters \cup {Null}, NEW f,
         Begins(name, s, it, f)
  PROVE  /\ name \in Names /\ f \in Functions /\ op' \in OpType
         /\ op'.name = name /\ op'.s = s /\ op'.it = it /\ op'.f = f
         /\ op'.stage = "get" /\ op'.i = 1
         /\ \A t : Pushed(t)' = <<>> /\ EpsSet(t)' = 0
         /\ f = "PushArc" => 1 \in 1 .. Len(RefArcs[s])
<1>1. RefArcs[s] \in Seq(Arcs)
  BY DelayedConstants
<1>2. name \in Names /\ f \in Functions
  BY DEF Begins, Names, Functions, ExpandFrom
<1>3. /\ op' \in OpType
      /\ op'.name = name /\ op'.s = s /\ op'.it = it /\ op'.f = f
      /\ op'.stage = "get" /\ op'.i = 1
  BY <1>2, CallFields DEF Begins
<1>4. SubSeq(RefArcs[s], 1, 0) = <<>>
  BY <1>1
<1>5. f = "SetArcs" => RefArcs[s] = <<>>
  BY DEF Begins, ExpandFrom
<1>6. f # "MarkArcs"
  BY DEF Begins, ExpandFrom
<1>7. f = "PushArc" => 1 \in 1 .. Len(RefArcs[s])
  BY <1>1 DEF Begins, ExpandFrom
<1>8. ASSUME NEW t PROVE Pushed(t)' = <<>> /\ EpsSet(t)' = 0
  <2>1. CASE t # s
    BY <1>3, <2>1, NoProgressNext
  <2>2. CASE t = s
    BY <1>3, <1>4, <1>5, <1>6, <2>2 DEF Pushed, EpsSet, Expanding
  <2> QED BY <2>1, <2>2
<1> QED BY <1>2, <1>3, <1>7, <1>8

LEMMA CallBegins ==
  ASSUME DelayedInv, op = NoOp, ~gc.on, UNCHANGED <<storeVars, iters>>,
         answer' = NoAnswer,
         NEW name, NEW s \in Ids, NEW it \in AllIters \cup {Null}, NEW f,
         Begins(name, s, it, f),
         siter.u = NoStateId,
         IF it = StateIter THEN siter'.u # NoStateId /\ name = "ArcIterator"
                           ELSE siter'.u = NoStateId
  PROVE  /\ StoreInv' /\ Content' /\ ItersStored' /\ RefsAreIterators' /\ OpShape'
         /\ OpIter' /\ OpState' /\ OpCollects' /\ StateIterOK' /\ ReadyExpanded'
         /\ op' \in OpType \cup {NoOp}
<1> USE DEF DelayedInv
<1>1. /\ name \in Names /\ f \in Functions /\ op' \in OpType
      /\ op'.name = name /\ op'.s = s /\ op'.it = it /\ op'.f = f
      /\ op'.stage = "get" /\ op'.i = 1
      /\ \A t : Pushed(t)' = <<>> /\ EpsSet(t)' = 0
      /\ f = "PushArc" => 1 \in 1 .. Len(RefArcs[s])
      /\ op' # NoOp
  BY BeginProgress, OpFields
<1>2. UNCHANGED <<state_vec, first_id, ptr, gc>>
  BY DEF storeVars
<1>3. StoreInv'
  BY StoreInvStutter
<1>4. Content'
  <2>1. \A t : Pushed(t) = <<>> /\ EpsSet(t) = 0
    BY NoProgress
  <2>2. \A t \in Slots : state_vec[t] # Null => KeptIn(t)
    BY <1>2 DEF KeptIn, SameState, Value
  <2> QED BY <1>1, <1>2, <2>1, <2>2, KeptSame, ContentStep
<1>5. ItersStored' /\ RefsAreIterators'
  BY <1>2 DEF ItersStored, RefsAreIterators, SlotOf
<1>6. OpShape'
  BY <1>1 DEF OpShape, Begins, ExpandFrom
<1>7. OpIter'
  BY <1>1 DEF OpIter, Begins, ExpandFrom
<1>8. OpState'
  <2>1. f \in {"PushArc", "SetArcs", "MarkArcs"} => ~HasFlag(s, "Arcs")
    BY DEF Begins
  <2>2. Expanding(op.s)' /\ Stored(op.s)' => "Arcs" \notin state_vec'[SlotOf(op.s)'].flags
    BY <1>1, <1>2, <2>1 DEF Expanding, HasFlag, Stored, SlotOf
  <2>3. Pushed(op.s)' = <<>>
    BY <1>1 DEF Pushed, Expanding
  <2>4. f # "Return"
    BY DEF Begins, ExpandFrom
  <2> QED BY <1>1, <2>2, <2>3, <2>4 DEF OpState
<1>9. OpCollects'
  BY <1>2 DEF OpCollects
<1>10. StateIterOK'
  <2>1. iters[StateIter] = NoIter
    BY DEF StateIterOK
  <2> QED BY <1>1, <2>1 DEF StateIterOK
<1>11. ReadyExpanded'
  BY <1>1, <1>2 DEF ReadyExpanded, Ready
<1> QED BY <1>1, <1>3, <1>4, <1>5, <1>6, <1>7, <1>8, <1>9, <1>10, <1>11

\* A call that needs nothing from the cache returns at once.
LEMMA StaysIdle ==
  ASSUME DelayedInv, op = NoOp, op' = NoOp, ~gc.on, UNCHANGED <<storeVars, iters>>,
         siter.u = NoStateId, siter'.u = NoStateId
  PROVE  /\ StoreInv' /\ Content' /\ ItersStored' /\ RefsAreIterators' /\ OpShape'
         /\ OpIter' /\ OpState' /\ OpCollects' /\ StateIterOK' /\ ReadyExpanded'
         /\ op' \in OpType \cup {NoOp}
<1> USE DEF DelayedInv
<1>1. UNCHANGED <<state_vec, first_id, ptr, gc>>
  BY DEF storeVars
<1>2. StoreInv'
  BY StoreInvStutter
<1>3. Content'
  <2>1. \A t : Pushed(t) = <<>> /\ EpsSet(t) = 0
    BY NoProgress
  <2>2. \A t : Pushed(t)' = <<>> /\ EpsSet(t)' = 0
    BY NoProgressNext
  <2>3. \A t \in Slots : state_vec[t] # Null => KeptIn(t)
    BY <1>1 DEF KeptIn, SameState, Value
  <2> QED BY <1>1, <2>1, <2>2, <2>3, KeptSame, ContentStep
<1>4. ItersStored' /\ RefsAreIterators'
  BY <1>1 DEF ItersStored, RefsAreIterators, SlotOf
<1>5. OpShape' /\ OpIter' /\ OpState' /\ OpCollects'
  BY <1>1 DEF OpShape, OpIter, OpState, OpCollects
<1>6. StateIterOK' /\ ReadyExpanded'
  BY <1>1 DEF StateIterOK, ReadyExpanded, Ready
<1> QED BY <1>2, <1>3, <1>4, <1>5, <1>6

LEMMA ForceStartType ==
  ASSUME ImplTypeOK, ForceStart
  PROVE  nknown_states' \in 0 .. NumIds
BY KnownType, DelayedConstants DEF ImplTypeOK, ForceStart

\* The calls that only begin, or that do not touch the cache.
LEMMA PureCallsInv ==
  ASSUME DelayedInv,
         \/ Start \/ NewStateIterator \/ SIterNext \/ SIterDone
         \/ \E s \in KnownIds, it \in Iters : ArcIterator(it, s)
         \/ SIterExpand
  PROVE  DelayedInv'
<1> DEFINE Rest == /\ StoreInv' /\ Content' /\ ItersStored' /\ RefsAreIterators' /\ OpShape'
                   /\ OpIter' /\ OpState' /\ OpCollects' /\ StateIterOK' /\ ReadyExpanded'
                   /\ op' \in OpType \cup {NoOp}
<1>1. /\ nknown_states \in 0 .. NumIds /\ min_unexpanded \in Nat /\ max_expanded \in Int
      /\ iters \in [AllIters -> [s : Ids \cup {NoStateId}, slot : Slots \cup {Null}]]
      /\ siter \in [on : BOOLEAN, s : Nat, u : Ids \cup {NoStateId}]
      /\ ImplTypeOK
  BY DEF DelayedInv, ImplTypeOK
<1>2. KnownIds \subseteq Ids /\ Iters \subseteq AllIters /\ StateIter \in AllIters
  BY <1>1, CacheConstants DEF KnownIds, Ids, AllIters
<1>3. MinUnexpandedState \in Nat
  BY <1>1, MinUnexpandedType
<1>4. CASE Start
  <2>1. Rest
    BY <1>4, StaysIdle DEF Start, Idle
  <2>2. nknown_states' \in 0 .. NumIds
    BY <1>1, <1>4, ForceStartType DEF Start
  <2> QED BY <1>1, <1>4, <2>1, <2>2 DEF DelayedInv, ImplTypeOK, Start
<1>5. CASE NewStateIterator
  <2>1. siter'.u = NoStateId /\ siter' \in [on : BOOLEAN, s : Nat, u : Ids \cup {NoStateId}]
    BY <1>5 DEF NewStateIterator
  <2>2. Rest
    BY <1>5, <2>1, StaysIdle DEF NewStateIterator, Idle
  <2>3. nknown_states' \in 0 .. NumIds
    BY <1>1, <1>5, ForceStartType DEF NewStateIterator
  <2> QED BY <1>1, <1>5, <2>1, <2>2, <2>3 DEF DelayedInv, ImplTypeOK, NewStateIterator
<1>6. CASE SIterNext
  <2>1. siter'.u = siter.u /\ siter' \in [on : BOOLEAN, s : Nat, u : Ids \cup {NoStateId}]
    BY <1>1, <1>6 DEF SIterNext
  <2>2. Rest
    BY <1>6, <2>1, StaysIdle DEF SIterNext, Idle
  <2> QED BY <1>1, <1>6, <2>1, <2>2 DEF DelayedInv, ImplTypeOK, SIterNext, implVars
<1>7. CASE SIterDone
  <2>1. siter'.u = NoStateId /\ siter' \in [on : BOOLEAN, s : Nat, u : Ids \cup {NoStateId}]
    BY <1>7 DEF SIterDone, NoSIter
  <2>2. Rest
    BY <1>7, <2>1, StaysIdle DEF SIterDone, Idle
  <2> QED BY <1>1, <1>3, <1>7, <2>1, <2>2 DEF DelayedInv, ImplTypeOK, SIterDone
<1>8. CASE \E s \in KnownIds, it \in Iters : ArcIterator(it, s)
  <2>1. PICK s \in KnownIds, it \in Iters : ArcIterator(it, s)
    BY <1>8
  <2>2. s \in Ids /\ it \in AllIters /\ it # StateIter
    BY <1>2, DelayedConstants
  <2>3. Begins("ArcIterator", s, it, "Pin")
    BY <2>1, <2>2 DEF ArcIterator, Begins
  <2>4. Rest
    BY <2>1, <2>2, <2>3, CallBegins DEF ArcIterator, Idle
  <2> QED BY <1>1, <2>1, <2>4 DEF DelayedInv, ImplTypeOK, ArcIterator, implVars
<1>9. CASE SIterExpand
  <2>1. MinUnexpandedState \in Ids
    BY <1>1, <1>3, <1>9, CacheConstants DEF SIterExpand, Ids
  <2> DEFINE u == MinUnexpandedState
  <2>2. siter'.u = u /\ siter' \in [on : BOOLEAN, s : Nat, u : Ids \cup {NoStateId}]
    BY <1>1, <1>9, <2>1 DEF SIterExpand
  <2>3. iters[StateIter] = NoIter
    BY <1>9 DEF DelayedInv, StateIterOK, SIterExpand, Idle
  <2>4. Begins("ArcIterator", u, StateIter, "Pin")
    BY <1>2, <1>9, <2>3 DEF SIterExpand, Begins
  <2>5. u # NoStateId
    BY <2>1, IdsInSlots
  <2> HIDE DEF u
  <2>6. Rest
    <3>1. PICK v \in Ids : v = u
      BY <2>1 DEF u
    <3>2. Begins("ArcIterator", v, StateIter, "Pin")
      BY <2>4, <3>1
    <3> QED BY <1>2, <1>9, <2>2, <2>5, <3>1, <3>2, CallBegins DEF SIterExpand, Idle
  <2>7. min_unexpanded' \in Nat
    BY <1>3, <1>9 DEF SIterExpand
  <2> QED BY <1>1, <1>9, <2>2, <2>6, <2>7 DEF DelayedInv, ImplTypeOK, SIterExpand
<1> QED BY <1>4, <1>5, <1>6, <1>7, <1>8, <1>9

LEMMA MissInv ==
  ASSUME DelayedInv, NEW s \in KnownIds,
         \/ Final(s) /\ ~HasFlag(s, "Final")
         \/ NumArcs(s) /\ ~HasFlag(s, "Arcs")
         \/ \E it \in Iters : InitArcIterator(it, s) /\ ~HasFlag(s, "Arcs")
  PROVE  DelayedInv'
<1> DEFINE Rest == /\ StoreInv' /\ Content' /\ ItersStored' /\ RefsAreIterators' /\ OpShape'
                   /\ OpIter' /\ OpState' /\ OpCollects' /\ StateIterOK' /\ ReadyExpanded'
                   /\ op' \in OpType \cup {NoOp}
<1>1. s \in Ids /\ Null # StateIter
  BY CacheConstants, DelayedConstants DEF KnownIds, Ids, DelayedInv, ImplTypeOK
<1>2. CASE Final(s) /\ ~HasFlag(s, "Final")
  <2>1. Begins("Final", s, Null, "SetFinal")
    BY <1>2 DEF Final, Begins
  <2>2. Rest
    BY <1>1, <1>2, <2>1, CallBegins DEF Final, Idle
  <2> QED BY <1>2, <2>2 DEF DelayedInv, ImplTypeOK, Final, implVars
<1>3. CASE NumArcs(s) /\ ~HasFlag(s, "Arcs")
  <2>1. Begins("NumArcs", s, Null, ExpandFrom(s))
    BY <1>3 DEF NumArcs, Begins
  <2>2. Rest
    BY <1>1, <1>3, <2>1, CallBegins DEF NumArcs, Idle
  <2> QED BY <1>3, <2>2 DEF DelayedInv, ImplTypeOK, NumArcs, implVars
<1>4. ASSUME NEW it \in Iters, InitArcIterator(it, s), ~HasFlag(s, "Arcs")
      PROVE  DelayedInv'
  <2>1. it \in AllIters /\ it # StateIter
    BY DelayedConstants DEF AllIters
  <2>2. Begins("InitArcIterator", s, it, ExpandFrom(s))
    BY <1>4 DEF InitArcIterator, Begins
  <2>3. Rest
    BY <1>1, <1>4, <2>1, <2>2, CallBegins DEF InitArcIterator, Idle
  <2> QED BY <1>4, <2>3 DEF DelayedInv, ImplTypeOK, InitArcIterator, implVars
<1> QED BY <1>2, <1>3, <1>4

-------------------------------------------------------------------------------
ItersType == [AllIters -> [s : Ids \cup {NoStateId}, slot : Slots \cup {Null}]]

\* A step that changes one cached state in its place.
LEMMA InPlace ==
  ASSUME StoreInv, NEW slot \in Slots, state_vec[slot] # Null, NEW st \in CacheState,
         state_vec' = [state_vec EXCEPT ![slot] = st], first_id' = first_id
  PROVE  /\ state_vec'[slot] = st /\ st # Null
         /\ \A t \in Slots : t # slot => state_vec'[t] = state_vec[t]
         /\ \A t \in Slots : t # slot /\ state_vec[t] # Null => KeptIn(t)
         /\ SameState(state_vec[slot], st) => KeptIn(slot)
         /\ \A t \in Slots : (state_vec'[t] = Null) = (state_vec[t] = Null)
         /\ \A t \in Slots : Value(t)' = Value(t)
         /\ \A s \in Ids : SlotOf(s)' = SlotOf(s)
<1>1. st # Null
  BY NullAssumption
<1>2. /\ state_vec'[slot] = st
      /\ \A t \in Slots : t # slot => state_vec'[t] = state_vec[t]
  BY DEF StoreInv, StoreTypeOK
<1>3. \A t \in Slots : Value(t)' = Value(t)
  BY DEF Value
<1>4. \A s \in Ids : SlotOf(s)' = SlotOf(s)
  BY DEF SlotOf
<1>5. \A t \in Slots : t # slot /\ state_vec[t] # Null => KeptIn(t)
  BY <1>2, <1>3 DEF KeptIn, SameState
<1>6. SameState(state_vec[slot], st) => KeptIn(slot)
  BY <1>1, <1>2, <1>3 DEF KeptIn
<1> QED BY <1>1, <1>2, <1>3, <1>4, <1>5, <1>6

\* An iterator is opened or closed while every cached state stays in its place.
LEMMA ItersInPlace ==
  ASSUME ItersStored, iters \in ItersType, first_id' = first_id,
         \A t \in Slots : (state_vec'[t] = Null) = (state_vec[t] = Null),
         NEW it \in AllIters, NEW new,
         new = NoIter \/ \E s \in Ids : Stored(s) /\ new = [s |-> s, slot |-> SlotOf(s)],
         iters' = [iters EXCEPT ![it] = new],
         \A s \in Ids : SlotOf(s) \in Slots
  PROVE  ItersStored' /\ iters' \in ItersType
<1>1. \A s : SlotOf(s)' = SlotOf(s)
  BY DEF SlotOf
<1>2. iters' \in ItersType
  <2>1. new \in [s : Ids \cup {NoStateId}, slot : Slots \cup {Null}]
    BY DEF NoIter
  <2> QED BY <2>1 DEF ItersType
<1>3. ASSUME NEW i \in AllIters, i # it
      PROVE  /\ iters'[i] = iters[i]
             /\ IF iters[i].slot = Null THEN iters[i] = NoIter
                ELSE /\ iters[i].s \in Ids
                     /\ iters[i].slot = SlotOf(iters[i].s)
                     /\ state_vec'[iters[i].slot] # Null
  <2>1. iters'[i] = iters[i]
    BY <1>3 DEF ItersType
  <2>2. iters[i].slot # Null => iters[i].slot \in Slots
    BY DEF ItersType
  <2> QED BY <2>1, <2>2 DEF ItersStored
<1>4. iters'[it] = new
  BY DEF ItersType
<1>5. IF new.slot = Null THEN new = NoIter
      ELSE new.s \in Ids /\ new.slot = SlotOf(new.s) /\ state_vec'[new.slot] # Null
  <2>1. CASE new = NoIter
    BY <2>1 DEF NoIter
  <2>2. CASE \E s \in Ids : Stored(s) /\ new = [s |-> s, slot |-> SlotOf(s)]
    BY <2>2, IdsInSlots DEF Stored
  <2> QED BY <2>1, <2>2
<1>6. ItersStored'
  <2> SUFFICES ASSUME NEW i \in AllIters
               PROVE  IF iters'[i].slot = Null THEN iters'[i] = NoIter
                      ELSE /\ iters'[i].s \in Ids
                           /\ iters'[i].slot = SlotOf(iters[i].s)'
                           /\ state_vec'[iters'[i].slot] # Null
    BY DEF ItersStored
  <2>1. SlotOf(iters[i].s)' = SlotOf(iters'[i].s)
    BY DEF SlotOf
  <2>2. CASE i = it
    BY <1>4, <1>5, <2>1, <2>2
  <2>3. CASE i # it
    BY <1>3, <2>1, <2>3
  <2> QED BY <2>2, <2>3
<1> QED BY <1>2, <1>6

\* A query of a state whose answer is cached.
LEMMA HitInv ==
  ASSUME DelayedInv, NEW s \in KnownIds,
         \/ Final(s) /\ HasFlag(s, "Final")
         \/ NumArcs(s) /\ HasFlag(s, "Arcs")
  PROVE  DelayedInv'
<1> DEFINE slot == SlotOf(s)
           st   == [state_vec[slot] EXCEPT !.flags = @ \cup {"Recent"}]
<1>1. s \in Ids
  BY CacheConstants DEF KnownIds, Ids, DelayedInv, ImplTypeOK
<1>2. /\ Idle /\ state_vec' = Recent(slot)
      /\ UNCHANGED <<StoreRest, op, implVars, iters, siter>> /\ Stored(s)
  BY DEF Final, NumArcs, HasFlag
<1>3. StoreInv /\ slot \in Slots /\ state_vec[slot] # Null /\ state_vec[slot] \in CacheState
  BY <1>1, <1>2, SlotValue DEF DelayedInv, Stored, StoreInv, StoreTypeOK
<1>4. st \in CacheState /\ SameState(state_vec[slot], st) /\ st.flags = state_vec[slot].flags \cup {"Recent"}
  BY <1>3 DEF CacheState, CacheFlags, SameState
<1>5. state_vec' = [state_vec EXCEPT ![slot] = st]
  BY <1>2 DEF Recent
<1>6. /\ UNCHANGED <<state_list, first_gc, first_id, gc_on, cache_size, cache_limit, ptr, gc>>
      /\ op = NoOp /\ op' = NoOp /\ ~gc.on /\ siter.u = NoStateId
  BY <1>2 DEF StoreRest, Idle
<1> HIDE DEF st, slot
<1>7. StoreInv'
  BY <1>3, <1>4, <1>5, <1>6, UpdateOneState
     DEF StoreInv, StoreTypeOK, GCType
<1>8. /\ \A t \in Slots : state_vec[t] # Null => KeptIn(t)
      /\ \A t \in Slots : (state_vec'[t] = Null) = (state_vec[t] = Null)
  BY <1>3, <1>4, <1>5, <1>6, InPlace
<1>9. Content'
  <2>1. \A t : Pushed(t) = <<>> /\ EpsSet(t) = 0
    BY <1>6, NoProgress
  <2>2. \A t : Pushed(t)' = <<>> /\ EpsSet(t)' = 0
    BY <1>6, NoProgressNext
  <2> QED BY <1>8, <2>1, <2>2, KeptSame, ContentStep DEF DelayedInv
<1>10. Spares
  BY <1>8 DEF Spares
<1>11. ItersStored' /\ \A it \in AllIters : iters[it].slot # Null => KeptIn(iters[it].slot)
  BY <1>2, <1>3, <1>7, <1>10, SparesIters DEF DelayedInv
<1>12. RefsAreIterators'
  BY <1>2, <1>8, RefsKept DEF DelayedInv, KeptIn, SameState
<1>13. OpShape' /\ OpIter' /\ OpState' /\ OpCollects' /\ StateIterOK' /\ ImplTypeOK'
  BY <1>2, <1>6 DEF OpShape, OpIter, OpState, OpCollects, StateIterOK, DelayedInv, ImplTypeOK,
     implVars
<1>14. ReadyExpanded'
  <2> SUFFICES ASSUME NEW it \in Iters, Ready(it)'
               PROVE  "Arcs" \in state_vec'[iters[it].slot].flags
    BY <1>2 DEF ReadyExpanded
  <2>1. Ready(it) /\ it \in AllIters /\ iters[it].slot # Null
    BY <1>2, <1>6 DEF Ready, AllIters
  <2>2. KeptIn(iters[it].slot) /\ "Arcs" \in state_vec[iters[it].slot].flags
    BY <1>11, <2>1 DEF DelayedInv, ReadyExpanded
  <2> QED BY <2>2 DEF KeptIn, SameState
<1> QED BY <1>7, <1>9, <1>11, <1>12, <1>13, <1>14 DEF DelayedInv

\* The facts about the cached states that opening and closing an iterator keeps.
LEMMA RefStep ==
  ASSUME DelayedInv, op = NoOp \/ op.f = "Return" \/ op.f = "Pin",
         NEW slot \in Slots, state_vec[slot] # Null,
         NEW st \in CacheState, SameState([state_vec[slot] EXCEPT !.ref = st.ref], st),
         "Init" \in state_vec[slot].flags => "Init" \in st.flags,
         state_vec' = [state_vec EXCEPT ![slot] = st],
         UNCHANGED StoreRest,
         op' = NoOp \/ op'.f \notin {"PushArc", "SetArcs", "MarkArcs"}
           \/ \A s : Pushed(s)' = <<>> /\ EpsSet(s)' = 0
  PROVE  /\ StoreInv' /\ Content'
         /\ \A t \in Slots : (state_vec'[t] = Null) = (state_vec[t] = Null)
         /\ state_vec'[slot].ref = st.ref
         /\ \A t \in Slots \ {slot} : state_vec'[t] = state_vec[t]
         /\ \A t \in Slots : state_vec[t] # Null => SameIn(t)
<1>1. /\ UNCHANGED <<state_list, first_gc, first_id, gc_on, cache_size, cache_limit, ptr, gc>>
      /\ StoreInv /\ state_vec \in [Slots -> CacheState \cup {Null}]
  BY DEF StoreRest, DelayedInv, StoreInv, StoreTypeOK
<1>2. StoreInv'
  BY <1>1, UpdateOneState DEF StoreInv, StoreTypeOK, GCType, FirstSlotExclusive
<1>3. /\ state_vec'[slot] = st
      /\ \A t \in Slots : t # slot => state_vec'[t] = state_vec[t]
      /\ \A t \in Slots : t # slot /\ state_vec[t] # Null => KeptIn(t)
      /\ \A t \in Slots : (state_vec'[t] = Null) = (state_vec[t] = Null)
      /\ \A t \in Slots : Value(t)' = Value(t)
  BY <1>1, InPlace
<1>4. state_vec[slot] \in CacheState
  BY <1>1
<1>5. SameIn(slot)
  <2>1. LET a == state_vec[slot]
        IN  /\ st.arcs = a.arcs /\ st.neps = a.neps /\ st.final = a.final
            /\ "Final" \in st.flags <=> "Final" \in a.flags
            /\ "Arcs" \in st.flags <=> "Arcs" \in a.flags
    BY <1>4 DEF SameState, CacheState
  <2> QED BY <1>3, <2>1 DEF SameIn
<1>6. \A t \in Slots : state_vec[t] # Null => SameIn(t)
  BY <1>3, <1>5, KeptSame
<1>7. \A t : Pushed(t) = <<>> /\ EpsSet(t) = 0
  BY NoProgress
<1>8. \A t : Pushed(t)' = <<>> /\ EpsSet(t)' = 0
  BY NoProgressNext
<1>9. Content'
  BY <1>3, <1>6, <1>7, <1>8, ContentStep DEF DelayedInv
<1> QED BY <1>2, <1>3, <1>6, <1>9

\* A state with one reference more or less.
LEMMA RefState ==
  ASSUME NEW a \in CacheState, NEW ref \in Int, NEW flags \in SUBSET CacheFlags,
         flags = a.flags \/ flags = a.flags \cup {"Recent"}
  PROVE  LET st == [a EXCEPT !.ref = ref, !.flags = flags]
         IN  /\ st \in CacheState /\ st.ref = ref /\ SameState([a EXCEPT !.ref = st.ref], st)
             /\ "Init" \in a.flags => "Init" \in st.flags
BY DEF CacheState, CacheFlags, SameState

\* The iterators that stay open are on the states they were on.
LEMMA ReadyStep ==
  ASSUME DelayedInv, NEW it \in AllIters, iters' = [iters EXCEPT ![it] = iters'[it]],
         \A t \in Slots : state_vec[t] # Null => SameIn(t),
         \A i \in Iters : i # it /\ Ready(i)' => Ready(i),
         it \in Iters /\ Ready(it)' => "Arcs" \in state_vec'[iters'[it].slot].flags
  PROVE  ReadyExpanded'
<1> SUFFICES ASSUME NEW i \in Iters, Ready(i)'
             PROVE  "Arcs" \in state_vec'[iters'[i].slot].flags
  BY DEF ReadyExpanded
<1>1. iters \in [AllIters -> [s : Ids \cup {NoStateId}, slot : Slots \cup {Null}]]
      /\ i \in AllIters
  BY DEF DelayedInv, ImplTypeOK, AllIters
<1>2. CASE i # it
  <2>1. Ready(i) /\ iters'[i] = iters[i] /\ iters[i].slot # Null
    BY <1>1, <1>2 DEF Ready
  <2>2. PICK t \in Slots : t = iters[i].slot /\ state_vec[t] # Null
    BY <1>1, <2>1, IterPins DEF DelayedInv
  <2>3. "Arcs" \in state_vec[t].flags /\ SameIn(t)
    BY <2>1, <2>2 DEF DelayedInv, ReadyExpanded
  <2> QED BY <2>1, <2>2, <2>3 DEF SameIn
<1> QED BY <1>2

LEMMA InitHitInv ==
  ASSUME DelayedInv, NEW s \in KnownIds, NEW it \in Iters,
         InitArcIterator(it, s), HasFlag(s, "Arcs")
  PROVE  DelayedInv'
<1>1. s \in Ids /\ it \in AllIters /\ it # StateIter /\ StateIter \in AllIters
  BY CacheConstants, DelayedConstants DEF KnownIds, Ids, AllIters, DelayedInv, ImplTypeOK
<1>2. /\ Idle /\ iters[it] = NoIter /\ answer' = NoAnswer
      /\ state_vec' = IncrRefOf(SlotOf(s), Recent(SlotOf(s)))
      /\ iters' = [iters EXCEPT ![it] = [s |-> s, slot |-> SlotOf(s)]]
      /\ UNCHANGED <<StoreRest, op, implVars, siter>>
      /\ Stored(s) /\ "Arcs" \in state_vec[SlotOf(s)].flags
  BY DEF InitArcIterator, HasFlag
<1>3. PICK slot \in Slots : slot = SlotOf(s) /\ state_vec[slot] # Null
  BY <1>1, <1>2, SlotValue DEF DelayedInv, Stored
<1>4. /\ StoreInv /\ state_vec \in [Slots -> CacheState \cup {Null}]
      /\ iters \in ItersType /\ state_vec[slot] \in CacheState
  BY <1>3 DEF DelayedInv, StoreInv, StoreTypeOK, ImplTypeOK, ItersType
<1> DEFINE a  == state_vec[slot]
           st == [a EXCEPT !.ref = a.ref + 1, !.flags = a.flags \cup {"Recent"}]
<1>5. /\ st \in CacheState /\ st.ref = a.ref + 1 /\ SameState([a EXCEPT !.ref = st.ref], st)
      /\ "Init" \in a.flags => "Init" \in st.flags
  <2>1. a.ref + 1 \in Int /\ a.flags \cup {"Recent"} \in SUBSET CacheFlags
    BY <1>4 DEF CacheState, CacheFlags
  <2> QED BY <1>4, <2>1, RefState
<1>6. state_vec' = [state_vec EXCEPT ![slot] = st]
  <2>1. Recent(slot) = [state_vec EXCEPT ![slot] = [a EXCEPT !.flags = a.flags \cup {"Recent"}]]
    BY DEF Recent
  <2>2. Recent(slot)[slot] = [a EXCEPT !.flags = a.flags \cup {"Recent"}]
    BY <1>4, <2>1
  <2>3. state_vec' = [Recent(slot) EXCEPT ![slot] = [Recent(slot)[slot] EXCEPT !.ref = a.ref + 1]]
    BY <1>2, <1>3, <1>4, <2>2 DEF IncrRefOf, CacheState
  <2>4. st = [[a EXCEPT !.flags = a.flags \cup {"Recent"}] EXCEPT !.ref = a.ref + 1]
    BY <1>4 DEF CacheState
  <2> HIDE DEF a, st
  <2> QED BY <1>4, <2>1, <2>2, <2>3, <2>4
<1> HIDE DEF st
<1>7. op = NoOp /\ op' = NoOp /\ ~gc.on /\ siter.u = NoStateId /\ UNCHANGED <<first_id, ptr, gc>>
  BY <1>2 DEF Idle, StoreRest
<1>8. /\ StoreInv' /\ Content'
      /\ \A t \in Slots : (state_vec'[t] = Null) = (state_vec[t] = Null)
      /\ state_vec'[slot].ref = st.ref
      /\ \A t \in Slots \ {slot} : state_vec'[t] = state_vec[t]
      /\ \A t \in Slots : state_vec[t] # Null => SameIn(t)
  BY <1>2, <1>3, <1>5, <1>6, <1>7, RefStep
<1>9. \A r \in Ids : SlotOf(r) \in Slots
  BY <1>4, SlotValue
<1>10. ItersStored' /\ iters' \in ItersType
  BY <1>1, <1>2, <1>4, <1>7, <1>8, <1>9, ItersInPlace DEF DelayedInv
<1>11. RefsAreIterators'
  <2>1. iters[it].slot = Null /\ iters' = [iters EXCEPT ![it] = [s |-> s, slot |-> slot]]
    BY <1>2, <1>3 DEF NoIter
  <2>2. state_vec'[slot].ref = state_vec[slot].ref + 1
    BY <1>5, <1>8
  <2> QED BY <1>1, <1>3, <1>4, <1>8, <2>1, <2>2, RefsOpened DEF DelayedInv, ItersType
<1>12. iters'[StateIter] = iters[StateIter] /\ iters'[it].slot = slot
  BY <1>1, <1>2, <1>3, <1>4 DEF ItersType
<1>13. OpShape' /\ OpIter' /\ OpState' /\ OpCollects' /\ StateIterOK'
  BY <1>2, <1>7, <1>12 DEF OpShape, OpIter, OpState, OpCollects, StateIterOK, DelayedInv
<1>14. ReadyExpanded'
  <2>1. iters' = [iters EXCEPT ![it] = iters'[it]]
    BY <1>1, <1>2, <1>4 DEF ItersType
  <2>2. \A i \in Iters : i # it /\ Ready(i)' => Ready(i)
    BY <1>2, <1>4, <1>7 DEF Ready, AllIters, ItersType
  <2>3. SameIn(slot) /\ "Arcs" \in state_vec[slot].flags
    BY <1>2, <1>3, <1>8
  <2>4. "Arcs" \in state_vec'[iters'[it].slot].flags
    BY <1>12, <2>3 DEF SameIn
  <2> QED BY <1>1, <1>8, <2>1, <2>2, <2>4, ReadyStep
<1>15. ImplTypeOK'
  BY <1>2, <1>10 DEF ImplTypeOK, DelayedInv, implVars, ItersType
<1> QED BY <1>8, <1>10, <1>11, <1>13, <1>14, <1>15 DEF DelayedInv

\* An iterator is destroyed: by the client, or at the end of Done().
LEMMA CloseStep ==
  ASSUME DelayedInv, op = NoOp, op' = NoOp, NEW it \in AllIters, iters[it].slot # Null,
         state_vec' = [state_vec EXCEPT ![iters[it].slot].ref = @ - 1],
         iters' = [iters EXCEPT ![it] = NoIter],
         UNCHANGED StoreRest, ~gc.on,
         siter.u = NoStateId \/ it = StateIter, siter'.u = NoStateId
  PROVE  /\ StoreInv' /\ Content' /\ ItersStored' /\ RefsAreIterators' /\ OpShape'
         /\ OpIter' /\ OpState' /\ OpCollects' /\ StateIterOK' /\ ReadyExpanded'
         /\ iters' \in ItersType
<1>1. PICK slot \in Slots : slot = iters[it].slot /\ state_vec[slot] # Null
  BY IterPins DEF DelayedInv
<1>2. /\ StoreInv /\ state_vec \in [Slots -> CacheState \cup {Null}]
      /\ iters \in ItersType /\ state_vec[slot] \in CacheState /\ UNCHANGED <<first_id, ptr, gc>>
  BY <1>1 DEF DelayedInv, StoreInv, StoreTypeOK, ImplTypeOK, ItersType, StoreRest
<1> DEFINE a  == state_vec[slot]
           st == [a EXCEPT !.ref = a.ref - 1, !.flags = a.flags]
<1>3. /\ st \in CacheState /\ st.ref = a.ref - 1 /\ SameState([a EXCEPT !.ref = st.ref], st)
      /\ "Init" \in a.flags => "Init" \in st.flags
  <2>1. a.ref - 1 \in Int /\ a.flags \in SUBSET CacheFlags
    BY <1>2 DEF CacheState
  <2> QED BY <1>2, <2>1, RefState
<1>4. state_vec' = [state_vec EXCEPT ![slot] = st]
  <2>1. st = [a EXCEPT !.ref = a.ref - 1]
    BY <1>2 DEF CacheState
  <2>2. state_vec' = [state_vec EXCEPT ![slot] = [a EXCEPT !.ref = a.ref - 1]]
    BY <1>1
  <2> QED BY <2>1, <2>2
<1> HIDE DEF st
<1>5. /\ StoreInv' /\ Content'
      /\ \A t \in Slots : (state_vec'[t] = Null) = (state_vec[t] = Null)
      /\ state_vec'[slot].ref = st.ref
      /\ \A t \in Slots \ {slot} : state_vec'[t] = state_vec[t]
      /\ \A t \in Slots : state_vec[t] # Null => SameIn(t)
  BY <1>1, <1>3, <1>4, RefStep
<1>6. \A r \in Ids : SlotOf(r) \in Slots
  BY <1>2, SlotValue
<1>7. ItersStored' /\ iters' \in ItersType
  BY <1>2, <1>5, <1>6, ItersInPlace DEF DelayedInv
<1>8. RefsAreIterators'
  <2>1. state_vec'[slot].ref = state_vec[slot].ref - 1
    BY <1>3, <1>5
  <2> QED BY <1>1, <1>2, <1>5, <2>1, RefsClosed DEF DelayedInv, ItersType
<1>9. iters'[it] = NoIter /\ (it # StateIter => iters'[StateIter] = iters[StateIter])
  BY <1>2 DEF ItersType, AllIters
<1>10. OpShape' /\ OpIter' /\ OpState' /\ OpCollects' /\ StateIterOK'
  BY <1>2, <1>9 DEF OpShape, OpIter, OpState, OpCollects, StateIterOK, DelayedInv
<1>11. ReadyExpanded'
  <2>1. iters' = [iters EXCEPT ![it] = iters'[it]]
    BY <1>2, <1>9 DEF ItersType
  <2>2. \A i \in Iters : i # it /\ Ready(i)' => Ready(i)
    BY <1>2 DEF Ready, AllIters, ItersType
  <2>3. ~Ready(it)'
    BY <1>9 DEF Ready, NoIter
  <2> QED BY <1>5, <2>1, <2>2, <2>3, ReadyStep
<1> QED BY <1>5, <1>7, <1>8, <1>10, <1>11

LEMMA CloseIterInv ==
  ASSUME DelayedInv, NEW it \in Iters, CloseIter(it)
  PROVE  DelayedInv'
<1>1. it \in AllIters
  BY DEF AllIters
<1>2. iters[it].slot # Null
  BY <1>1 DEF DelayedInv, ItersStored, CloseIter
<1>3. /\ op = NoOp /\ op' = NoOp /\ ~gc.on /\ siter.u = NoStateId /\ siter' = siter
      /\ UNCHANGED <<StoreRest, implVars>>
      /\ iters' = [iters EXCEPT ![it] = NoIter]
      /\ state_vec' = [state_vec EXCEPT ![iters[it].slot].ref = @ - 1]
  BY DEF CloseIter, Idle
<1>4. /\ StoreInv' /\ Content' /\ ItersStored' /\ RefsAreIterators' /\ OpShape'
      /\ OpIter' /\ OpState' /\ OpCollects' /\ StateIterOK' /\ ReadyExpanded'
      /\ iters' \in ItersType
  BY <1>1, <1>2, <1>3, CloseStep
<1>5. ImplTypeOK'
  BY <1>3, <1>4 DEF ImplTypeOK, DelayedInv, ItersType, implVars
<1> QED BY <1>4, <1>5 DEF DelayedInv

LEMMA SetExpandedType ==
  ASSUME ImplTypeOK, NEW s \in Ids, SetExpandedState(s)
  PROVE  min_unexpanded' \in Nat /\ max_expanded' \in Int
BY IdsInSlots DEF ImplTypeOK, SetExpandedState

LEMMA SIterScanInv ==
  ASSUME DelayedInv, SIterScan
  PROVE  DelayedInv'
<1>1. StateIter \in AllIters
  BY DEF AllIters
<1>2. iters[StateIter].slot # Null
  BY DEF DelayedInv, StateIterOK, SIterScan
<1>3. siter \in [on : BOOLEAN, s : Nat, u : Ids \cup {NoStateId}] /\ siter.u \in Ids
  BY DEF DelayedInv, ImplTypeOK, SIterScan
<1>4. siter'.u = NoStateId /\ siter' \in [on : BOOLEAN, s : Nat, u : Ids \cup {NoStateId}]
  BY <1>3 DEF SIterScan
<1>5. /\ StoreInv' /\ Content' /\ ItersStored' /\ RefsAreIterators' /\ OpShape'
      /\ OpIter' /\ OpState' /\ OpCollects' /\ StateIterOK' /\ ReadyExpanded'
      /\ iters' \in ItersType
  BY <1>1, <1>2, <1>4, CloseStep DEF SIterScan
<1>6. min_unexpanded' \in Nat /\ max_expanded' \in Int
  <2>1. PICK u \in Ids : u = siter.u
    BY <1>3
  <2>2. SetExpandedState(u)
    BY <2>1 DEF SIterScan, SetExpandedState
  <2> QED BY <2>2, SetExpandedType DEF DelayedInv
<1>7. nknown_states' \in 0 .. NumIds
  <2>1. PICK t \in Slots : t = iters[StateIter].slot /\ state_vec[t] # Null
    BY <1>1, <1>2, IterPins DEF DelayedInv
  <2>2. state_vec[t].arcs \in Seq(Arcs)
    BY <2>1, StateFields DEF DelayedInv, StoreInv, StoreTypeOK
  <2> QED BY <2>1, <2>2, KnownArcsType DEF SIterScan, DelayedInv, ImplTypeOK
<1>8. op' = NoOp
  BY DEF SIterScan
<1> QED BY <1>4, <1>5, <1>6, <1>7, <1>8 DEF DelayedInv, ImplTypeOK, ItersType

-------------------------------------------------------------------------------
\* The steps of a call that fills the cache.
LEMMA OpType1 ==
  ASSUME DelayedInv, op # NoOp
  PROVE  /\ op \in OpType /\ op.s \in Ids /\ op.f \in Functions /\ op.name \in Names
         /\ op.it \in AllIters \cup {Null}
         /\ \A s \in Ids : s # op.s => Pushed(s) = <<>> /\ EpsSet(s) = 0
<1>1. op \in OpType
  BY DEF DelayedInv, ImplTypeOK
<1> QED BY <1>1, OpFields, NoProgress

LEMMA LookupInv ==
  ASSUME DelayedInv, Lookup
  PROVE  DelayedInv'
<1>1. /\ op # NoOp /\ op.stage = "get" /\ GetMutableState(op.s)
      /\ op' = [op EXCEPT !.stage = "act"] /\ UNCHANGED <<implVars, iters, siter, answer>>
  BY DEF Lookup, clientVars
<1>2. /\ op \in OpType /\ op.s \in Ids /\ op.f \in Functions /\ op.name \in Names
      /\ op.i \in Nat
  BY <1>1, OpType1, OpFields
<1>3. /\ op' \in OpType /\ op' # NoOp /\ op'.name = op.name /\ op'.s = op.s
      /\ op'.it = op.it /\ op'.f = op.f /\ op'.i = op.i /\ op'.stage = "act"
  <2>1. /\ op' \in OpType /\ op'.name = op.name /\ op'.s = op.s
        /\ op'.it = op.it /\ op'.f = op.f /\ op'.i = op.i /\ op'.stage = "act"
    BY <1>1, <1>2 DEF OpType
  <2> QED BY <2>1, OpFields
<1>4. op.f # "MarkArcs" /\ op.f # "Return"
  BY <1>1 DEF DelayedInv, OpShape
<1>5. PICK s \in Ids : s = op.s
  BY <1>2
<1>6. GetMutableState(s)
  BY <1>1, <1>5
<1>7. PICK slot \in Slots :
        /\ ptr' = slot /\ SlotOf(s)' = slot /\ state_vec'[slot] # Null
        /\ Evolves(slot)
        /\ Stored(s) => slot = SlotOf(s) /\ KeptIn(slot)
  BY <1>6, LookupEvolves DEF DelayedInv
<1>8. StoreInv /\ StoreInv'
  BY <1>6, GetMutableStateInv DEF DelayedInv
<1>9. \A r : Pushed(r)' = Pushed(r) /\ EpsSet(r)' = EpsSet(r) /\ Expanding(r)' = Expanding(r)
  BY <1>1, <1>3 DEF Pushed, EpsSet, Expanding
<1>10. Value(slot)' = s
  BY <1>5, <1>7, <1>8, SlotValueNext DEF Stored
<1>11. ~KeptIn(slot) => ~Stored(s) /\ Pushed(s) = <<>> /\ EpsSet(s) = 0
  <2>1. ~Stored(s) => Pushed(s) = <<>>
    BY <1>1, <1>5 DEF DelayedInv, OpState
  <2>2. EpsSet(s) = 0
    BY <1>4 DEF EpsSet
  <2> QED BY <1>7, <2>1, <2>2
<1>12. Content'
  <2> SUFFICES ASSUME NEW t \in Slots, state_vec'[t] # Null
               PROVE  \/ /\ SameIn(t)
                         /\ Pushed(Value(t))' = Pushed(Value(t))
                         /\ EpsSet(Value(t))' = EpsSet(Value(t))
                      \/ StateOK(state_vec[t], Value(t))'
    BY ContentStep DEF DelayedInv
  <2>1. CASE KeptIn(t)
    <3>1. PICK v : v = Value(t) /\ Value(t)' = v
      BY <2>1 DEF KeptIn
    <3>2. Pushed(v)' = Pushed(v) /\ EpsSet(v)' = EpsSet(v)
      BY <1>9
    <3>3. Pushed(Value(t))' = Pushed(Value(t)) /\ EpsSet(Value(t))' = EpsSet(Value(t))
      BY <3>1, <3>2 DEF Pushed, EpsSet, Expanding
    <3> QED BY <2>1, <3>3, KeptSame
  <2>2. CASE ~KeptIn(t)
    <3>1. t = slot /\ Blank(state_vec'[t])
      BY <1>7, <2>2 DEF Evolves, NewIn
    <3>2. Pushed(s)' = <<>> /\ EpsSet(s)' = 0
      BY <1>9, <1>11, <2>2, <3>1
    <3>3. Pushed(Value(t))' = <<>> /\ EpsSet(Value(t))' = 0
      BY <1>10, <3>1, <3>2 DEF Pushed, EpsSet, Expanding
    <3> QED BY <3>1, <3>3 DEF Blank, StateOK
  <2> QED BY <2>1, <2>2
<1>13. Spares
  BY <1>7 DEF Evolves, Spares
<1>14. ItersStored' /\ \A it \in AllIters : iters[it].slot # Null => KeptIn(iters[it].slot)
  BY <1>1, <1>8, <1>13, SparesIters DEF DelayedInv
<1>15. RefsAreIterators'
  <2> SUFFICES ASSUME NEW t \in Slots, state_vec'[t] # Null
               PROVE  \/ state_vec[t] # Null /\ state_vec'[t].ref = state_vec[t].ref
                      \/ On(t) = {} /\ state_vec'[t].ref = 0
    BY <1>1, RefsKept DEF DelayedInv
  <2>1. CASE KeptIn(t)
    BY <2>1 DEF KeptIn, SameState
  <2>2. CASE ~KeptIn(t)
    <3>1. state_vec'[t].ref = 0 /\ (state_vec[t] = Null \/ state_vec[t].ref = 0)
      BY <1>7, <2>2 DEF Evolves, NewIn, Blank
    <3>2. \A it \in AllIters : iters[it].slot # t
      BY <3>1, IterPins, IdsInSlots DEF DelayedInv
    <3> QED BY <3>1, <3>2 DEF On
  <2> QED BY <2>1, <2>2
<1>16. OpShape' /\ OpIter' /\ OpCollects' /\ StateIterOK'
  <2>1. OpShape'
    BY <1>1, <1>3 DEF DelayedInv, OpShape
  <2>2. OpIter'
    BY <1>1, <1>3 DEF DelayedInv, OpIter
  <2>3. OpCollects'
    BY <1>3, <1>4 DEF OpCollects
  <2>4. StateIterOK'
    BY <1>1, <1>3 DEF DelayedInv, StateIterOK
  <2> QED BY <2>1, <2>2, <2>3, <2>4
<1>17. OpState'
  <2>1. ptr' # Null /\ ptr' = SlotOf(op.s)' /\ Stored(op.s)'
    BY <1>3, <1>5, <1>7, IdsInSlots DEF SlotOf, Stored
  <2>2. Expanding(op.s)' => "Arcs" \notin state_vec'[SlotOf(op.s)'].flags
    <3>1. Expanding(op.s)' = Expanding(s)
      BY <1>1, <1>3, <1>5 DEF Expanding
    <3>2. CASE KeptIn(slot) /\ Stored(s) /\ slot = SlotOf(s)
      <4>1. Expanding(s) => "Arcs" \notin state_vec[slot].flags
        BY <1>1, <1>5, <3>2 DEF DelayedInv, OpState
      <4> QED BY <1>7, <2>1, <3>1, <3>2, <4>1 DEF KeptIn, SameState
    <3>3. CASE ~Stored(s)
      <4>1. Blank(state_vec'[slot]) \/ KeptIn(slot)
        BY <1>7 DEF Evolves, NewIn
      <4>2. CASE KeptIn(slot)
        <5>1. Value(slot) = s /\ state_vec[slot] # Null
          BY <1>10, <4>2 DEF KeptIn
        <5>2. slot = SlotOf(Value(slot))
          BY <1>8, <5>1, SlotValue
        <5>3. Stored(s)
          BY <5>1, <5>2 DEF Stored
        <5> QED BY <3>3, <5>3
      <4> QED BY <1>7, <2>1, <4>1, <4>2 DEF Blank
    <3> QED BY <1>7, <3>2, <3>3
  <2> QED BY <1>3, <1>4, <2>1, <2>2 DEF OpState
<1>18. ReadyExpanded'
  <2> SUFFICES ASSUME NEW it \in Iters, Ready(it)'
               PROVE  "Arcs" \in state_vec'[iters[it].slot].flags
    BY <1>1 DEF ReadyExpanded
  <2>1. Ready(it) /\ it \in AllIters /\ iters[it].slot # Null
    BY <1>1, <1>3 DEF Ready, AllIters
  <2>2. KeptIn(iters[it].slot) /\ "Arcs" \in state_vec[iters[it].slot].flags
    BY <1>14, <2>1 DEF DelayedInv, ReadyExpanded
  <2> QED BY <2>2 DEF KeptIn, SameState
<1>19. ImplTypeOK'
  BY <1>1, <1>3 DEF DelayedInv, ImplTypeOK, implVars
<1> QED BY <1>8, <1>12, <1>14, <1>15, <1>16, <1>17, <1>18, <1>19 DEF DelayedInv

\* A collection during a call keeps the state of the call.
LEMMA CollectInv ==
  ASSUME DelayedInv, Collect
  PROVE  DelayedInv'
<1>1. /\ GCStep /\ UNCHANGED <<implVars, op, iters, siter, answer>>
      /\ StoreInv
  BY DEF Collect, clientVars, DelayedInv
<1>2. /\ ptr' = ptr /\ gc.on
      /\ \A t \in Slots : state_vec'[t] # Null => KeptIn(t)
      /\ Spares
      /\ \A t \in Slots : t = ptr => KeptIn(t)
  BY <1>1, CollectEvolves
<1>3. StoreInv'
  BY <1>1, StoreNextInv DEF StoreNext
<1>4. op # NoOp /\ op.stage = "act" /\ op.f # "Return" /\ op.s \in Ids
  BY <1>2, OpType1 DEF DelayedInv, OpCollects
<1>5. Content'
  <2> SUFFICES ASSUME NEW t \in Slots, state_vec'[t] # Null
               PROVE  /\ SameIn(t)
                      /\ Pushed(Value(t))' = Pushed(Value(t))
                      /\ EpsSet(Value(t))' = EpsSet(Value(t))
    BY ContentStep DEF DelayedInv
  <2>1. KeptIn(t) /\ SameIn(t) /\ Value(t)' = Value(t)
    BY <1>2, KeptSame DEF KeptIn
  <2>2. Pushed(Value(t))' = Pushed(Value(t)) /\ EpsSet(Value(t))' = EpsSet(Value(t))
    BY <1>1, <2>1 DEF Pushed, EpsSet, Expanding
  <2> QED BY <2>1, <2>2
<1>6. ItersStored' /\ \A it \in AllIters : iters[it].slot # Null => KeptIn(iters[it].slot)
  BY <1>1, <1>2, <1>3, SparesIters DEF DelayedInv
<1>7. RefsAreIterators'
  BY <1>1, <1>2, RefsKept DEF DelayedInv, KeptIn, SameState
<1>8. OpShape' /\ OpIter' /\ OpCollects' /\ StateIterOK'
  BY <1>1, <1>2, <1>4 DEF DelayedInv, OpShape, OpIter, OpCollects, StateIterOK
<1>9. OpState'
  <2>1. PICK s \in Ids, t \in Slots :
          s = op.s /\ t = ptr /\ t = SlotOf(s) /\ KeptIn(t)
    <3>1. ptr # Null /\ ptr = SlotOf(op.s)
      BY <1>4 DEF DelayedInv, OpState
    <3>2. ptr \in Slots
      BY <1>1, <3>1 DEF StoreInv, StoreTypeOK
    <3> QED BY <1>2, <1>4, <3>1, <3>2
  <2>2. t = SlotOf(s)' /\ Stored(s) /\ Stored(s)'
    BY <1>1, <1>3, <2>1, KeptLookup
  <2>3. SlotOf(op.s)' = t /\ Stored(op.s)' /\ ptr' = t /\ t # Null
    BY <1>1, <1>2, <2>1, <2>2, IdsInSlots DEF SlotOf, Stored
  <2>4. Expanding(op.s)' = Expanding(s)
    BY <1>1, <2>1 DEF Expanding
  <2>5. Expanding(s) => "Arcs" \notin state_vec[t].flags
    BY <1>4, <2>1, <2>2 DEF DelayedInv, OpState
  <2>6. Expanding(s) => "Arcs" \notin state_vec'[t].flags
    BY <2>1, <2>5 DEF KeptIn, SameState
  <2> QED BY <1>1, <1>4, <2>3, <2>4, <2>6 DEF OpState
<1>10. ReadyExpanded'
  <2> SUFFICES ASSUME NEW it \in Iters, Ready(it)'
               PROVE  "Arcs" \in state_vec'[iters[it].slot].flags
    BY <1>1 DEF ReadyExpanded
  <2>1. Ready(it) /\ it \in AllIters /\ iters[it].slot # Null
    BY <1>1 DEF Ready, AllIters
  <2>2. KeptIn(iters[it].slot) /\ "Arcs" \in state_vec[iters[it].slot].flags
    BY <1>6, <2>1 DEF DelayedInv, ReadyExpanded
  <2> QED BY <2>2 DEF KeptIn, SameState
<1>11. ImplTypeOK'
  BY <1>1 DEF DelayedInv, ImplTypeOK, implVars
<1> QED BY <1>3, <1>5, <1>6, <1>7, <1>8, <1>9, <1>10, <1>11 DEF DelayedInv

\* Where a call stands when it acts on the state it has looked up.
LEMMA ActingAt ==
  ASSUME DelayedInv, op # NoOp, op.stage = "act"
  PROVE  \E s \in Ids, slot \in Slots :
           /\ s = op.s /\ slot = ptr /\ slot = SlotOf(s) /\ Value(slot) = s
           /\ state_vec[slot] # Null /\ state_vec[slot] \in CacheState
<1>1. op.s \in Ids /\ StoreInv
  BY OpType1 DEF DelayedInv
<1>2. ptr # Null /\ ptr = SlotOf(op.s)
  BY DEF DelayedInv, OpState
<1>3. ptr \in Slots /\ state_vec[ptr] # Null /\ state_vec[ptr] \in CacheState
  BY <1>1, <1>2 DEF StoreInv, StoreTypeOK, PtrIsStored
<1>4. Value(SlotOf(op.s)) = op.s
  BY <1>1, <1>2, <1>3, SlotValue DEF Stored
<1> QED BY <1>1, <1>2, <1>3, <1>4

\* A step of the call that changes the state it acts on to st, in its place.
ActsOn(s, slot, st) ==
  /\ op # NoOp /\ op.stage = "act" /\ s = op.s /\ slot = ptr /\ slot = SlotOf(s)
  /\ state_vec[slot] # Null
  /\ state_vec' = [state_vec EXCEPT ![slot] = st]
  /\ UNCHANGED <<state_list, first_gc, first_id, gc_on, cache_limit, ptr, iters>>
  /\ cache_size' \in Nat /\ gc' \in GCType /\ (gc'.on => gc_on)
  /\ op' = NoOp \/ op'.s = s

\* The state that results is what the FST and the progress of the call ask for.
ActsRight(s, slot, st) ==
  /\ st.ref = state_vec[slot].ref
  /\ \A flag \in state_vec[slot].flags : flag \in st.flags
  /\ "Final" \in st.flags => st.final = RefFinal[s]
  /\ "Arcs" \in st.flags => st.arcs = RefArcs[s] /\ st.neps = NumEps(RefArcs[s])
  /\ "Arcs" \notin st.flags => st.arcs = Pushed(s)' /\ st.neps = EpsSet(s)'

LEMMA ActStep ==
  ASSUME DelayedInv, NEW s \in Ids, NEW slot \in Slots, NEW st \in CacheState,
         ActsOn(s, slot, st), ActsRight(s, slot, st)
  PROVE  /\ StoreInv' /\ Content' /\ ItersStored' /\ RefsAreIterators'
         /\ state_vec'[slot] = st /\ st # Null /\ SlotOf(s)' = slot /\ Stored(s)'
         /\ \A it \in AllIters : iters[it].slot # Null =>
              \A flag \in state_vec[iters[it].slot].flags :
                flag \in state_vec'[iters[it].slot].flags
<1> USE DEF ActsOn, ActsRight
<1>1. /\ StoreInv /\ state_vec \in [Slots -> CacheState \cup {Null}]
      /\ cache_limit \in Nat \ {0} /\ ptr # Null
  BY IdsInSlots DEF DelayedInv, StoreInv, StoreTypeOK
<1>2. StoreInv'
  BY <1>1, UpdateOneState
<1>3. /\ state_vec'[slot] = st /\ st # Null
      /\ \A t \in Slots : t # slot => state_vec'[t] = state_vec[t]
      /\ \A t \in Slots : t # slot /\ state_vec[t] # Null => KeptIn(t)
      /\ \A t \in Slots : (state_vec'[t] = Null) = (state_vec[t] = Null)
      /\ \A t \in Slots : Value(t)' = Value(t)
      /\ \A r \in Ids : SlotOf(r)' = SlotOf(r)
  BY <1>1, InPlace
<1>4. Content'
  <2> SUFFICES ASSUME NEW t \in Slots, state_vec'[t] # Null
               PROVE  \/ /\ SameIn(t)
                         /\ Pushed(Value(t))' = Pushed(Value(t))
                         /\ EpsSet(Value(t))' = EpsSet(Value(t))
                      \/ StateOK(state_vec[t], Value(t))'
    BY ContentStep DEF DelayedInv
  <2>1. CASE t = slot
    <3>1. Value(t)' = s
      <4>1. Value(slot) = s
        BY <1>1, SlotValue DEF Stored
      <4> QED BY <1>3, <2>1, <4>1
    <3>2. Pushed(Value(t))' = Pushed(s)' /\ EpsSet(Value(t))' = EpsSet(s)'
      BY <3>1 DEF Pushed, EpsSet, Expanding
    <3>3. state_vec'[t] = st
      BY <1>3, <2>1
    <3> QED BY <3>1, <3>2, <3>3 DEF StateOK
  <2>2. CASE t # slot
    <3>1. PICK v \in Ids : v = Value(t) /\ Value(t)' = v /\ v # s
      <4>1. Value(t) \in Ids /\ SlotOf(Value(t)) = t
        BY <1>1, <1>3, <2>2, SlotValue
      <4> QED BY <1>3, <2>2, <4>1
    <3>2. Pushed(v) = <<>> /\ EpsSet(v) = 0
      BY <3>1, OpType1
    <3>3. Pushed(v)' = <<>> /\ EpsSet(v)' = 0
      BY <3>1, NoProgressNext
    <3>4. Pushed(Value(t))' = Pushed(Value(t)) /\ EpsSet(Value(t))' = EpsSet(Value(t))
      BY <3>1, <3>2, <3>3 DEF Pushed, EpsSet, Expanding
    <3>5. KeptIn(t)
      BY <1>3, <2>2
    <3> QED BY <3>4, <3>5, KeptSame
  <2> QED BY <2>1, <2>2
<1>5. ItersStored'
  <2>1. \A r : SlotOf(r)' = SlotOf(r)
    BY DEF SlotOf
  <2> SUFFICES ASSUME NEW it \in AllIters
               PROVE  IF iters[it].slot = Null THEN iters[it] = NoIter
                      ELSE /\ iters[it].s \in Ids
                           /\ iters[it].slot = SlotOf(iters[it].s)'
                           /\ state_vec'[iters[it].slot] # Null
    BY DEF ItersStored
  <2>2. SlotOf(iters[it].s)' = SlotOf(iters[it].s)
    BY DEF SlotOf
  <2>3. iters[it].slot # Null => iters[it].slot \in Slots
    BY DEF DelayedInv, ImplTypeOK
  <2> QED BY <1>3, <2>2, <2>3 DEF DelayedInv, ItersStored
<1>6. RefsAreIterators'
  <2>1. \A t \in Slots : state_vec'[t] # Null =>
          state_vec[t] # Null /\ state_vec'[t].ref = state_vec[t].ref
    BY <1>3
  <2> QED BY <2>1, RefsKept DEF DelayedInv
<1>7. ASSUME NEW it \in AllIters, iters[it].slot # Null,
             NEW flag \in state_vec[iters[it].slot].flags
      PROVE  flag \in state_vec'[iters[it].slot].flags
  <2>1. PICK t \in Slots : t = iters[it].slot
    BY <1>7 DEF DelayedInv, ImplTypeOK
  <2> QED BY <1>3, <1>7, <2>1
<1> QED BY <1>2, <1>3, <1>4, <1>5, <1>6, <1>7 DEF Stored

LEMMA SetFinalInv ==
  ASSUME DelayedInv, SetFinal
  PROVE  DelayedInv'
<1>1. /\ op # NoOp /\ ~gc.on /\ op.f = "SetFinal" /\ op.stage = "act"
      /\ state_vec' = [state_vec EXCEPT ![ptr].final = RefFinal[op.s],
                                        ![ptr].flags = @ \cup {"Final", "Recent"}]
      /\ op' = [op EXCEPT !.f = "Return"]
      /\ UNCHANGED <<StoreRest, implVars, iters, siter, answer>>
  BY DEF SetFinal, Acting, clientVars
<1>2. PICK s \in Ids, slot \in Slots :
           /\ s = op.s /\ slot = ptr /\ slot = SlotOf(s) /\ Value(slot) = s
           /\ state_vec[slot] # Null /\ state_vec[slot] \in CacheState
  BY <1>1, ActingAt
<1>3. /\ op' \in OpType /\ op' # NoOp /\ op'.name = op.name /\ op'.s = op.s
      /\ op'.it = op.it /\ op'.f = "Return" /\ op'.stage = "act"
      /\ op \in OpType /\ op.name \in Names
  <2>1. op \in OpType /\ op.name \in Names
    BY <1>1, OpType1
  <2>2. /\ op' \in OpType /\ op'.name = op.name /\ op'.s = op.s
        /\ op'.it = op.it /\ op'.f = "Return" /\ op'.stage = "act"
    BY <1>1, <2>1 DEF OpType, Functions
  <2> QED BY <2>1, <2>2, OpFields
<1>4. op.name = "Final"
  BY <1>1, <1>3 DEF DelayedInv, OpShape, Names
<1> DEFINE a  == state_vec[slot]
           st == [a EXCEPT !.final = RefFinal[s], !.flags = @ \cup {"Final", "Recent"}]
<1>5. /\ st \in CacheState /\ st.ref = a.ref /\ st.arcs = a.arcs /\ st.neps = a.neps
      /\ st.final = RefFinal[s] /\ st.flags = a.flags \cup {"Final", "Recent"}
  <2>1. RefFinal[s] \in Weights
    BY DelayedConstants
  <2> QED BY <1>2, <2>1 DEF CacheState, CacheFlags
<1>6. state_vec' = [state_vec EXCEPT ![slot] = st]
  <2>1. state_vec' = [state_vec EXCEPT ![slot].final = RefFinal[s],
                                       ![slot].flags = @ \cup {"Final", "Recent"}]
    BY <1>1, <1>2
  <2>2. state_vec \in [Slots -> CacheState \cup {Null}]
    BY DEF DelayedInv, StoreInv, StoreTypeOK
  <2> QED BY <1>2, <2>1, <2>2 DEF CacheState
<1>7. /\ UNCHANGED <<state_list, first_gc, first_id, gc_on, cache_limit, ptr, iters>>
      /\ cache_size' \in Nat /\ gc' \in GCType /\ gc' = gc
  BY <1>1 DEF StoreRest, DelayedInv, StoreInv, StoreTypeOK, GCType
<1>8. /\ "Arcs" \in a.flags => a.arcs = RefArcs[s] /\ a.neps = NumEps(RefArcs[s])
      /\ "Arcs" \notin a.flags => a.arcs = <<>> /\ a.neps = 0
  <2>1. Pushed(s) = <<>> /\ EpsSet(s) = 0
    BY <1>1, NoProgress
  <2> QED BY <1>2, <2>1 DEF DelayedInv, Content, StateOK
<1>9. Pushed(s)' = <<>> /\ EpsSet(s)' = 0
  BY <1>3, NoProgressNext
<1>10. "Arcs" \in st.flags <=> "Arcs" \in a.flags
  BY <1>5
<1> HIDE DEF a, st
<1>11. /\ StoreInv' /\ Content' /\ ItersStored' /\ RefsAreIterators'
       /\ state_vec'[slot] = st /\ st # Null /\ SlotOf(s)' = slot /\ Stored(s)'
       /\ \A it \in AllIters : iters[it].slot # Null =>
            \A flag \in state_vec[iters[it].slot].flags :
              flag \in state_vec'[iters[it].slot].flags
  <2>1. ActsOn(s, slot, st)
    BY <1>1, <1>2, <1>3, <1>6, <1>7 DEF ActsOn
  <2>2. ActsRight(s, slot, st)
    BY <1>5, <1>8, <1>9, <1>10 DEF ActsRight, a
  <2> QED BY <1>5, <2>1, <2>2, ActStep
<1>12. OpShape' /\ OpIter' /\ OpCollects' /\ StateIterOK'
  <2>1. OpShape' /\ OpIter'
    BY <1>1, <1>3, <1>4 DEF DelayedInv, OpShape, OpIter
  <2>2. OpCollects' /\ StateIterOK'
    BY <1>1, <1>3, <1>4, <1>7 DEF DelayedInv, OpCollects, StateIterOK
  <2> QED BY <2>1, <2>2
<1>13. OpState'
  <2>1. ptr' # Null /\ ptr' = SlotOf(op.s)'
    BY <1>2, <1>3, <1>7, <1>11, IdsInSlots DEF SlotOf
  <2>2. ~Expanding(op.s)' /\ Pushed(op.s)' = <<>>
    BY <1>3 DEF Expanding, Pushed
  <2>3. "Final" \in state_vec'[ptr'].flags
    BY <1>2, <1>5, <1>7, <1>11
  <2> QED BY <1>3, <1>4, <2>1, <2>2, <2>3 DEF OpState
<1>14. ReadyExpanded'
  <2> SUFFICES ASSUME NEW it \in Iters, Ready(it)'
               PROVE  "Arcs" \in state_vec'[iters[it].slot].flags
    BY <1>1 DEF ReadyExpanded
  <2>1. Ready(it) /\ it \in AllIters /\ iters[it].slot # Null
    BY <1>1, <1>3 DEF Ready, AllIters
  <2>2. "Arcs" \in state_vec[iters[it].slot].flags
    BY <2>1 DEF DelayedInv, ReadyExpanded
  <2> QED BY <1>11, <2>1, <2>2
<1>15. ImplTypeOK'
  BY <1>1, <1>3 DEF DelayedInv, ImplTypeOK, implVars
<1> QED BY <1>11, <1>12, <1>13, <1>14, <1>15 DEF DelayedInv

\* The arcs pushed so far, and one more.
LEMMA PushOne ==
  ASSUME NEW q \in Seq(Arcs), NEW i \in 1 .. Len(q)
  PROVE  /\ SubSeq(q, 1, i) = Append(SubSeq(q, 1, i - 1), q[i])
         /\ i = Len(q) => SubSeq(q, 1, i) = q
<1> DEFINE a == SubSeq(q, 1, i - 1)
           b == SubSeq(q, 1, i)
<1>1. a \in Seq(Arcs) /\ Len(a) = i - 1 /\ \A j \in 1 .. i - 1 : a[j] = q[j]
  BY SubSeqProperties
<1>2. b \in Seq(Arcs) /\ Len(b) = i /\ \A j \in 1 .. i : b[j] = q[j]
  BY SubSeqProperties
<1> HIDE DEF a, b
<1>3. /\ Append(a, q[i]) \in Seq(Arcs) /\ Len(Append(a, q[i])) = i
      /\ \A j \in 1 .. i - 1 : Append(a, q[i])[j] = q[j]
      /\ Append(a, q[i])[i] = q[i]
  BY <1>1
<1>4. \A j \in 1 .. i : Append(a, q[i])[j] = b[j]
  BY <1>2, <1>3
<1>5. b = Append(a, q[i])
  BY <1>2, <1>3, <1>4, SeqEqual
<1>6. i = Len(q) => b = q
  BY <1>2, SeqEqual
<1> QED BY <1>5, <1>6 DEF a, b

\* What the call in Expand(s) finds in the state it acts on.
LEMMA ExpandingState ==
  ASSUME DelayedInv, op # NoOp, op.stage = "act", op.f \in {"PushArc", "SetArcs", "MarkArcs"},
         NEW s \in Ids, s = op.s, NEW slot \in Slots, slot = SlotOf(s), Value(slot) = s,
         state_vec[slot] # Null
  PROVE  /\ Expanding(s) /\ "Arcs" \notin state_vec[slot].flags
         /\ state_vec[slot].arcs = Pushed(s) /\ state_vec[slot].neps = EpsSet(s)
         /\ "Final" \in state_vec[slot].flags => state_vec[slot].final = RefFinal[s]
<1>1. Expanding(s)
  BY DEF Expanding
<1>2. "Arcs" \notin state_vec[slot].flags
  BY <1>1 DEF DelayedInv, OpState, Stored
<1> QED BY <1>1, <1>2 DEF DelayedInv, Content, StateOK

LEMMA PushArcInv ==
  ASSUME DelayedInv, PushArc
  PROVE  DelayedInv'
<1>1. /\ op # NoOp /\ ~gc.on /\ op.f = "PushArc" /\ op.stage = "act"
      /\ state_vec' = [state_vec EXCEPT ![ptr].arcs = Append(@, RefArcs[op.s][op.i])]
      /\ op' = IF op.i < Len(RefArcs[op.s])
               THEN [op EXCEPT !.stage = "get", !.i = @ + 1]
               ELSE [op EXCEPT !.stage = "get", !.f = "SetArcs"]
      /\ UNCHANGED <<StoreRest, implVars, iters, siter, answer>>
  BY DEF PushArc, Acting, clientVars
<1>2. PICK s \in Ids, slot \in Slots :
           /\ s = op.s /\ slot = ptr /\ slot = SlotOf(s) /\ Value(slot) = s
           /\ state_vec[slot] # Null /\ state_vec[slot] \in CacheState
  BY <1>1, ActingAt
<1>3. op \in OpType /\ op.name \in Names /\ op.i \in Nat
  BY <1>1, OpType1, OpFields
<1>4. PICK i \in 1 .. Len(RefArcs[s]) : i = op.i
  BY <1>1, <1>2 DEF DelayedInv, OpShape
<1>5. RefArcs[s] \in Seq(Arcs) /\ RefArcs[s][i] \in Arcs
  BY DelayedConstants
<1>6. /\ op' \in OpType /\ op' # NoOp /\ op'.name = op.name /\ op'.s = s
      /\ op'.it = op.it /\ op'.stage = "get"
      /\ IF i < Len(RefArcs[s]) THEN op'.f = "PushArc" /\ op'.i = i + 1
                                ELSE op'.f = "SetArcs"
  <2>1. /\ op' \in OpType /\ op'.name = op.name /\ op'.s = s
        /\ op'.it = op.it /\ op'.stage = "get"
        /\ IF i < Len(RefArcs[s]) THEN op'.f = "PushArc" /\ op'.i = i + 1
                                  ELSE op'.f = "SetArcs"
    <3>1. CASE i < Len(RefArcs[s])
      <4>1. op' = [op EXCEPT !.stage = "get", !.i = i + 1] /\ i + 1 \in Nat
        BY <1>1, <1>2, <1>4, <1>5, <3>1
      <4> QED BY <1>1, <1>2, <1>3, <3>1, <4>1 DEF OpType, Functions
    <3>2. CASE ~(i < Len(RefArcs[s]))
      <4>1. op' = [op EXCEPT !.stage = "get", !.f = "SetArcs"]
        BY <1>1, <1>2, <1>4, <3>2
      <4> QED BY <1>1, <1>2, <1>3, <3>2, <4>1 DEF OpType, Functions
    <3> QED BY <3>1, <3>2
  <2> QED BY <2>1, OpFields
<1>7. op.name # "Final"
  BY <1>1 DEF DelayedInv, OpShape
<1> DEFINE a    == state_vec[slot]
           arcs == Append(a.arcs, RefArcs[s][i])
           st   == [a EXCEPT !.arcs = arcs]
<1>8. /\ Expanding(s) /\ "Arcs" \notin a.flags
      /\ a.arcs = SubSeq(RefArcs[s], 1, i - 1) /\ a.neps = 0
      /\ "Final" \in a.flags => a.final = RefFinal[s]
  <2>1. Pushed(s) = SubSeq(RefArcs[s], 1, i - 1) /\ EpsSet(s) = 0
    BY <1>1, <1>2, <1>4 DEF Pushed, EpsSet, Expanding
  <2> QED BY <1>1, <1>2, <2>1, ExpandingState
<1>9. arcs = SubSeq(RefArcs[s], 1, i) /\ (i = Len(RefArcs[s]) => arcs = RefArcs[s])
  BY <1>5, <1>8, PushOne
<1>10. Expanding(s)' /\ Pushed(s)' = arcs /\ EpsSet(s)' = 0
  <2>1. Expanding(s)'
    BY <1>6 DEF Expanding
  <2>2. CASE i < Len(RefArcs[s])
    <3>1. (i + 1) - 1 = i
      OBVIOUS
    <3> QED BY <1>6, <1>9, <2>1, <2>2, <3>1 DEF Pushed, EpsSet
  <2>3. CASE ~(i < Len(RefArcs[s]))
    <3>1. i = Len(RefArcs[s])
      BY <1>5, <2>3
    <3> QED BY <1>6, <1>9, <2>1, <2>3, <3>1 DEF Pushed, EpsSet
  <2> QED BY <2>2, <2>3
<1>11. /\ st \in CacheState /\ st.ref = a.ref /\ st.arcs = arcs /\ st.neps = a.neps
       /\ st.final = a.final /\ st.flags = a.flags
  <2>1. arcs \in Seq(Arcs)
    BY <1>2, <1>5, StateFields
  <2> HIDE DEF arcs
  <2> QED BY <1>2, <2>1 DEF CacheState
<1>12. state_vec' = [state_vec EXCEPT ![slot] = st]
  BY <1>1, <1>2, <1>4
<1>13. /\ UNCHANGED <<state_list, first_gc, first_id, gc_on, cache_limit, ptr, iters>>
       /\ cache_size' \in Nat /\ gc' \in GCType /\ gc' = gc
  BY <1>1 DEF StoreRest, DelayedInv, StoreInv, StoreTypeOK, GCType
<1> HIDE DEF a, st, arcs
<1>14. /\ StoreInv' /\ Content' /\ ItersStored' /\ RefsAreIterators'
       /\ state_vec'[slot] = st /\ st # Null /\ SlotOf(s)' = slot /\ Stored(s)'
       /\ \A it \in AllIters : iters[it].slot # Null =>
            \A flag \in state_vec[iters[it].slot].flags :
              flag \in state_vec'[iters[it].slot].flags
  <2>1. ActsOn(s, slot, st)
    BY <1>1, <1>2, <1>6, <1>12, <1>13 DEF ActsOn
  <2>2. ActsRight(s, slot, st)
    BY <1>8, <1>10, <1>11 DEF ActsRight, a
  <2> QED BY <1>11, <2>1, <2>2, ActStep
<1>15. OpShape' /\ OpIter' /\ OpCollects' /\ StateIterOK'
  <2>1. OpShape'
    <3>1. op'.f = "PushArc" => op'.i \in 1 .. Len(RefArcs[s])
      BY <1>5, <1>6
    <3> QED BY <1>1, <1>6, <1>7, <3>1 DEF DelayedInv, OpShape
  <2>2. OpIter'
    BY <1>1, <1>2, <1>6 DEF DelayedInv, OpIter
  <2>3. OpCollects' /\ StateIterOK'
    BY <1>1, <1>6, <1>13 DEF DelayedInv, OpCollects, StateIterOK
  <2> QED BY <2>1, <2>2, <2>3
<1>16. OpState'
  <2>1. SlotOf(op.s)' = slot /\ Stored(op.s)'
    BY <1>6, <1>14 DEF SlotOf, Stored
  <2>2. "Arcs" \notin state_vec'[SlotOf(op.s)'].flags
    BY <1>8, <1>11, <1>14, <2>1
  <2> QED BY <1>6, <2>1, <2>2 DEF OpState
<1>17. ReadyExpanded'
  <2> SUFFICES ASSUME NEW it \in Iters, Ready(it)'
               PROVE  "Arcs" \in state_vec'[iters[it].slot].flags
    BY <1>1 DEF ReadyExpanded
  <2>1. Ready(it) /\ it \in AllIters /\ iters[it].slot # Null
    BY <1>1, <1>6 DEF Ready, AllIters
  <2>2. "Arcs" \in state_vec[iters[it].slot].flags
    BY <2>1 DEF DelayedInv, ReadyExpanded
  <2> QED BY <1>14, <2>1, <2>2
<1>18. ImplTypeOK'
  BY <1>1, <1>6 DEF DelayedInv, ImplTypeOK, implVars
<1> QED BY <1>14, <1>15, <1>16, <1>17, <1>18 DEF DelayedInv

LEMMA SetArcsInv ==
  ASSUME DelayedInv, SetArcs
  PROVE  DelayedInv'
<1>1. /\ op # NoOp /\ ~gc.on /\ op.f = "SetArcs" /\ op.stage = "act"
      /\ state_vec' = [state_vec EXCEPT ![ptr].neps = @ + NumEps(state_vec[ptr].arcs)]
      /\ op' = [op EXCEPT !.f = "MarkArcs"]
      /\ UNCHANGED <<state_list, first_gc, first_id, gc_on, cache_limit, ptr>>
      /\ UNCHANGED <<implVars, iters, siter, answer>>
  BY DEF SetArcs, Acting, clientVars
<1>2. PICK s \in Ids, slot \in Slots :
           /\ s = op.s /\ slot = ptr /\ slot = SlotOf(s) /\ Value(slot) = s
           /\ state_vec[slot] # Null /\ state_vec[slot] \in CacheState
  BY <1>1, ActingAt
<1>3. op \in OpType /\ op.name \in Names
  BY <1>1, OpType1
<1>4. RefArcs[s] \in Seq(Arcs) /\ NumEps(RefArcs[s]) \in Nat
  BY DelayedConstants, NumEpsType
<1>5. /\ op' \in OpType /\ op' # NoOp /\ op'.name = op.name /\ op'.s = s
      /\ op'.it = op.it /\ op'.stage = "act" /\ op'.f = "MarkArcs"
  <2>1. /\ op' \in OpType /\ op'.name = op.name /\ op'.s = s
        /\ op'.it = op.it /\ op'.stage = "act" /\ op'.f = "MarkArcs"
    BY <1>1, <1>2, <1>3 DEF OpType, Functions
  <2> QED BY <2>1, OpFields
<1>6. op.name # "Final"
  BY <1>1 DEF DelayedInv, OpShape
<1> DEFINE a  == state_vec[slot]
           n  == NumEps(RefArcs[s])
           st == [a EXCEPT !.neps = n]
<1>7. /\ Expanding(s) /\ "Arcs" \notin a.flags /\ a.arcs = RefArcs[s] /\ a.neps = 0
      /\ "Final" \in a.flags => a.final = RefFinal[s]
  <2>1. Pushed(s) = RefArcs[s] /\ EpsSet(s) = 0
    BY <1>1, <1>2 DEF Pushed, EpsSet, Expanding
  <2> QED BY <1>1, <1>2, <2>1, ExpandingState
<1>8. Expanding(s)' /\ Pushed(s)' = RefArcs[s] /\ EpsSet(s)' = n
  BY <1>5 DEF Pushed, EpsSet, Expanding
<1>9. /\ st \in CacheState /\ st.ref = a.ref /\ st.arcs = a.arcs /\ st.neps = n
      /\ st.final = a.final /\ st.flags = a.flags
  BY <1>2, <1>4 DEF CacheState
<1>10. state_vec' = [state_vec EXCEPT ![slot] = st]
  <2>1. state_vec' = [state_vec EXCEPT ![slot] = [a EXCEPT !.neps = a.neps + NumEps(a.arcs)]]
    BY <1>1, <1>2
  <2>2. a.neps + NumEps(a.arcs) = n
    <3>1. a.neps = 0 /\ NumEps(a.arcs) = n /\ n \in Nat
      BY <1>4, <1>7
    <3> HIDE DEF a, n
    <3> QED BY <3>1
  <2> QED BY <2>1, <2>2
<1>11. cache_size' \in Nat /\ gc' \in GCType /\ (gc'.on => gc_on)
  <2> DEFINE size == IF Counted(a) THEN Wrap(cache_size + Len(a.arcs) * SizeofArc)
                     ELSE cache_size
  <2>1. cache_size' = size /\ gc' = IF Counted(a) THEN StartGC(size) ELSE gc
    BY <1>2 DEF SetArcs
  <2>2. cache_size \in Nat /\ cache_limit \in Nat /\ gc \in GCType
    BY DEF DelayedInv, StoreInv, StoreTypeOK, GCType
  <2>3. size \in Nat
    <3>1. Len(a.arcs) * SizeofArc \in Nat
      BY <1>2, StateFields, CacheConstants
    <3>2. cache_size + Len(a.arcs) * SizeofArc \in Int
      BY <2>2, <3>1
    <3>3. Wrap(cache_size + Len(a.arcs) * SizeofArc) \in Nat
      BY <3>2, WrapType
    <3> QED BY <2>2, <3>3
  <2> HIDE DEF size
  <2>4. StartGC(size) \in GCType
    BY <2>2, <2>3, StartGCType
  <2>5. Counted(a) => gc_on
    BY DEF Counted
  <2> QED BY <1>1, <2>1, <2>2, <2>3, <2>4, <2>5
<1> HIDE DEF a, st, n
<1>12. /\ StoreInv' /\ Content' /\ ItersStored' /\ RefsAreIterators'
       /\ state_vec'[slot] = st /\ st # Null /\ SlotOf(s)' = slot /\ Stored(s)'
       /\ \A it \in AllIters : iters[it].slot # Null =>
            \A flag \in state_vec[iters[it].slot].flags :
              flag \in state_vec'[iters[it].slot].flags
  <2>1. ActsOn(s, slot, st)
    BY <1>1, <1>2, <1>5, <1>10, <1>11 DEF ActsOn
  <2>2. ActsRight(s, slot, st)
    BY <1>7, <1>8, <1>9 DEF ActsRight, a
  <2> QED BY <1>9, <2>1, <2>2, ActStep
<1>13. OpShape' /\ OpIter' /\ OpCollects' /\ StateIterOK'
  <2>1. OpShape' /\ OpCollects'
    BY <1>1, <1>5, <1>6 DEF DelayedInv, OpShape, OpCollects
  <2>2. OpIter'
    BY <1>1, <1>2, <1>5 DEF DelayedInv, OpIter
  <2>3. StateIterOK'
    BY <1>1, <1>5 DEF DelayedInv, StateIterOK
  <2> QED BY <2>1, <2>2, <2>3
<1>14. OpState'
  <2>1. SlotOf(op.s)' = slot /\ Stored(op.s)' /\ ptr' = slot /\ slot # Null
    BY <1>1, <1>2, <1>5, <1>12, IdsInSlots DEF SlotOf, Stored
  <2>2. "Arcs" \notin state_vec'[SlotOf(op.s)'].flags
    BY <1>7, <1>9, <1>12, <2>1
  <2> QED BY <1>5, <2>1, <2>2 DEF OpState
<1>15. ReadyExpanded'
  <2> SUFFICES ASSUME NEW it \in Iters, Ready(it)'
               PROVE  "Arcs" \in state_vec'[iters[it].slot].flags
    BY <1>1 DEF ReadyExpanded
  <2>1. Ready(it) /\ it \in AllIters /\ iters[it].slot # Null
    BY <1>1, <1>5 DEF Ready, AllIters
  <2>2. "Arcs" \in state_vec[iters[it].slot].flags
    BY <2>1 DEF DelayedInv, ReadyExpanded
  <2> QED BY <1>12, <2>1, <2>2
<1>16. ImplTypeOK'
  BY <1>1, <1>5 DEF DelayedInv, ImplTypeOK, implVars
<1> QED BY <1>12, <1>13, <1>14, <1>15, <1>16 DEF DelayedInv

LEMMA MarkArcsInv ==
  ASSUME DelayedInv, MarkArcs
  PROVE  DelayedInv'
<1>1. /\ op # NoOp /\ ~gc.on /\ op.f = "MarkArcs" /\ op.stage = "act"
      /\ nknown_states' = KnownArcs(state_vec[ptr].arcs, nknown_states)
      /\ SetExpandedState(op.s)
      /\ state_vec' = [state_vec EXCEPT ![ptr].flags = @ \cup {"Arcs", "Recent"}]
      /\ op' = IF op.name = "ArcIterator" THEN NoOp ELSE [op EXCEPT !.f = "Return"]
      /\ UNCHANGED <<StoreRest, iters, siter, answer>>
  BY DEF MarkArcs, Acting, clientVars
<1>2. PICK s \in Ids, slot \in Slots :
           /\ s = op.s /\ slot = ptr /\ slot = SlotOf(s) /\ Value(slot) = s
           /\ state_vec[slot] # Null /\ state_vec[slot] \in CacheState
  BY <1>1, ActingAt
<1>3. op \in OpType /\ op.name \in Names
  BY <1>1, OpType1
<1>4. /\ op.name # "Final"
      /\ op.name = "ArcIterator" => op.it \in AllIters /\ iters[op.it].slot = slot
  <2>1. op.name = "ArcIterator" =>
          op.it \in AllIters /\ iters[op.it].slot # Null /\ iters[op.it].s = s
    BY <1>1, <1>2 DEF DelayedInv, OpShape, OpIter
  <2>2. op.name = "ArcIterator" => iters[op.it].slot = slot
    BY <1>2, <2>1 DEF DelayedInv, ItersStored
  <2> QED BY <1>1, <2>1, <2>2 DEF DelayedInv, OpShape
<1>5. IF op.name = "ArcIterator" THEN op' = NoOp
      ELSE /\ op' \in OpType /\ op' # NoOp /\ op'.name = op.name /\ op'.s = s
           /\ op'.it = op.it /\ op'.stage = "act" /\ op'.f = "Return"
  <2>1. CASE op.name # "ArcIterator"
    <3>1. /\ op' \in OpType /\ op'.name = op.name /\ op'.s = s
          /\ op'.it = op.it /\ op'.stage = "act" /\ op'.f = "Return"
      BY <1>1, <1>2, <1>3, <2>1 DEF OpType, Functions
    <3> QED BY <2>1, <3>1, OpFields
  <2> QED BY <1>1, <2>1
<1> DEFINE a  == state_vec[slot]
           st == [a EXCEPT !.flags = @ \cup {"Arcs", "Recent"}]
<1>6. /\ a.arcs = RefArcs[s] /\ a.neps = NumEps(RefArcs[s])
      /\ "Final" \in a.flags => a.final = RefFinal[s]
  <2>1. Pushed(s) = RefArcs[s] /\ EpsSet(s) = NumEps(RefArcs[s])
    BY <1>1, <1>2 DEF Pushed, EpsSet, Expanding
  <2> QED BY <1>1, <1>2, <2>1, ExpandingState
<1>7. /\ st \in CacheState /\ st.ref = a.ref /\ st.arcs = a.arcs /\ st.neps = a.neps
      /\ st.final = a.final /\ st.flags = a.flags \cup {"Arcs", "Recent"}
  BY <1>2 DEF CacheState, CacheFlags
<1>8. state_vec' = [state_vec EXCEPT ![slot] = st]
  BY <1>1, <1>2
<1>9. /\ UNCHANGED <<state_list, first_gc, first_id, gc_on, cache_limit, ptr, iters>>
      /\ cache_size' \in Nat /\ gc' \in GCType /\ gc' = gc
  BY <1>1 DEF StoreRest, DelayedInv, StoreInv, StoreTypeOK, GCType
<1> HIDE DEF a, st
<1>10. /\ StoreInv' /\ Content' /\ ItersStored' /\ RefsAreIterators'
       /\ state_vec'[slot] = st /\ st # Null /\ SlotOf(s)' = slot /\ Stored(s)'
       /\ \A it \in AllIters : iters[it].slot # Null =>
            \A flag \in state_vec[iters[it].slot].flags :
              flag \in state_vec'[iters[it].slot].flags
  <2>1. ActsOn(s, slot, st)
    BY <1>1, <1>2, <1>5, <1>8, <1>9 DEF ActsOn
  <2>2. ActsRight(s, slot, st)
    BY <1>6, <1>7 DEF ActsRight, a
  <2> QED BY <1>7, <2>1, <2>2, ActStep
<1>11. OpShape' /\ OpIter' /\ OpCollects'
  BY <1>1, <1>4, <1>5, <1>9 DEF DelayedInv, OpShape, OpIter, OpCollects
<1>12. StateIterOK'
  <2>1. slot # Null
    BY IdsInSlots
  <2>2. CASE siter.u = NoStateId
    BY <1>1, <1>5, <2>2 DEF DelayedInv, StateIterOK
  <2>3. CASE siter.u # NoStateId
    <3>1. op.name = "ArcIterator" /\ op.it = StateIter
      BY <1>1, <2>3 DEF DelayedInv, StateIterOK
    <3> QED BY <1>1, <1>4, <1>5, <2>1, <2>3, <3>1 DEF StateIterOK
  <2> QED BY <2>2, <2>3
<1>13. OpState'
  <2>1. CASE op' = NoOp
    BY <2>1 DEF OpState
  <2>2. CASE op.name # "ArcIterator"
    <3>1. SlotOf(op.s)' = slot /\ ptr' = slot /\ slot # Null
      BY <1>2, <1>5, <1>9, <1>10, <2>2, IdsInSlots DEF SlotOf
    <3>2. ~Expanding(op.s)' /\ Pushed(op.s)' = <<>>
      BY <1>5, <2>2 DEF Expanding, Pushed
    <3>3. "Arcs" \in state_vec'[ptr'].flags
      BY <1>7, <1>10, <3>1
    <3> QED BY <1>4, <1>5, <2>2, <3>1, <3>2, <3>3 DEF OpState
  <2> QED BY <1>5, <2>1, <2>2
<1>14. ReadyExpanded'
  <2> SUFFICES ASSUME NEW it \in Iters, Ready(it)'
               PROVE  "Arcs" \in state_vec'[iters[it].slot].flags
    BY <1>1 DEF ReadyExpanded
  <2>1. it \in AllIters /\ iters[it].slot # Null /\ it # StateIter
    BY <1>1 DEF Ready, AllIters
  <2>2. CASE op.name = "ArcIterator" /\ it = op.it
    BY <1>4, <1>7, <1>10, <2>2
  <2>3. CASE ~(op.name = "ArcIterator" /\ it = op.it)
    <3>1. Ready(it)
      BY <1>1, <1>5, <2>1, <2>3 DEF Ready
    <3>2. "Arcs" \in state_vec[iters[it].slot].flags
      BY <3>1 DEF DelayedInv, ReadyExpanded
    <3> QED BY <1>10, <2>1, <3>2
  <2> QED BY <2>2, <2>3
<1>15. ImplTypeOK'
  <2>1. min_unexpanded' \in Nat /\ max_expanded' \in Int
    BY <1>1, <1>2, SetExpandedType DEF DelayedInv
  <2>2. nknown_states' \in 0 .. NumIds
    BY <1>1, <1>2, StateFields, KnownArcsType DEF DelayedInv, ImplTypeOK
  <2>3. op' \in OpType \cup {NoOp}
    BY <1>5
  <2> QED BY <1>1, <2>1, <2>2, <2>3 DEF DelayedInv, ImplTypeOK
<1> QED BY <1>10, <1>11, <1>12, <1>13, <1>14, <1>15 DEF DelayedInv

\* The last step of Final and NumArcs leaves the cache alone.
LEMMA ReturnAnswerInv ==
  ASSUME DelayedInv, ReturnAnswer
  PROVE  DelayedInv'
<1>1. /\ op # NoOp /\ ~gc.on /\ op.f = "Return" /\ op.stage = "act"
      /\ op.name \in {"Final", "NumArcs"} /\ op' = NoOp
      /\ UNCHANGED <<storeVars, implVars, iters, siter>>
  BY DEF ReturnAnswer, Acting
<1>2. UNCHANGED <<state_vec, first_id, ptr, gc>>
  BY <1>1 DEF storeVars
<1>3. StoreInv'
  BY <1>1, StoreInvStutter DEF DelayedInv
<1>4. Content'
  <2>1. \A t : Pushed(t) = <<>> /\ EpsSet(t) = 0
    BY <1>1, NoProgress
  <2>2. \A t : Pushed(t)' = <<>> /\ EpsSet(t)' = 0
    BY <1>1, NoProgressNext
  <2>3. \A t \in Slots : state_vec[t] # Null => KeptIn(t)
    BY <1>2 DEF KeptIn, SameState, Value
  <2> QED BY <1>2, <2>1, <2>2, <2>3, KeptSame, ContentStep DEF DelayedInv
<1>5. ItersStored' /\ RefsAreIterators'
  BY <1>1, <1>2 DEF DelayedInv, ItersStored, RefsAreIterators, SlotOf
<1>6. OpShape' /\ OpIter' /\ OpState' /\ OpCollects'
  BY <1>1, <1>2 DEF OpShape, OpIter, OpState, OpCollects
<1>7. StateIterOK'
  BY <1>1 DEF DelayedInv, StateIterOK
<1>8. op.it = Null
  BY <1>1 DEF DelayedInv, OpShape
<1>9. ReadyExpanded'
  BY <1>1, <1>2, <1>8, DelayedConstants DEF DelayedInv, ReadyExpanded, Ready
<1>10. ImplTypeOK'
  BY <1>1 DEF DelayedInv, ImplTypeOK, implVars
<1> QED BY <1>3, <1>4, <1>5, <1>6, <1>7, <1>9, <1>10 DEF DelayedInv

\* A call opens an iterator on the state it acts on.
Opens(it, s, slot, flags) ==
  /\ op # NoOp /\ op.f \in {"Return", "Pin"}
  /\ slot = SlotOf(s) /\ state_vec[slot] # Null /\ iters[it] = NoIter
  /\ flags = state_vec[slot].flags \/ flags = state_vec[slot].flags \cup {"Recent"}
  /\ state_vec' = [state_vec EXCEPT ![slot] =
       [state_vec[slot] EXCEPT !.ref = state_vec[slot].ref + 1, !.flags = flags]]
  /\ iters' = [iters EXCEPT ![it] = [s |-> s, slot |-> slot]]
  /\ UNCHANGED StoreRest
  /\ op' = NoOp \/ \A r : Pushed(r)' = <<>> /\ EpsSet(r)' = 0

LEMMA OpenStep ==
  ASSUME DelayedInv, NEW s \in Ids, NEW slot \in Slots, NEW it \in AllIters,
         NEW flags \in SUBSET CacheFlags, Opens(it, s, slot, flags)
  PROVE  /\ StoreInv' /\ Content' /\ ItersStored' /\ RefsAreIterators'
         /\ iters' \in ItersType /\ iters'[it] = [s |-> s, slot |-> slot]
         /\ iters' = [iters EXCEPT ![it] = iters'[it]]
         /\ \A t \in Slots : state_vec[t] # Null => SameIn(t)
         /\ UNCHANGED <<first_id, ptr, gc>>
<1> USE DEF Opens
<1>1. /\ StoreInv /\ state_vec \in [Slots -> CacheState \cup {Null}]
      /\ iters \in ItersType /\ state_vec[slot] \in CacheState
      /\ UNCHANGED <<first_id, ptr, gc>>
  BY DEF DelayedInv, StoreInv, StoreTypeOK, ImplTypeOK, ItersType, StoreRest
<1> DEFINE a  == state_vec[slot]
           st == [a EXCEPT !.ref = a.ref + 1, !.flags = flags]
<1>2. /\ st \in CacheState /\ st.ref = a.ref + 1 /\ SameState([a EXCEPT !.ref = st.ref], st)
      /\ "Init" \in a.flags => "Init" \in st.flags
  <2>1. a.ref + 1 \in Int
    BY <1>1 DEF CacheState
  <2> QED BY <1>1, <2>1, RefState
<1>3. state_vec' = [state_vec EXCEPT ![slot] = st]
  OBVIOUS
<1> HIDE DEF st
<1>4. /\ StoreInv' /\ Content'
      /\ \A t \in Slots : (state_vec'[t] = Null) = (state_vec[t] = Null)
      /\ state_vec'[slot].ref = st.ref
      /\ \A t \in Slots \ {slot} : state_vec'[t] = state_vec[t]
      /\ \A t \in Slots : state_vec[t] # Null => SameIn(t)
  BY <1>2, <1>3, RefStep
<1>5. \A r \in Ids : SlotOf(r) \in Slots
  BY <1>1, SlotValue
<1>6. ItersStored' /\ iters' \in ItersType
  <2>1. Stored(s) /\ [s |-> s, slot |-> slot] = [s |-> s, slot |-> SlotOf(s)]
    BY DEF Stored
  <2> DEFINE new == [s |-> s, slot |-> slot]
  <2>2. new = NoIter \/ \E r \in Ids : Stored(r) /\ new = [s |-> r, slot |-> SlotOf(r)]
    BY <2>1
  <2>3. iters' = [iters EXCEPT ![it] = new]
    OBVIOUS
  <2>4. ItersStored /\ iters \in ItersType
    BY <1>1 DEF DelayedInv
  <2>5. /\ \A r \in Ids : SlotOf(r) \in Slots
        /\ first_id' = first_id
        /\ \A t \in Slots : (state_vec'[t] = Null) = (state_vec[t] = Null)
    BY <1>1, <1>4, <1>5
  <2> HIDE DEF new, Opens
  <2> QED BY <2>2, <2>3, <2>4, <2>5, ItersInPlace
<1>7. RefsAreIterators'
  <2>1. iters[it].slot = Null
    BY DEF NoIter
  <2>2. state_vec'[slot].ref = state_vec[slot].ref + 1
    BY <1>2, <1>4
  <2> QED BY <1>1, <1>4, <2>1, <2>2, RefsOpened DEF DelayedInv, ItersType
<1>8. iters'[it] = [s |-> s, slot |-> slot]
  BY <1>1 DEF ItersType
<1> QED BY <1>1, <1>4, <1>6, <1>7, <1>8

LEMMA ReturnIterInv ==
  ASSUME DelayedInv, ReturnIter
  PROVE  DelayedInv'
<1>1. /\ op # NoOp /\ ~gc.on /\ op.f = "Return" /\ op.stage = "act"
      /\ op.name = "InitArcIterator" /\ op' = NoOp
      /\ state_vec' = IncrRefOf(SlotOf(op.s), state_vec)
      /\ iters' = [iters EXCEPT ![op.it] = [s |-> op.s, slot |-> SlotOf(op.s)]]
      /\ UNCHANGED <<StoreRest, implVars, siter, answer>>
  BY DEF ReturnIter, Acting
<1>2. PICK s \in Ids, slot \in Slots :
           /\ s = op.s /\ slot = ptr /\ slot = SlotOf(s) /\ Value(slot) = s
           /\ state_vec[slot] # Null /\ state_vec[slot] \in CacheState
  BY <1>1, ActingAt
<1>3. PICK it \in Iters : it = op.it /\ iters[it] = NoIter
  BY <1>1 DEF DelayedInv, OpShape, OpIter
<1>4. it \in AllIters /\ it # StateIter /\ StateIter \in AllIters
  BY DelayedConstants DEF AllIters
<1>5. "Arcs" \in state_vec[slot].flags
  BY <1>1, <1>2 DEF DelayedInv, OpState
<1> DEFINE a == state_vec[slot]
<1>6. a.flags \in SUBSET CacheFlags /\ a = [a EXCEPT !.flags = a.flags]
  BY <1>2 DEF CacheState
<1>7. state_vec' = [state_vec EXCEPT ![slot] = [a EXCEPT !.ref = a.ref + 1, !.flags = a.flags]]
  <2>1. [a EXCEPT !.ref = a.ref + 1] = [a EXCEPT !.ref = a.ref + 1, !.flags = a.flags]
    BY <1>2 DEF CacheState
  <2>2. state_vec' = [state_vec EXCEPT ![slot] = [a EXCEPT !.ref = a.ref + 1]]
    BY <1>1, <1>2 DEF IncrRefOf
  <2> QED BY <2>1, <2>2
<1>8. iters' = [iters EXCEPT ![it] = [s |-> s, slot |-> slot]]
  BY <1>1, <1>2, <1>3
<1>9. /\ StoreInv' /\ Content' /\ ItersStored' /\ RefsAreIterators'
      /\ iters' \in ItersType /\ iters'[it] = [s |-> s, slot |-> slot]
      /\ iters' = [iters EXCEPT ![it] = iters'[it]]
      /\ \A t \in Slots : state_vec[t] # Null => SameIn(t)
      /\ UNCHANGED <<first_id, ptr, gc>>
  <2>1. PICK flags \in SUBSET CacheFlags : flags = a.flags
    BY <1>6
  <2>2. Opens(it, s, slot, flags)
    BY <1>1, <1>2, <1>3, <1>7, <1>8, <2>1 DEF Opens
  <2> QED BY <1>4, <2>2, OpenStep
<1>10. iters \in ItersType
  BY DEF DelayedInv, ImplTypeOK, ItersType
<1>11. iters'[StateIter] = iters[StateIter]
  BY <1>4, <1>9, <1>10 DEF ItersType
<1>12. OpShape' /\ OpIter' /\ OpState' /\ OpCollects' /\ StateIterOK'
  BY <1>1, <1>9, <1>11 DEF DelayedInv, OpShape, OpIter, OpState, OpCollects, StateIterOK
<1>13. ReadyExpanded'
  <2>1. \A i \in Iters : i # it /\ Ready(i)' => Ready(i)
    BY <1>3, <1>9, <1>10 DEF Ready, AllIters, ItersType
  <2>2. "Arcs" \in state_vec'[slot].flags
    BY <1>2, <1>5, <1>9 DEF SameIn
  <2>3. iters'[it].slot = slot
    BY <1>9
  <2> QED BY <1>4, <1>9, <2>1, <2>2, <2>3, ReadyStep
<1>14. ImplTypeOK'
  BY <1>1, <1>9 DEF DelayedInv, ImplTypeOK, implVars, ItersType
<1> QED BY <1>9, <1>12, <1>13, <1>14 DEF DelayedInv

LEMMA PinInv ==
  ASSUME DelayedInv, Pin
  PROVE  DelayedInv'
<1> DEFINE has == "Arcs" \in state_vec[ptr].flags
<1>1. /\ op # NoOp /\ ~gc.on /\ op.f = "Pin" /\ op.stage = "act"
      /\ state_vec' = IncrRefOf(ptr, IF has THEN Recent(ptr) ELSE state_vec)
      /\ op' = IF has THEN NoOp ELSE Call(op.name, op.s, op.it, ExpandFrom(op.s))
      /\ iters' = [iters EXCEPT ![op.it] = [s |-> op.s, slot |-> ptr]]
      /\ UNCHANGED <<StoreRest, implVars, siter, answer>>
  BY DEF Pin, Acting
<1>2. PICK s \in Ids, slot \in Slots :
           /\ s = op.s /\ slot = ptr /\ slot = SlotOf(s) /\ Value(slot) = s
           /\ state_vec[slot] # Null /\ state_vec[slot] \in CacheState
  BY <1>1, ActingAt
<1>3. op \in OpType /\ op.name = "ArcIterator"
  <2>1. op \in OpType /\ op.name \in Names
    BY <1>1, OpType1
  <2> QED BY <1>1, <2>1 DEF DelayedInv, OpShape, Names
<1>4. PICK it \in AllIters : it = op.it /\ iters[it] = NoIter
  BY <1>1, <1>3 DEF DelayedInv, OpShape, OpIter
<1>5. RefArcs[s] \in Seq(Arcs)
  BY DelayedConstants
<1>6. ~has => /\ op' \in OpType /\ op' # NoOp /\ op'.name = "ArcIterator" /\ op'.s = s
              /\ op'.it = it /\ op'.f = ExpandFrom(s) /\ op'.stage = "get" /\ op'.i = 1
  <2>1. ExpandFrom(s) \in Functions /\ "ArcIterator" \in Names
    BY DEF ExpandFrom, Functions, Names
  <2>2. ~has => op' = Call("ArcIterator", s, it, ExpandFrom(s))
    BY <1>1, <1>2, <1>3, <1>4
  <2> QED BY <2>1, <2>2, CallFields, OpFields
<1>7. ~has => \A r : Pushed(r)' = <<>> /\ EpsSet(r)' = 0
  <2> SUFFICES ASSUME ~has, NEW r PROVE Pushed(r)' = <<>> /\ EpsSet(r)' = 0
    OBVIOUS
  <2>1. CASE r # s
    BY <1>6, <2>1, NoProgressNext
  <2>2. CASE r = s
    <3>1. SubSeq(RefArcs[s], 1, 1 - 1) = <<>>
      BY <1>5
    <3> QED BY <1>6, <2>2, <3>1 DEF Pushed, EpsSet, Expanding, ExpandFrom
  <2> QED BY <2>1, <2>2
<1> DEFINE a == state_vec[slot]
<1>8. PICK flags \in SUBSET CacheFlags :
        /\ flags = a.flags \/ flags = a.flags \cup {"Recent"}
        /\ state_vec' = [state_vec EXCEPT ![slot] =
             [a EXCEPT !.ref = a.ref + 1, !.flags = flags]]
  <2>1. state_vec \in [Slots -> CacheState \cup {Null}]
    BY DEF DelayedInv, StoreInv, StoreTypeOK
  <2>2. CASE has
    <3>1. Recent(slot) = [state_vec EXCEPT ![slot] = [a EXCEPT !.flags = a.flags \cup {"Recent"}]]
      BY DEF Recent
    <3>2. Recent(slot)[slot] = [a EXCEPT !.flags = a.flags \cup {"Recent"}]
      BY <2>1, <3>1
    <3>3. state_vec' = [Recent(slot) EXCEPT ![slot] = [Recent(slot)[slot] EXCEPT !.ref = a.ref + 1]]
      BY <1>1, <1>2, <2>2, <3>2 DEF IncrRefOf, CacheState
    <3>4. [a EXCEPT !.ref = a.ref + 1, !.flags = a.flags \cup {"Recent"}]
            = [[a EXCEPT !.flags = a.flags \cup {"Recent"}] EXCEPT !.ref = a.ref + 1]
      BY <1>2 DEF CacheState
    <3>5. a.flags \cup {"Recent"} \in SUBSET CacheFlags
      BY <1>2 DEF CacheState, CacheFlags
    <3> HIDE DEF a
    <3>6. state_vec' = [state_vec EXCEPT ![slot] =
             [a EXCEPT !.ref = a.ref + 1, !.flags = a.flags \cup {"Recent"}]]
      BY <2>1, <3>1, <3>2, <3>3, <3>4
    <3> QED BY <3>5, <3>6
  <2>3. CASE ~has
    <3>1. [a EXCEPT !.ref = a.ref + 1] = [a EXCEPT !.ref = a.ref + 1, !.flags = a.flags]
          /\ a.flags \in SUBSET CacheFlags
      BY <1>2 DEF CacheState
    <3>2. state_vec' = [state_vec EXCEPT ![slot] = [a EXCEPT !.ref = a.ref + 1]]
      BY <1>1, <1>2, <2>3 DEF IncrRefOf
    <3> HIDE DEF a
    <3>3. state_vec' = [state_vec EXCEPT ![slot] = [a EXCEPT !.ref = a.ref + 1, !.flags = a.flags]]
      BY <3>1, <3>2
    <3> QED BY <3>1, <3>3
  <2> QED BY <2>2, <2>3
<1>9. iters' = [iters EXCEPT ![it] = [s |-> s, slot |-> slot]]
  BY <1>1, <1>2, <1>4
<1>10. /\ StoreInv' /\ Content' /\ ItersStored' /\ RefsAreIterators'
       /\ iters' \in ItersType /\ iters'[it] = [s |-> s, slot |-> slot]
       /\ iters' = [iters EXCEPT ![it] = iters'[it]]
       /\ \A t \in Slots : state_vec[t] # Null => SameIn(t)
       /\ UNCHANGED <<first_id, ptr, gc>>
  <2>1. op' = NoOp \/ \A r : Pushed(r)' = <<>> /\ EpsSet(r)' = 0
    BY <1>1, <1>7
  <2>2. Opens(it, s, slot, flags)
    BY <1>1, <1>2, <1>4, <1>8, <1>9, <2>1 DEF Opens
  <2> QED BY <2>2, OpenStep
<1>11. iters \in ItersType /\ StateIter \in AllIters
  BY DEF DelayedInv, ImplTypeOK, ItersType, AllIters
<1>12. iters'[it].slot = slot /\ iters'[it].s = s /\ slot # Null
  BY <1>10, IdsInSlots
<1>13. OpShape' /\ OpIter' /\ OpCollects'
  <2>1. CASE has
    BY <1>1, <1>10, <2>1 DEF OpShape, OpIter, OpCollects
  <2>2. CASE ~has
    <3>1. ExpandFrom(s) = "PushArc" => 1 \in 1 .. Len(RefArcs[s])
      BY <1>5 DEF ExpandFrom
    <3>2. answer' = NoAnswer
      BY <1>1 DEF DelayedInv, OpShape
    <3>3. OpShape'
      BY <1>6, <2>2, <3>1, <3>2 DEF OpShape, ExpandFrom
    <3>4. OpIter'
      BY <1>6, <1>12, <2>2 DEF OpIter, ExpandFrom
    <3> QED BY <1>1, <1>10, <3>3, <3>4 DEF OpCollects
  <2> QED BY <2>1, <2>2
<1>14. StateIterOK'
  <2>1. CASE siter.u = NoStateId
    <3>1. it # StateIter /\ iters[StateIter] = NoIter
      BY <1>1, <1>4, <2>1 DEF DelayedInv, StateIterOK
    <3>2. iters'[StateIter] = NoIter
      BY <1>10, <1>11, <3>1 DEF ItersType
    <3> QED BY <1>1, <1>6, <2>1, <3>1, <3>2 DEF StateIterOK
  <2>2. CASE siter.u # NoStateId
    <3>1. it = StateIter
      BY <1>1, <1>4, <2>2 DEF DelayedInv, StateIterOK
    <3> QED BY <1>1, <1>6, <1>12, <2>2, <3>1 DEF StateIterOK
  <2> QED BY <2>1, <2>2
<1>15. OpState'
  <2>1. CASE has
    BY <1>1, <2>1 DEF OpState
  <2>2. CASE ~has
    <3>1. SlotOf(op.s)' = slot
      BY <1>2, <1>6, <1>10, <2>2 DEF SlotOf
    <3>2. "Arcs" \notin state_vec'[slot].flags
      BY <1>2, <1>10, <2>2 DEF SameIn
    <3>3. Pushed(op.s)' = <<>>
      BY <1>6, <1>7, <2>2 DEF Pushed, Expanding
    <3>4. ExpandFrom(s) # "Return"
      BY DEF ExpandFrom
    <3> QED BY <1>6, <2>2, <3>1, <3>2, <3>3, <3>4 DEF OpState
  <2> QED BY <2>1, <2>2
<1>16. ReadyExpanded'
  <2>1. \A i \in Iters : i # it /\ Ready(i)' => Ready(i)
    BY <1>1, <1>4, <1>10, <1>11 DEF Ready, AllIters, ItersType
  <2>2. Ready(it)' => has
    BY <1>1, <1>6 DEF Ready
  <2>3. has => "Arcs" \in state_vec'[slot].flags
    BY <1>2, <1>10 DEF SameIn
  <2> QED BY <1>10, <1>12, <2>1, <2>2, <2>3, ReadyStep
<1>17. ImplTypeOK'
  <2>1. op' \in OpType \cup {NoOp}
    BY <1>1, <1>6
  <2> QED BY <1>1, <1>10, <2>1 DEF DelayedInv, ImplTypeOK, implVars, ItersType
<1> QED BY <1>10, <1>13, <1>14, <1>15, <1>16, <1>17 DEF DelayedInv

\* The client goes on with a copy, which has the same states and no iterators.
LEMMA CopyFstInv ==
  ASSUME DelayedInv, CopyFst
  PROVE  DelayedInv'
<1>1. /\ op = NoOp /\ op' = NoOp /\ ~gc.on /\ CopyStates
      /\ iters' = [it \in AllIters |-> NoIter] /\ siter' = NoSIter /\ UNCHANGED implVars
  BY DEF CopyFst, Idle
<1>2. /\ state_vec' = [slot \in Slots |-> IF state_vec[slot] = Null THEN Null
                                          ELSE [state_vec[slot] EXCEPT !.ref = 0]]
      /\ first_id' = first_id /\ gc' = gc
  BY <1>1 DEF CopyStates
<1>3. StoreInv'
  BY <1>1, CopyStatesInv DEF DelayedInv
<1>4. \A t \in Slots : state_vec'[t] # Null => SameIn(t) /\ state_vec'[t].ref = 0
  <2> SUFFICES ASSUME NEW t \in Slots, state_vec'[t] # Null
               PROVE  SameIn(t) /\ state_vec'[t].ref = 0
    OBVIOUS
  <2>1. state_vec[t] # Null /\ state_vec'[t] = [state_vec[t] EXCEPT !.ref = 0]
    BY <1>2
  <2>2. state_vec[t] \in CacheState
    BY <2>1 DEF DelayedInv, StoreInv, StoreTypeOK
  <2>3. LET b == [state_vec[t] EXCEPT !.ref = 0]
        IN  /\ b.arcs = state_vec[t].arcs /\ b.neps = state_vec[t].neps /\ b.ref = 0
            /\ b.final = state_vec[t].final /\ b.flags = state_vec[t].flags
    BY <2>2 DEF CacheState
  <2>4. Value(t)' = Value(t)
    BY <1>2 DEF Value
  <2> QED BY <2>1, <2>3, <2>4 DEF SameIn
<1>5. Content'
  <2>1. \A t : Pushed(t) = <<>> /\ EpsSet(t) = 0
    BY <1>1, NoProgress
  <2>2. \A t : Pushed(t)' = <<>> /\ EpsSet(t)' = 0
    BY <1>1, NoProgressNext
  <2> QED BY <1>4, <2>1, <2>2, ContentStep DEF DelayedInv
<1>6. \A it \in AllIters : iters'[it] = NoIter /\ iters'[it].slot = Null
  BY <1>1 DEF NoIter
<1>7. ItersStored'
  BY <1>6 DEF ItersStored
<1>8. RefsAreIterators'
  <2>1. \A t \in Slots : {it \in AllIters : iters'[it].slot = t} = {}
    BY <1>6, IdsInSlots
  <2> QED BY <1>4, <2>1, FS_EmptySet DEF RefsAreIterators
<1>9. siter'.u = NoStateId /\ siter' \in [on : BOOLEAN, s : Nat, u : Ids \cup {NoStateId}]
  BY <1>1 DEF NoSIter
<1>10. OpShape' /\ OpIter' /\ OpState' /\ OpCollects' /\ StateIterOK'
  BY <1>1, <1>2, <1>6, <1>9 DEF OpShape, OpIter, OpState, OpCollects, StateIterOK, AllIters
<1>11. ReadyExpanded'
  BY <1>6 DEF ReadyExpanded, Ready, AllIters
<1>12. ImplTypeOK'
  <2>1. iters' \in ItersType
    BY <1>1 DEF NoIter, ItersType
  <2> QED BY <1>1, <1>9, <2>1 DEF DelayedInv, ImplTypeOK, implVars, ItersType
<1> QED BY <1>3, <1>5, <1>7, <1>8, <1>10, <1>11, <1>12 DEF DelayedInv

LEMMA DelayedInitInv ==
  ASSUME DelayedInit
  PROVE  DelayedInv
<1>1. /\ StoreInit /\ nknown_states = 0 /\ min_unexpanded = 0 /\ max_expanded = -1
      /\ op = NoOp /\ iters = [it \in AllIters |-> NoIter] /\ siter = NoSIter
  BY DEF DelayedInit
<1>2. StoreInv /\ (\A t \in Slots : state_vec[t] = Null) /\ ~gc.on
  BY <1>1, StoreInitInv DEF StoreInit, NoGC
<1>3. Content /\ RefsAreIterators
  BY <1>2 DEF Content, RefsAreIterators
<1>4. \A it \in AllIters : iters[it] = NoIter /\ iters[it].slot = Null
  BY <1>1 DEF NoIter
<1>5. ItersStored /\ ReadyExpanded
  BY <1>4 DEF ItersStored, ReadyExpanded, Ready, AllIters
<1>6. OpShape /\ OpIter /\ OpState /\ OpCollects
  BY <1>1, <1>2 DEF OpShape, OpIter, OpState, OpCollects
<1>7. StateIterOK
  BY <1>1, <1>4 DEF StateIterOK, NoSIter, AllIters
<1>8. ImplTypeOK
  <2>1. iters \in ItersType
    BY <1>1 DEF NoIter, ItersType
  <2> QED BY <1>1, <2>1, CacheConstants DEF ImplTypeOK, ItersType, NoSIter
<1> QED BY <1>2, <1>3, <1>5, <1>6, <1>7, <1>8 DEF DelayedInv

LEMMA DelayedStutterInv ==
  ASSUME DelayedInv, UNCHANGED vars
  PROVE  DelayedInv'
<1>1. UNCHANGED <<storeVars, implVars, op, iters, siter, answer>>
  BY DEF vars, clientVars
<1>2. StoreInv'
  BY <1>1, StoreInvStutter DEF DelayedInv
<1>3. UNCHANGED <<state_vec, first_id, ptr, gc, nknown_states, min_unexpanded, max_expanded>>
  BY <1>1 DEF storeVars, implVars
<1>4. Content' /\ ItersStored' /\ RefsAreIterators'
  BY <1>1, <1>3 DEF DelayedInv, Content, StateOK, Pushed, EpsSet, Expanding, Value, ItersStored,
     SlotOf, RefsAreIterators
<1>5. OpShape' /\ OpIter' /\ OpCollects' /\ StateIterOK' /\ ReadyExpanded' /\ ImplTypeOK'
  BY <1>1, <1>3 DEF DelayedInv, OpShape, OpIter, OpCollects, StateIterOK, ReadyExpanded, Ready,
     ImplTypeOK
<1>6. OpState'
  BY <1>1, <1>3 DEF DelayedInv, OpState, Pushed, Expanding, SlotOf, Stored
<1> QED BY <1>2, <1>4, <1>5, <1>6 DEF DelayedInv

LEMMA DelayedNextInv ==
  ASSUME DelayedInv, [DelayedNext]_vars
  PROVE  DelayedInv'
<1>1. CASE Start \/ CopyFst \/ NewStateIterator \/ SIterStep
  BY <1>1, PureCallsInv, CopyFstInv, SIterScanInv DEF SIterStep
<1>2. CASE CallStep
  BY <1>2, LookupInv, SetFinalInv, PinInv, PushArcInv, SetArcsInv, MarkArcsInv,
     ReturnAnswerInv, ReturnIterInv, CollectInv DEF CallStep
<1>3. CASE \E it \in Iters : CloseIter(it)
  BY <1>3, CloseIterInv
<1>4. ASSUME NEW s \in KnownIds, Final(s) \/ NumArcs(s)
      PROVE  DelayedInv'
  BY <1>4, MissInv, HitInv
<1>5. ASSUME NEW s \in KnownIds, NEW it \in Iters, InitArcIterator(it, s) \/ ArcIterator(it, s)
      PROVE  DelayedInv'
  BY <1>5, MissInv, InitHitInv, PureCallsInv
<1> QED BY <1>1, <1>2, <1>3, <1>4, <1>5, DelayedStutterInv DEF DelayedNext, ClientCall

-------------------------------------------------------------------------------
\* The invariant holds throughout, whatever the client does.
THEOREM DelayedInvariant == DelayedSpec => []DelayedInv
<1>1. DelayedInit => DelayedInv
  BY DelayedInitInv
<1>2. DelayedInv /\ [DelayedNext]_vars => DelayedInv'
  BY DelayedNextInv
<1> QED BY <1>1, <1>2, PTL DEF DelayedSpec

\* The reference counts of CacheState are exact: the arc iterators and the state
\* iterator (cache.h) neither leak a reference nor drop one that is in use.
THEOREM CountsExact == DelayedSpec => []RefsAreIterators
<1>1. DelayedInv => RefsAreIterators
  BY DEF DelayedInv
<1> QED BY <1>1, DelayedInvariant, PTL

\* A call that computed a state (ComposeFstImplBase::Final, NumArcs and
\* InitArcIterator) finds it when it looks it up again to return.
THEOREM ComputedIsFound == DelayedSpec => []ReturnFinds
<1>1. DelayedInv => ReturnFinds
  <2> SUFFICES ASSUME DelayedInv, op # NoOp, op.f = "Return"
               PROVE  HasFlag(op.s, IF op.name = "Final" THEN "Final" ELSE "Arcs")
    BY DEF ReturnFinds
  <2>1. op.stage = "act"
    BY DEF DelayedInv, OpShape
  <2>2. ptr = SlotOf(op.s) /\ state_vec[ptr] # Null
    BY <2>1, ActingAt
  <2>3. (IF op.name = "Final" THEN "Final" ELSE "Arcs") \in state_vec[ptr].flags
    BY DEF DelayedInv, OpState
  <2> QED BY <2>2, <2>3 DEF HasFlag, Stored
<1> QED BY <1>1, DelayedInvariant, PTL

\* The store keeps its invariants under the calls of a delayed FST as well: the two
\* collection schemes exclude each other, and no state is cached twice.
THEOREM DelayedStoreSafe == DelayedSpec => [](FirstSlotExclusive /\ NoAlias)
<1>1. DelayedInv => FirstSlotExclusive /\ NoAlias
  BY DEF DelayedInv, StoreInv
<1> QED BY <1>1, DelayedInvariant, PTL

-------------------------------------------------------------------------------
\* The refinement mapping, and what it comes to under the invariant.
OpenMap == [it \in Iters |-> IF Ready(it) THEN iters[it].s ELSE NoStateId]

SeenMap == [it \in Iters |-> IF Ready(it) /\ state_vec[iters[it].slot] # Null
                             THEN state_vec[iters[it].slot].arcs ELSE <<>>]

ArcsSeen(o) == [it \in Iters |-> IF o[it] = NoStateId THEN <<>> ELSE RefArcs[o[it]]]

LEMMA SeenIsExpanded ==
  ASSUME DelayedInv
  PROVE  /\ SeenMap = ArcsSeen(OpenMap)
         /\ \A it \in Iters : OpenMap[it] # NoStateId <=> Ready(it)
<1>1. ASSUME NEW it \in Iters, Ready(it)
      PROVE  /\ OpenMap[it] = iters[it].s /\ iters[it].s \in Ids
             /\ SeenMap[it] = RefArcs[iters[it].s]
  <2>1. iters[it].slot # Null /\ it \in AllIters
    BY <1>1 DEF Ready, AllIters
  <2>2. PICK t \in Slots : /\ t = iters[it].slot /\ iters[it].s \in Ids
                           /\ t = SlotOf(iters[it].s) /\ state_vec[t] # Null
    BY <2>1, IterPins DEF DelayedInv
  <2>3. Value(t) = iters[it].s
    BY <2>2, SlotValue DEF DelayedInv, Stored
  <2>4. "Arcs" \in state_vec[t].flags
    BY <1>1, <2>2 DEF DelayedInv, ReadyExpanded
  <2>5. state_vec[t].arcs = RefArcs[iters[it].s]
    BY <2>2, <2>3, <2>4 DEF DelayedInv, Content, StateOK
  <2> QED BY <1>1, <2>2, <2>5 DEF OpenMap, SeenMap
<1>2. ASSUME NEW it \in Iters, ~Ready(it)
      PROVE  OpenMap[it] = NoStateId /\ SeenMap[it] = <<>>
  BY <1>2 DEF OpenMap, SeenMap
<1>3. \A it \in Iters : OpenMap[it] # NoStateId <=> Ready(it)
  BY <1>1, <1>2, IdsInSlots
<1>4. \A it \in Iters : SeenMap[it] = ArcsSeen(OpenMap)[it]
  BY <1>1, <1>2, IdsInSlots DEF ArcsSeen
<1>5. SeenMap = ArcsSeen(OpenMap)
  BY <1>4 DEF SeenMap, ArcsSeen
<1> QED BY <1>3, <1>5

LEMMA SeenAlways == DelayedInv => SeenMap = ArcsSeen(OpenMap)
BY SeenIsExpanded

LEMMA SeenNext == DelayedInv' => (SeenMap = ArcsSeen(OpenMap))'
BY SeenAlways, PTL

\* The steps of the plain FST, in terms of the mapping.
LEMMA ToStutter ==
  ASSUME UNCHANGED <<OpenMap, SeenMap, answer>>
  PROVE  UNCHANGED Plain!plainVars
BY DEF Plain!plainVars, OpenMap, SeenMap

LEMMA ToOther ==
  ASSUME UNCHANGED <<OpenMap, SeenMap>>, answer' = NoAnswer
  PROVE  Plain!PlainNext
BY DEF Plain!PlainNext, Plain!Other, Plain!NoAnswer, NoAnswer, OpenMap, SeenMap

LEMMA ToQuery ==
  ASSUME UNCHANGED <<OpenMap, SeenMap>>, NEW s \in Ids,
         \/ answer' = [query |-> "Final", s |-> s, weight |-> RefFinal[s]]
         \/ answer' = [query |-> "NumArcs", s |-> s, narcs |-> Len(RefArcs[s]),
                       neps |-> NumEps(RefArcs[s])]
  PROVE  Plain!PlainNext
<1>1. Plain!Query(s)
  BY DEF Plain!Query, Plain!FinalAnswer, Plain!NumArcsAnswer, OpenMap, SeenMap
<1> QED BY <1>1 DEF Plain!PlainNext

LEMMA ToOpen ==
  ASSUME DelayedInv, DelayedInv', NEW it \in Iters, NEW s \in Ids, OpenMap[it] = NoStateId,
         OpenMap' = [OpenMap EXCEPT ![it] = s], answer' = NoAnswer
  PROVE  Plain!PlainNext
<1>1. SeenMap = ArcsSeen(OpenMap) /\ SeenMap' = ArcsSeen(OpenMap)'
  BY SeenAlways, SeenNext
<1>2. \A i \in Iters : OpenMap'[i] = IF i = it THEN s ELSE OpenMap[i]
  BY DEF OpenMap
<1>3. \A i \in Iters : SeenMap'[i] = IF i = it THEN RefArcs[s] ELSE SeenMap[i]
  BY <1>1, <1>2, IdsInSlots DEF ArcsSeen
<1>4. SeenMap' = [SeenMap EXCEPT ![it] = RefArcs[s]]
  BY <1>3 DEF SeenMap
<1>5. Plain!Open(it, s)
  BY <1>4 DEF Plain!Open, Plain!NoAnswer, NoAnswer, OpenMap, SeenMap
<1> QED BY <1>5 DEF Plain!PlainNext

LEMMA ToClose ==
  ASSUME DelayedInv, DelayedInv', NEW it \in Iters, OpenMap[it] # NoStateId,
         OpenMap' = [OpenMap EXCEPT ![it] = NoStateId], answer' = NoAnswer
  PROVE  Plain!PlainNext
<1>1. SeenMap = ArcsSeen(OpenMap) /\ SeenMap' = ArcsSeen(OpenMap)'
  BY SeenAlways, SeenNext
<1>2. \A i \in Iters : OpenMap'[i] = IF i = it THEN NoStateId ELSE OpenMap[i]
  BY DEF OpenMap
<1>3. \A i \in Iters : SeenMap'[i] = IF i = it THEN <<>> ELSE SeenMap[i]
  BY <1>1, <1>2 DEF ArcsSeen
<1>4. SeenMap' = [SeenMap EXCEPT ![it] = <<>>]
  BY <1>3 DEF SeenMap
<1>5. Plain!Close(it)
  BY <1>4 DEF Plain!Close, Plain!NoAnswer, NoAnswer, OpenMap, SeenMap
<1> QED BY <1>5 DEF Plain!PlainNext

\* The client sees no iterator open, close or move.
LEMMA SameOpen ==
  ASSUME DelayedInv, DelayedInv',
         \A it \in Iters : /\ Ready(it)' <=> Ready(it)
                           /\ Ready(it) => iters'[it].s = iters[it].s
  PROVE  UNCHANGED <<OpenMap, SeenMap>>
<1>1. OpenMap' = OpenMap
  BY DEF OpenMap
<1>2. SeenMap = ArcsSeen(OpenMap) /\ SeenMap' = ArcsSeen(OpenMap)'
  BY SeenAlways, SeenNext
<1> QED BY <1>1, <1>2 DEF ArcsSeen

\* One iterator becomes visible to the client.
LEMMA OneOpened ==
  ASSUME NEW it \in Iters, NEW s, ~Ready(it), Ready(it)', iters'[it].s = s,
         \A i \in Iters \ {it} : /\ Ready(i)' <=> Ready(i)
                                 /\ Ready(i) => iters'[i].s = iters[i].s
  PROVE  OpenMap[it] = NoStateId /\ OpenMap' = [OpenMap EXCEPT ![it] = s]
<1>1. OpenMap[it] = NoStateId
  BY DEF OpenMap
<1>2. \A i \in Iters : OpenMap'[i] = IF i = it THEN s ELSE OpenMap[i]
  BY DEF OpenMap
<1>3. OpenMap' = [OpenMap EXCEPT ![it] = s]
  BY <1>2 DEF OpenMap
<1> QED BY <1>1, <1>3

LEMMA CallsMap ==
  ASSUME DelayedInv, DelayedInv',
         \/ Start \/ NewStateIterator \/ SIterNext \/ SIterDone \/ SIterExpand
         \/ \E s \in KnownIds, it \in Iters :
              ArcIterator(it, s) \/ (InitArcIterator(it, s) /\ ~HasFlag(s, "Arcs"))
         \/ \E s \in KnownIds :
              \/ Final(s) /\ ~HasFlag(s, "Final")
              \/ NumArcs(s) /\ ~HasFlag(s, "Arcs")
  PROVE  Plain!PlainNext
<1>1. Null \notin Iters /\ StateIter \notin Iters
  BY DelayedConstants
<1>2. op = NoOp /\ answer' = NoAnswer /\ iters' = iters
  BY DEF Start, NewStateIterator, SIterNext, SIterDone, SIterExpand, ArcIterator,
         InitArcIterator, Final, NumArcs, Idle
<1>3. op' = NoOp \/ op'.it \notin Iters \/ iters[op'.it] = NoIter
  <2>1. CASE Start \/ NewStateIterator \/ SIterNext \/ SIterDone
    BY <1>2, <2>1 DEF Start, NewStateIterator, SIterNext, SIterDone
  <2>2. CASE SIterExpand
    BY <1>1, <2>2 DEF SIterExpand, Call
  <2>3. CASE \E s \in KnownIds, it \in Iters :
               ArcIterator(it, s) \/ (InitArcIterator(it, s) /\ ~HasFlag(s, "Arcs"))
    BY <2>3 DEF ArcIterator, InitArcIterator, Call
  <2>4. CASE \E s \in KnownIds :
               \/ Final(s) /\ ~HasFlag(s, "Final")
               \/ NumArcs(s) /\ ~HasFlag(s, "Arcs")
    BY <1>1, <2>4 DEF Final, NumArcs, Call
  <2> QED BY <2>1, <2>2, <2>3, <2>4
<1>4. \A it \in Iters : Ready(it)' <=> Ready(it)
  BY <1>2, <1>3 DEF Ready, NoIter
<1>5. UNCHANGED <<OpenMap, SeenMap>>
  BY <1>2, <1>4, SameOpen
<1> QED BY <1>2, <1>5, ToOther

\* What the cache answers is what the FST defines.
LEMMA CachedAnswer ==
  ASSUME DelayedInv, op = NoOp \/ op.f = "Return", NEW s \in Ids
  PROVE  /\ HasFlag(s, "Final") =>
              FinalOf(s) = [query |-> "Final", s |-> s, weight |-> RefFinal[s]]
         /\ HasFlag(s, "Arcs") =>
              NumArcsOf(s) = [query |-> "NumArcs", s |-> s, narcs |-> Len(RefArcs[s]),
                              neps |-> NumEps(RefArcs[s])]
<1> SUFFICES ASSUME Stored(s)
             PROVE  /\ HasFlag(s, "Final") =>
                         FinalOf(s) = [query |-> "Final", s |-> s, weight |-> RefFinal[s]]
                    /\ HasFlag(s, "Arcs") =>
                         NumArcsOf(s) = [query |-> "NumArcs", s |-> s,
                                         narcs |-> Len(RefArcs[s]),
                                         neps |-> NumEps(RefArcs[s])]
  BY DEF HasFlag
<1>1. SlotOf(s) \in Slots /\ Value(SlotOf(s)) = s /\ state_vec[SlotOf(s)] # Null
  BY SlotValue DEF DelayedInv, Stored
<1>2. StateOK(state_vec[SlotOf(s)], s)
  BY <1>1 DEF DelayedInv, Content
<1> QED BY <1>2 DEF StateOK, HasFlag, FinalOf, NumArcsOf

LEMMA HitMaps ==
  ASSUME DelayedInv, DelayedInv', NEW s \in KnownIds,
         \/ Final(s) /\ HasFlag(s, "Final")
         \/ NumArcs(s) /\ HasFlag(s, "Arcs")
  PROVE  Plain!PlainNext
<1>1. s \in Ids
  BY CacheConstants DEF KnownIds, Ids, DelayedInv, ImplTypeOK
<1>2. op = NoOp /\ UNCHANGED <<op, iters>>
  BY DEF Final, NumArcs, Idle
<1>3. UNCHANGED <<OpenMap, SeenMap>>
  BY <1>2, SameOpen DEF Ready
<1>4. \/ answer' = FinalOf(s) /\ HasFlag(s, "Final")
      \/ answer' = NumArcsOf(s) /\ HasFlag(s, "Arcs")
  <2>1. CASE Final(s) /\ HasFlag(s, "Final")
    BY <2>1 DEF Final
  <2>2. CASE NumArcs(s) /\ HasFlag(s, "Arcs")
    BY <2>2 DEF NumArcs
  <2> QED BY <2>1, <2>2
<1>5. \/ answer' = [query |-> "Final", s |-> s, weight |-> RefFinal[s]]
      \/ answer' = [query |-> "NumArcs", s |-> s, narcs |-> Len(RefArcs[s]),
                    neps |-> NumEps(RefArcs[s])]
  BY <1>1, <1>2, <1>4, CachedAnswer
<1> QED BY <1>1, <1>3, <1>5, ToQuery

LEMMA ReturnAnswerMaps ==
  ASSUME DelayedInv, DelayedInv', ReturnAnswer
  PROVE  Plain!PlainNext
<1>1. /\ op # NoOp /\ op.f = "Return" /\ op.stage = "act" /\ op.name \in {"Final", "NumArcs"}
      /\ answer' = (IF op.name = "Final" THEN FinalOf(op.s) ELSE NumArcsOf(op.s))
      /\ op' = NoOp /\ iters' = iters
  BY DEF ReturnAnswer, Acting
<1>2. op.it = Null
  BY <1>1 DEF DelayedInv, OpShape
<1>3. UNCHANGED <<OpenMap, SeenMap>>
  BY <1>1, <1>2, DelayedConstants, SameOpen DEF Ready
<1>4. PICK s \in Ids, slot \in Slots :
           /\ s = op.s /\ slot = ptr /\ slot = SlotOf(s) /\ state_vec[slot] # Null
  BY <1>1, ActingAt
<1>5. HasFlag(s, IF op.name = "Final" THEN "Final" ELSE "Arcs")
  BY <1>1, <1>4 DEF DelayedInv, OpState, HasFlag, Stored
<1>6. \/ answer' = [query |-> "Final", s |-> s, weight |-> RefFinal[s]]
      \/ answer' = [query |-> "NumArcs", s |-> s, narcs |-> Len(RefArcs[s]),
                    neps |-> NumEps(RefArcs[s])]
  BY <1>1, <1>4, <1>5, CachedAnswer
<1> QED BY <1>3, <1>6, ToQuery

LEMMA InitHitMaps ==
  ASSUME DelayedInv, DelayedInv', NEW s \in KnownIds, NEW it \in Iters,
         InitArcIterator(it, s), HasFlag(s, "Arcs")
  PROVE  Plain!PlainNext
<1>1. s \in Ids /\ it \in AllIters /\ it # StateIter
  BY CacheConstants, DelayedConstants DEF KnownIds, Ids, AllIters, DelayedInv, ImplTypeOK
<1>2. /\ op = NoOp /\ op' = NoOp /\ iters[it] = NoIter /\ answer' = NoAnswer
      /\ iters' = [iters EXCEPT ![it] = [s |-> s, slot |-> SlotOf(s)]]
  BY DEF InitArcIterator, Idle
<1>3. SlotOf(s) # Null /\ iters \in ItersType
  BY <1>1, SlotValue, IdsInSlots DEF DelayedInv, ImplTypeOK, ItersType
<1>4. iters'[it].s = s /\ iters'[it].slot # Null /\ \A i \in Iters \ {it} : iters'[i] = iters[i]
  BY <1>1, <1>2, <1>3 DEF ItersType, AllIters
<1>5. ~Ready(it) /\ Ready(it)'
  BY <1>1, <1>2, <1>4 DEF Ready, NoIter
<1>6. OpenMap[it] = NoStateId /\ OpenMap' = [OpenMap EXCEPT ![it] = s]
  BY <1>2, <1>4, <1>5, OneOpened DEF Ready
<1> QED BY <1>1, <1>2, <1>6, ToOpen

LEMMA ReturnIterMaps ==
  ASSUME DelayedInv, DelayedInv', ReturnIter
  PROVE  Plain!PlainNext
<1>1. /\ op # NoOp /\ op.f = "Return" /\ op.stage = "act" /\ op.name = "InitArcIterator"
      /\ op' = NoOp /\ answer' = answer
      /\ iters' = [iters EXCEPT ![op.it] = [s |-> op.s, slot |-> SlotOf(op.s)]]
  BY DEF ReturnIter, Acting
<1>2. PICK s \in Ids, slot \in Slots : s = op.s /\ slot = SlotOf(s)
  BY <1>1, ActingAt
<1>3. PICK it \in Iters : it = op.it /\ iters[it] = NoIter /\ answer = NoAnswer
  BY <1>1 DEF DelayedInv, OpShape, OpIter
<1>4. it \in AllIters /\ it # StateIter /\ iters \in ItersType /\ slot # Null
  BY DelayedConstants, IdsInSlots DEF AllIters, DelayedInv, ImplTypeOK, ItersType
<1>5. iters'[it].s = s /\ iters'[it].slot # Null /\ \A i \in Iters \ {it} : iters'[i] = iters[i]
  BY <1>1, <1>2, <1>3, <1>4 DEF ItersType, AllIters
<1>6. ~Ready(it) /\ Ready(it)'
  BY <1>1, <1>3, <1>4, <1>5 DEF Ready
<1>7. OpenMap[it] = NoStateId /\ OpenMap' = [OpenMap EXCEPT ![it] = s]
  BY <1>1, <1>3, <1>5, <1>6, OneOpened DEF Ready
<1> QED BY <1>1, <1>3, <1>7, ToOpen

LEMMA CloseMaps ==
  ASSUME DelayedInv, DelayedInv', NEW it \in Iters, CloseIter(it)
  PROVE  Plain!PlainNext
<1>1. /\ op = NoOp /\ op' = NoOp /\ answer' = NoAnswer /\ iters[it] # NoIter
      /\ iters' = [iters EXCEPT ![it] = NoIter]
  BY DEF CloseIter, Idle
<1>2. it \in AllIters /\ it # StateIter /\ iters \in ItersType /\ NoIter.slot = Null
  BY DelayedConstants DEF AllIters, DelayedInv, ImplTypeOK, ItersType, NoIter
<1>3. iters[it].slot # Null
  BY <1>1, <1>2 DEF DelayedInv, ItersStored
<1>4. iters'[it] = NoIter /\ \A i \in Iters \ {it} : iters'[i] = iters[i]
  BY <1>1, <1>2 DEF ItersType, AllIters
<1>5. Ready(it) /\ ~Ready(it)' /\ \A i \in Iters \ {it} : Ready(i)' <=> Ready(i)
  BY <1>1, <1>2, <1>3, <1>4 DEF Ready
<1>6. \A i \in Iters : OpenMap'[i] = IF i = it THEN NoStateId ELSE OpenMap[i]
  BY <1>4, <1>5 DEF OpenMap
<1>7. OpenMap' = [OpenMap EXCEPT ![it] = NoStateId]
  BY <1>6 DEF OpenMap
<1>8. OpenMap[it] # NoStateId
  BY <1>5, SeenIsExpanded
<1> QED BY <1>1, <1>7, <1>8, ToClose

LEMMA CopyMaps ==
  ASSUME CopyFst
  PROVE  Plain!PlainNext
<1>1. iters' = [it \in AllIters |-> NoIter] /\ answer' = NoAnswer
  BY DEF CopyFst
<1>2. \A it \in Iters : ~Ready(it)'
  BY <1>1 DEF Ready, AllIters, NoIter
<1>3. OpenMap' = [it \in Iters |-> NoStateId] /\ SeenMap' = [it \in Iters |-> <<>>]
  BY <1>2 DEF OpenMap, SeenMap
<1>4. Plain!Switch
  BY <1>1, <1>3 DEF Plain!Switch, Plain!NoAnswer, NoAnswer, OpenMap, SeenMap
<1> QED BY <1>4 DEF Plain!PlainNext

\* The steps in the middle of a call are not seen by the client.
LEMMA MiddleMaps ==
  ASSUME DelayedInv, DelayedInv',
         Lookup \/ SetFinal \/ PushArc \/ SetArcs \/ Collect \/ SIterScan
  PROVE  UNCHANGED Plain!plainVars
<1>1. CASE SIterScan
  <2>1. op = NoOp /\ op' = NoOp /\ answer' = answer /\ iters' = [iters EXCEPT ![StateIter] = NoIter]
    BY <1>1 DEF SIterScan
  <2>2. iters \in ItersType /\ StateIter \notin Iters
    BY DelayedConstants DEF DelayedInv, ImplTypeOK, ItersType
  <2>3. \A it \in Iters : iters'[it] = iters[it]
    BY <2>1, <2>2 DEF ItersType, AllIters
  <2>4. UNCHANGED <<OpenMap, SeenMap>>
    BY <2>1, <2>3, SameOpen DEF Ready
  <2> QED BY <2>1, <2>4, ToStutter
<1>2. CASE Lookup \/ SetFinal \/ PushArc \/ SetArcs \/ Collect
  <2>1. iters' = iters /\ answer' = answer
    BY <1>2 DEF Lookup, SetFinal, PushArc, SetArcs, Collect, clientVars
  <2>2. CASE Collect
    <3>1. op' = op
      BY <2>2 DEF Collect
    <3>2. UNCHANGED <<OpenMap, SeenMap>>
      BY <2>1, <3>1, SameOpen DEF Ready
    <3> QED BY <2>1, <3>2, ToStutter
  <2>3. CASE Lookup \/ SetFinal \/ PushArc \/ SetArcs
    <3>1. op # NoOp
      BY <2>3 DEF Lookup, SetFinal, PushArc, SetArcs, Acting
    <3>2. op \in OpType
      BY <3>1, OpType1
    <3>3. op'.it = op.it /\ op'.name = op.name
      BY <2>3, <3>2 DEF Lookup, SetFinal, PushArc, SetArcs, OpType
    <3>4. op'.name # NoOp.name
      BY <3>2, <3>3, OpFields DEF NoOp, Names
    <3>5. op' # NoOp
      BY <3>4
    <3>6. UNCHANGED <<OpenMap, SeenMap>>
      BY <2>1, <3>1, <3>3, <3>5, SameOpen DEF Ready
    <3> QED BY <2>1, <3>6, ToStutter
  <2> QED BY <1>2, <2>2, <2>3
<1> QED BY <1>1, <1>2

\* ArcIterator<ComposeFst> is open as soon as its state is expanded.
LEMMA PinMaps ==
  ASSUME DelayedInv, DelayedInv', Pin
  PROVE  Plain!PlainNext \/ UNCHANGED Plain!plainVars
<1> DEFINE has == "Arcs" \in state_vec[ptr].flags
<1>1. /\ op # NoOp /\ op.f = "Pin" /\ op.stage = "act" /\ answer' = answer
      /\ op' = IF has THEN NoOp ELSE Call(op.name, op.s, op.it, ExpandFrom(op.s))
      /\ iters' = [iters EXCEPT ![op.it] = [s |-> op.s, slot |-> ptr]]
  BY DEF Pin, Acting
<1>2. PICK s \in Ids, slot \in Slots : s = op.s /\ slot = ptr
  BY <1>1, ActingAt
<1>3. op.name = "ArcIterator"
  <2>1. op.name \in Names
    BY <1>1, OpType1
  <2> QED BY <1>1, <2>1 DEF DelayedInv, OpShape, Names
<1>4. PICK it \in AllIters : it = op.it /\ iters[it] = NoIter /\ answer = NoAnswer
  BY <1>1, <1>3 DEF DelayedInv, OpShape, OpIter
<1>5. iters \in ItersType /\ slot # Null
  BY IdsInSlots DEF DelayedInv, ImplTypeOK, ItersType
<1>6. /\ iters'[it].s = s /\ iters'[it].slot = slot
      /\ \A i \in Iters \ {it} : iters'[i] = iters[i]
  BY <1>1, <1>2, <1>4, <1>5 DEF ItersType, AllIters
<1>7. ~has => op' # NoOp /\ op'.it = it
  <2>1. ~has => op' = Call(op.name, op.s, op.it, ExpandFrom(op.s))
    BY <1>1
  <2>2. ~has => op'.it = it /\ op'.name = "ArcIterator"
    BY <1>3, <1>4, <2>1 DEF Call
  <2>3. NoOp.name # "ArcIterator"
    BY DEF NoOp
  <2> QED BY <2>2, <2>3
<1>8. \A i \in Iters \ {it} : Ready(i)' <=> Ready(i)
  BY <1>1, <1>4, <1>6, <1>7 DEF Ready
<1>9. ~Ready(it) /\ (Ready(it)' <=> has /\ it # StateIter)
  BY <1>1, <1>4, <1>5, <1>6, <1>7 DEF Ready
<1>10. CASE has /\ it # StateIter
  <2>1. it \in Iters
    BY <1>10 DEF AllIters
  <2>2. OpenMap[it] = NoStateId /\ OpenMap' = [OpenMap EXCEPT ![it] = s]
    BY <1>6, <1>8, <1>9, <1>10, <2>1, OneOpened
  <2> QED BY <1>1, <1>4, <2>1, <2>2, ToOpen
<1>11. CASE ~(has /\ it # StateIter)
  <2>1. \A i \in Iters : /\ Ready(i)' <=> Ready(i)
                         /\ Ready(i) => iters'[i].s = iters[i].s
    BY <1>6, <1>8, <1>9, <1>11
  <2>2. UNCHANGED <<OpenMap, SeenMap>>
    BY <2>1, SameOpen
  <2> QED BY <1>1, <2>2, ToStutter
<1> QED BY <1>10, <1>11

LEMMA MarkArcsMaps ==
  ASSUME DelayedInv, DelayedInv', MarkArcs
  PROVE  Plain!PlainNext \/ UNCHANGED Plain!plainVars
<1>1. /\ op # NoOp /\ op.f = "MarkArcs" /\ op.stage = "act" /\ answer' = answer
      /\ op' = (IF op.name = "ArcIterator" THEN NoOp ELSE [op EXCEPT !.f = "Return"])
      /\ iters' = iters
  BY DEF MarkArcs, Acting, clientVars
<1>2. op \in OpType /\ op.name \in Names
  BY <1>1, OpType1
<1>3. CASE op.name # "ArcIterator"
  <2>1. op'.it = op.it /\ op'.name = op.name
    BY <1>1, <1>2, <1>3 DEF OpType
  <2>2. op' # NoOp
    BY <1>2, <2>1 DEF NoOp, Names
  <2>3. UNCHANGED <<OpenMap, SeenMap>>
    BY <1>1, <2>1, <2>2, SameOpen DEF Ready
  <2> QED BY <1>1, <2>3, ToStutter
<1>4. CASE op.name = "ArcIterator" /\ op.it = StateIter
  <2>1. UNCHANGED <<OpenMap, SeenMap>>
    BY <1>1, <1>4, SameOpen, DelayedConstants DEF Ready
  <2> QED BY <1>1, <2>1, ToStutter
<1>5. CASE op.name = "ArcIterator" /\ op.it # StateIter
  <2>1. PICK s \in Ids : s = op.s
    BY <1>1, OpType1
  <2>2. PICK it \in Iters : /\ it = op.it /\ it # StateIter /\ answer = NoAnswer
                            /\ iters[it].slot # Null /\ iters[it].s = s
    BY <1>1, <1>5, <2>1 DEF DelayedInv, OpShape, OpIter, AllIters
  <2>3. ~Ready(it) /\ Ready(it)' /\ \A i \in Iters \ {it} : Ready(i)' <=> Ready(i)
    BY <1>1, <1>5, <2>2 DEF Ready
  <2>4. OpenMap[it] = NoStateId /\ OpenMap' = [OpenMap EXCEPT ![it] = s]
    BY <1>1, <2>2, <2>3, OneOpened
  <2> QED BY <1>1, <2>2, <2>4, ToOpen
<1> QED BY <1>3, <1>4, <1>5

LEMMA DelayedStepMaps ==
  ASSUME DelayedInv, DelayedInv', [DelayedNext]_vars
  PROVE  [Plain!PlainNext]_(Plain!plainVars)
<1>1. CASE Start \/ CopyFst \/ NewStateIterator \/ SIterStep
  BY <1>1, CallsMap, CopyMaps, MiddleMaps DEF SIterStep
<1>2. CASE CallStep
  BY <1>2, MiddleMaps, PinMaps, MarkArcsMaps, ReturnAnswerMaps, ReturnIterMaps DEF CallStep
<1>3. CASE \E it \in Iters : CloseIter(it)
  BY <1>3, CloseMaps
<1>4. ASSUME NEW s \in KnownIds, Final(s) \/ NumArcs(s)
      PROVE  Plain!PlainNext
  BY <1>4, CallsMap, HitMaps
<1>5. ASSUME NEW s \in KnownIds, NEW it \in Iters, InitArcIterator(it, s) \/ ArcIterator(it, s)
      PROVE  Plain!PlainNext
  BY <1>5, CallsMap, InitHitMaps
<1>6. CASE UNCHANGED vars
  <2>1. UNCHANGED <<iters, op, answer, state_vec>>
    BY <1>6 DEF vars, storeVars, clientVars
  <2>2. UNCHANGED <<OpenMap, SeenMap>>
    BY <2>1, SameOpen DEF Ready
  <2> QED BY <2>1, <2>2, ToStutter
<1> QED BY <1>1, <1>2, <1>3, <1>4, <1>5, <1>6 DEF DelayedNext, ClientCall

LEMMA DelayedInitMaps ==
  ASSUME DelayedInit
  PROVE  Plain!PlainInit
<1>1. iters = [it \in AllIters |-> NoIter] /\ answer = NoAnswer
  BY DEF DelayedInit
<1>2. \A it \in Iters : ~Ready(it)
  BY <1>1 DEF Ready, AllIters, NoIter
<1>3. OpenMap = [it \in Iters |-> NoStateId] /\ SeenMap = [it \in Iters |-> <<>>]
  BY <1>2 DEF OpenMap, SeenMap
<1> QED BY <1>1, <1>3 DEF Plain!PlainInit, Plain!NoAnswer, NoAnswer, OpenMap, SeenMap

\* A delayed FST implements the FST that the operation defines: whatever the cache
\* keeps, frees and computes again (cache.h), every query is answered and every arc
\* iterator shows its arcs as if all states had been expanded (compose.h).
THEOREM DelayedImplementsPlain == DelayedSpec => ImplementsPlain
<1>1. DelayedInit => Plain!PlainInit
  BY DelayedInitMaps
<1>2. DelayedInv /\ DelayedInv' /\ [DelayedNext]_vars => [Plain!PlainNext]_(Plain!plainVars)
  BY DelayedStepMaps
<1> QED BY <1>1, <1>2, DelayedInvariant, PTL DEF DelayedSpec, ImplementsPlain, Plain!PlainSpec

-----------------------------------------------------------------------------
(***************************************************************************)
(* A loop over the states of a delayed FST (CacheStateIterator) returns    *)
(* every reachable state, whatever other calls of the client expand, query *)
(* or copy in between, if the implementation tracks the expanded states    *)
(* (gc is on, or gc_limit is 0).  The run delayed_miss shows that without  *)
(* it the loop may miss states.                                            *)
(***************************************************************************)

\* The next states of s are known.
NextKnown(s) ==
  \A i \in 1 .. Len(RefArcs[s]) : NextState[RefArcs[s][i]] < nknown_states

\* s is marked as expanded.
Marked(s) ==
  \/ s < min_unexpanded
  \/ s + 1 <= Len(expanded_states) /\ expanded_states[s + 1] = TRUE

\* MinUnexpandedState reads expanded_states only where it has an entry.
MarksInRange ==
  max_expanded < min_unexpanded \/ max_expanded < Len(expanded_states)

StartKnown ==
  /\ has_start => RefStart < nknown_states
  /\ siter.on => has_start \/ RefStart = NoStateId

\* When Done() scans the arcs, its arc iterator is on the state it has expanded.
ScanExpanded ==
  siter.u # NoStateId =>
    IF op = NoOp
    THEN /\ iters[StateIter].s = siter.u
         /\ "Arcs" \in state_vec[iters[StateIter].slot].flags
    ELSE op.s = siter.u

IterInv ==
  /\ expanded_states \in Seq(BOOLEAN)
  /\ MarksInRange
  /\ \A s \in Ids : Marked(s) => NextKnown(s)
  /\ StartKnown
  /\ ScanExpanded

-------------------------------------------------------------------------------
LEMMA MarkExpandedType ==
  ASSUME NEW list \in Seq(BOOLEAN), NEW s \in Nat
  PROVE  /\ MarkExpanded(list, s) \in Seq(BOOLEAN)
         /\ Len(MarkExpanded(list, s)) >= s + 1 /\ Len(MarkExpanded(list, s)) >= Len(list)
         /\ \A i \in 1 .. Len(MarkExpanded(list, s)) :
              MarkExpanded(list, s)[i] = TRUE =>
                i = s + 1 \/ (i <= Len(list) /\ list[i] = TRUE)
<1> DEFINE n == IF Len(list) <= s THEN s + 1 ELSE Len(list)
           e(i) == IF i = s + 1 THEN TRUE ELSE i <= Len(list) /\ list[i]
           m == [i \in 1 .. n |-> e(i)]
<1>1. n \in Nat /\ n >= s + 1 /\ n >= Len(list)
  OBVIOUS
<1> HIDE DEF n
<1>2. ASSUME NEW i \in 1 .. n
      PROVE  e(i) \in BOOLEAN /\ (e(i) = TRUE => i = s + 1 \/ (i <= Len(list) /\ list[i] = TRUE))
  <2>1. i <= Len(list) => list[i] \in BOOLEAN
    BY <1>1
  <2> QED BY <2>1, Zenon
<1> HIDE DEF e
<1>3. m \in [1 .. n -> BOOLEAN]
  BY <1>2
<1>4. m \in Seq(BOOLEAN) /\ Len(m) = n
  BY <1>1, <1>3, SeqDef
<1>5. \A i \in 1 .. n : m[i] = e(i)
  OBVIOUS
<1>6. MarkExpanded(list, s) = m
  BY DEF MarkExpanded, n, e
<1> HIDE DEF m
<1> QED BY <1>1, <1>2, <1>4, <1>5, <1>6

\* A step that expands s, or scans it after it was expanded.
LEMMA ExpandStep ==
  ASSUME Tracking, ImplTypeOK, IterInv, NEW s \in Ids, SetExpandedState(s),
         nknown_states' = KnownArcs(RefArcs[s], nknown_states)
  PROVE  /\ expanded_states' \in Seq(BOOLEAN) /\ MarksInRange'
         /\ \A t \in Ids : Marked(t)' => NextKnown(t)'
         /\ nknown_states <= nknown_states'
<1> DEFINE n == nknown_states
           m == min_unexpanded
           list == expanded_states
<1>1. /\ n \in 0 .. NumIds /\ m \in Nat /\ max_expanded \in Int /\ s \in Nat
      /\ list \in Seq(BOOLEAN) /\ RefArcs[s] \in Seq(Arcs)
  BY IdsInSlots, DelayedConstants DEF ImplTypeOK, IterInv
<1>2. /\ nknown_states' \in 0 .. NumIds /\ n <= nknown_states' /\ NextKnown(s)'
  BY <1>1, KnownArcsType DEF NextKnown
<1>3. /\ max_expanded' = IF s > max_expanded THEN s ELSE max_expanded
      /\ min_unexpanded' = IF s = m THEN m + 1 ELSE m
      /\ expanded_states' = list \/ expanded_states' = MarkExpanded(list, s)
      /\ s >= m => expanded_states' = MarkExpanded(list, s)
  BY DEF SetExpandedState
<1>4. /\ expanded_states' \in Seq(BOOLEAN) /\ Len(expanded_states') >= Len(list)
      /\ s >= m => Len(expanded_states') >= s + 1
      /\ \A i \in 1 .. Len(expanded_states') : expanded_states'[i] = TRUE =>
           i = s + 1 \/ (i <= Len(list) /\ list[i] = TRUE)
  <2>1. CASE expanded_states' = list
    <3>1. s >= m => Len(list) >= s + 1
      BY <1>1, <1>3, <2>1, MarkExpandedType
    <3> QED BY <1>1, <2>1, <3>1
  <2>2. CASE expanded_states' = MarkExpanded(list, s)
    <3> DEFINE l == MarkExpanded(list, s)
    <3>1. /\ l \in Seq(BOOLEAN) /\ Len(l) >= s + 1 /\ Len(l) >= Len(list)
          /\ \A i \in 1 .. Len(l) : l[i] = TRUE =>
               i = s + 1 \/ (i <= Len(list) /\ list[i] = TRUE)
      BY <1>1, MarkExpandedType
    <3> HIDE DEF l
    <3> QED BY <2>2, <3>1 DEF l
  <2> QED BY <1>3, <2>1, <2>2
<1>5. ASSUME NEW t \in Ids, Marked(t)' PROVE t = s \/ Marked(t)
  <2>1. t \in Nat /\ t + 1 \in Nat
    BY IdsInSlots
  <2>2. CASE t < min_unexpanded'
    BY <1>1, <1>3, <2>1, <2>2 DEF Marked
  <2>3. CASE t + 1 <= Len(expanded_states') /\ expanded_states'[t + 1] = TRUE
    <3>1. t + 1 \in 1 .. Len(expanded_states')
      BY <1>4, <2>1, <2>3
    <3>2. t + 1 = s + 1 \/ (t + 1 <= Len(list) /\ list[t + 1] = TRUE)
      BY <1>4, <2>3, <3>1
    <3> QED BY <1>1, <2>1, <3>2 DEF Marked
  <2> QED BY <1>5, <2>2, <2>3 DEF Marked
<1>6. ASSUME NEW t \in Ids, Marked(t)' PROVE NextKnown(t)'
  <2>1. CASE t = s
    BY <1>2, <2>1
  <2>2. CASE t # s
    <3>1. NextKnown(t)
      BY <1>5, <1>6, <2>2 DEF IterInv
    <3>2. \A i \in 1 .. Len(RefArcs[t]) : NextState[RefArcs[t][i]] \in Nat
      <4>1. \A i \in 1 .. Len(RefArcs[t]) : RefArcs[t][i] \in Arcs
        BY DelayedConstants
      <4>2. \A arc \in Arcs : NextState[arc] \in Nat
        BY DelayedConstants, IdsInSlots
      <4> QED BY <4>1, <4>2
    <3> QED BY <1>1, <1>2, <3>1, <3>2 DEF NextKnown
  <2> QED BY <2>1, <2>2
<1>7. MarksInRange'
  <2>1. MarksInRange
    BY DEF IterInv
  <2>2. CASE s > max_expanded
    <3>1. s < min_unexpanded' \/ s < Len(expanded_states')
      BY <1>1, <1>3, <1>4, <2>2
    <3> QED BY <1>3, <2>2, <3>1 DEF MarksInRange
  <2>3. CASE ~(s > max_expanded)
    BY <1>1, <1>3, <1>4, <2>1, <2>3 DEF MarksInRange
  <2> QED BY <2>2, <2>3
<1> QED BY <1>2, <1>4, <1>6, <1>7

\* A step that leaves CacheBaseImpl's own state alone.
LEMMA QuietStep ==
  ASSUME IterInv, UNCHANGED implVars, siter'.on => siter.on, ScanExpanded'
  PROVE  IterInv'
<1>1. UNCHANGED <<has_start, nknown_states, expanded_states, min_unexpanded, max_expanded>>
  BY DEF implVars
<1>2. MarksInRange' /\ StartKnown'
  BY <1>1 DEF IterInv, MarksInRange, StartKnown
<1>3. \A s \in Ids : Marked(s)' => NextKnown(s)'
  BY <1>1 DEF IterInv, Marked, NextKnown
<1> QED BY <1>1, <1>2, <1>3 DEF IterInv

LEMMA IdleStepsIter ==
  ASSUME DelayedInv, IterInv, NEW s, NEW it,
         \/ Final(s) \/ NumArcs(s) \/ InitArcIterator(it, s) \/ ArcIterator(it, s)
         \/ CloseIter(it) \/ CopyFst \/ SIterNext
  PROVE  IterInv'
<1>1. UNCHANGED implVars /\ siter.u = NoStateId
  BY DEF Final, NumArcs, InitArcIterator, ArcIterator, CloseIter, CopyFst, SIterNext, Idle,
         implVars
<1>2. siter' = siter \/ siter' = NoSIter \/ siter' = [siter EXCEPT !.s = @ + 1]
  BY DEF Final, NumArcs, InitArcIterator, ArcIterator, CloseIter, CopyFst, SIterNext
<1>3. siter'.u = NoStateId /\ (siter'.on => siter.on)
  BY <1>1, <1>2 DEF NoSIter, DelayedInv, ImplTypeOK
<1> QED BY <1>1, <1>3, QuietStep DEF ScanExpanded

\* SetStart makes the start state known.
LEMMA StartIter ==
  ASSUME DelayedInv, IterInv, Start \/ NewStateIterator
  PROVE  IterInv'
<1>1. /\ ForceStart /\ siter.u = NoStateId /\ siter'.u = NoStateId
      /\ UNCHANGED <<expanded_states, min_unexpanded, max_expanded>>
      /\ Start => siter' = siter
  BY DEF Start, NewStateIterator, Idle
<1>2. nknown_states \in 0 .. NumIds /\ nknown_states' \in 0 .. NumIds
  BY <1>1, ForceStartType DEF DelayedInv, ImplTypeOK
<1>3. /\ nknown_states <= nknown_states'
      /\ has_start' => RefStart < nknown_states'
      /\ has_start' \/ RefStart = NoStateId
      /\ has_start => has_start'
  <2>1. CASE has_start \/ RefStart = NoStateId
    BY <1>1, <1>2, <2>1 DEF ForceStart, IterInv, StartKnown
  <2>2. CASE ~(has_start \/ RefStart = NoStateId)
    <3>1. RefStart \in Nat
      BY <2>2, DelayedConstants, IdsInSlots
    <3> QED BY <1>1, <1>2, <2>2, <3>1 DEF ForceStart, Known
  <2> QED BY <2>1, <2>2
<1>4. ASSUME NEW s \in Ids, Marked(s)' PROVE NextKnown(s)'
  <2>1. NextKnown(s)
    BY <1>1, <1>4 DEF Marked, IterInv
  <2>2. \A i \in 1 .. Len(RefArcs[s]) : NextState[RefArcs[s][i]] \in Nat
    <3>1. \A i \in 1 .. Len(RefArcs[s]) : RefArcs[s][i] \in Arcs
      BY DelayedConstants
    <3>2. \A arc \in Arcs : NextState[arc] \in Nat
      BY DelayedConstants, IdsInSlots
    <3> QED BY <3>1, <3>2
  <2> QED BY <1>2, <1>3, <2>1, <2>2 DEF NextKnown
<1>5. MarksInRange' /\ StartKnown' /\ ScanExpanded' /\ expanded_states' \in Seq(BOOLEAN)
  BY <1>1, <1>3 DEF IterInv, MarksInRange, StartKnown, ScanExpanded
<1> QED BY <1>4, <1>5 DEF IterInv

\* The steps of a call, before it marks the state as expanded.
LEMMA CallStepsIter ==
  ASSUME DelayedInv, IterInv,
         \/ Lookup \/ SetFinal \/ PushArc \/ SetArcs \/ Collect
         \/ ReturnAnswer \/ ReturnIter
  PROVE  IterInv'
<1>1. UNCHANGED implVars /\ siter' = siter
  BY DEF Lookup, SetFinal, PushArc, SetArcs, Collect, ReturnAnswer, ReturnIter, clientVars
<1>2. op # NoOp
  <2>1. Collect => gc.on
    BY DEF Collect, GCStep, Sweep, SweepRecent, Widen, EndGC
  <2> QED BY <2>1 DEF Lookup, SetFinal, PushArc, SetArcs, ReturnAnswer, ReturnIter, Acting,
                      DelayedInv, OpCollects
<1>3. op \in OpType
  BY <1>2, OpType1
<1>4. CASE ReturnAnswer \/ ReturnIter
  <2>1. op.name # "ArcIterator"
    BY <1>4 DEF ReturnAnswer, ReturnIter
  <2>2. siter.u = NoStateId
    BY <1>2, <2>1 DEF DelayedInv, StateIterOK
  <2> QED BY <1>1, <2>2, QuietStep DEF ScanExpanded
<1>5. CASE Lookup \/ SetFinal \/ PushArc \/ SetArcs \/ Collect
  <2>1. op' \in OpType /\ op'.s = op.s
    <3>1. CASE Collect
      BY <1>3, <3>1 DEF Collect
    <3>2. CASE Lookup
      BY <1>3, <3>2 DEF Lookup, OpType
    <3>3. CASE SetFinal
      BY <1>3, <3>3 DEF SetFinal, OpType, Functions
    <3>4. CASE SetArcs
      BY <1>3, <3>4 DEF SetArcs, OpType, Functions
    <3>5. CASE PushArc
      <4>1. op.i + 1 \in Nat
        BY <1>3, OpFields
      <4> QED BY <1>3, <3>5, <4>1 DEF PushArc, OpType, Functions
    <3> QED BY <1>5, <3>1, <3>2, <3>3, <3>4, <3>5
  <2>2. op' # NoOp
    BY <2>1, OpFields
  <2>3. ScanExpanded'
    BY <1>1, <1>2, <2>1, <2>2 DEF IterInv, ScanExpanded
  <2> QED BY <1>1, <2>3, QuietStep
<1> QED BY <1>4, <1>5

LEMMA PinIter ==
  ASSUME DelayedInv, IterInv, Pin
  PROVE  IterInv'
<1>1. /\ UNCHANGED implVars /\ siter' = siter
      /\ op # NoOp /\ op.stage = "act" /\ op.f = "Pin"
      /\ iters' = [iters EXCEPT ![op.it] = [s |-> op.s, slot |-> ptr]]
  BY DEF Pin, Acting
<1>2. PICK s \in Ids, slot \in Slots :
           /\ s = op.s /\ slot = ptr /\ slot = SlotOf(s) /\ Value(slot) = s
           /\ state_vec[slot] # Null /\ state_vec[slot] \in CacheState
  BY <1>1, ActingAt
<1> DEFINE has == "Arcs" \in state_vec[slot].flags
<1>3. /\ state_vec' = IncrRefOf(slot, IF has THEN Recent(slot) ELSE state_vec)
      /\ op' = IF has THEN NoOp ELSE Call(op.name, s, op.it, ExpandFrom(s))
  BY <1>2 DEF Pin
<1> SUFFICES ASSUME siter.u # NoStateId
             PROVE  ScanExpanded'
  BY <1>1, QuietStep DEF ScanExpanded
<1>4. op.it = StateIter /\ s = siter.u
  BY <1>1, <1>2 DEF DelayedInv, StateIterOK, IterInv, ScanExpanded
<1>5. CASE has
  <2>1. iters'[StateIter] = [s |-> s, slot |-> slot]
    BY <1>1, <1>2, <1>4 DEF DelayedInv, ImplTypeOK, AllIters
  <2>2. "Arcs" \in state_vec'[slot].flags
    <3>1. state_vec \in [Slots -> CacheState \cup {Null}]
      BY DEF DelayedInv, StoreInv, StoreTypeOK
    <3> DEFINE a == [state_vec[slot] EXCEPT !.flags = @ \cup {"Recent"}]
               b == [a EXCEPT !.ref = @ + 1]
    <3>2. "Arcs" \in b.flags
      BY <1>2, <1>5 DEF CacheState
    <3>3. state_vec' = [state_vec EXCEPT ![slot] = b]
      BY <1>2, <1>3, <1>5, <3>1 DEF IncrRefOf, Recent
    <3> HIDE DEF b
    <3> QED BY <3>1, <3>2, <3>3
  <2>3. op' = NoOp
    BY <1>3, <1>5
  <2> HIDE DEF has
  <2> QED BY <1>1, <1>4, <2>1, <2>2, <2>3 DEF ScanExpanded
<1>6. CASE ~has
  <2>1. op'.s = s /\ op' # NoOp
    BY <1>3, <1>6 DEF Call, NoOp
  <2> QED BY <1>1, <1>4, <2>1 DEF ScanExpanded
<1> QED BY <1>5, <1>6

-------------------------------------------------------------------------------
\* The step that ends Expand: the next states become known, the state is marked.
LEMMA MarkArcsIter ==
  ASSUME Tracking, DelayedInv, IterInv, MarkArcs
  PROVE  IterInv'
<1>1. /\ op # NoOp /\ op.stage = "act" /\ op.f = "MarkArcs"
      /\ nknown_states' = KnownArcs(state_vec[ptr].arcs, nknown_states)
      /\ SetExpandedState(op.s)
      /\ state_vec' = [state_vec EXCEPT ![ptr].flags = @ \cup {"Arcs", "Recent"}]
      /\ op' = IF op.name = "ArcIterator" THEN NoOp ELSE [op EXCEPT !.f = "Return"]
      /\ UNCHANGED <<has_start, iters, siter>>
  BY DEF MarkArcs, Acting, clientVars
<1>2. PICK s \in Ids, slot \in Slots :
           /\ s = op.s /\ slot = ptr /\ slot = SlotOf(s) /\ Value(slot) = s
           /\ state_vec[slot] # Null /\ state_vec[slot] \in CacheState
  BY <1>1, ActingAt
<1>3. state_vec[slot].arcs = RefArcs[s]
  <2>1. Pushed(s) = RefArcs[s]
    BY <1>1, <1>2 DEF Pushed, Expanding
  <2> QED BY <1>1, <1>2, <2>1, ExpandingState
<1>4. /\ expanded_states' \in Seq(BOOLEAN) /\ MarksInRange'
      /\ \A t \in Ids : Marked(t)' => NextKnown(t)'
      /\ nknown_states <= nknown_states'
  <2>1. SetExpandedState(s)
    BY <1>1, <1>2
  <2>2. nknown_states' = KnownArcs(RefArcs[s], nknown_states)
    BY <1>1, <1>2, <1>3
  <2> QED BY <2>1, <2>2, ExpandStep DEF DelayedInv
<1>5. StartKnown'
  <2>1. nknown_states \in 0 .. NumIds /\ nknown_states' \in 0 .. NumIds
    <3>1. RefArcs[s] \in Seq(Arcs) /\ nknown_states \in 0 .. NumIds
      BY DelayedConstants DEF DelayedInv, ImplTypeOK
    <3> QED BY <1>1, <1>2, <1>3, <3>1, KnownArcsType
  <2>2. RefStart \in Int
    BY DelayedConstants, IdsInSlots DEF NoStateId
  <2> QED BY <1>1, <1>4, <2>1, <2>2 DEF IterInv, StartKnown
<1>6. ScanExpanded'
  <2> SUFFICES ASSUME siter.u # NoStateId
               PROVE  /\ op' = NoOp /\ iters[StateIter].s = siter.u
                      /\ "Arcs" \in state_vec'[iters[StateIter].slot].flags
    BY <1>1 DEF ScanExpanded
  <2>1. op.name = "ArcIterator" /\ op.it = StateIter /\ op.s = siter.u
    BY <1>1 DEF DelayedInv, StateIterOK, IterInv, ScanExpanded
  <2>2. iters[StateIter].slot # Null /\ iters[StateIter].s = op.s
    BY <1>1, <2>1 DEF DelayedInv, OpIter
  <2>3. iters[StateIter].slot = slot
    BY <1>2, <2>2 DEF DelayedInv, ItersStored, AllIters
  <2>4. "Arcs" \in state_vec'[slot].flags
    <3>1. state_vec \in [Slots -> CacheState \cup {Null}]
      BY DEF DelayedInv, StoreInv, StoreTypeOK
    <3> QED BY <1>1, <1>2, <3>1 DEF CacheState
  <2> QED BY <1>1, <2>1, <2>2, <2>3, <2>4
<1> QED BY <1>4, <1>5, <1>6 DEF IterInv

\* Done() walks the arcs of the state it has expanded.
LEMMA SIterScanIter ==
  ASSUME Tracking, DelayedInv, IterInv, SIterScan
  PROVE  IterInv'
<1>1. /\ op = NoOp /\ siter.u # NoStateId
      /\ nknown_states' = KnownArcs(state_vec[iters[StateIter].slot].arcs, nknown_states)
      /\ SetExpandedState(siter.u)
      /\ siter' = [siter EXCEPT !.u = NoStateId]
      /\ UNCHANGED has_start
  BY DEF SIterScan
<1>2. PICK s \in Ids : s = siter.u
  BY <1>1 DEF DelayedInv, ImplTypeOK
<1>3. iters[StateIter].s = s /\ "Arcs" \in state_vec[iters[StateIter].slot].flags
  BY <1>1, <1>2 DEF IterInv, ScanExpanded
<1>4. StateIter \in AllIters /\ iters[StateIter].slot # Null
  BY <1>1 DEF DelayedInv, StateIterOK, AllIters
<1>5. iters[StateIter].slot = SlotOf(s) /\ Stored(s)
  BY <1>3, <1>4 DEF DelayedInv, ItersStored, Stored
<1>6. PICK slot \in Slots : slot = SlotOf(s) /\ Value(slot) = s
  BY <1>5, SlotValue DEF DelayedInv
<1>7. state_vec[slot].arcs = RefArcs[s]
  BY <1>3, <1>5, <1>6 DEF DelayedInv, Content, StateOK, Stored
<1>8. nknown_states' = KnownArcs(RefArcs[s], nknown_states)
  BY <1>1, <1>5, <1>6, <1>7
<1>9. /\ expanded_states' \in Seq(BOOLEAN) /\ MarksInRange'
      /\ \A t \in Ids : Marked(t)' => NextKnown(t)'
      /\ nknown_states <= nknown_states'
  <2>1. SetExpandedState(s)
    BY <1>1, <1>2
  <2> QED BY <1>8, <2>1, ExpandStep DEF DelayedInv
<1>10. siter'.u = NoStateId /\ siter'.on = siter.on
  BY <1>1 DEF DelayedInv, ImplTypeOK
<1>11. StartKnown'
  <2>1. nknown_states \in 0 .. NumIds /\ nknown_states' \in 0 .. NumIds
    <3>1. RefArcs[s] \in Seq(Arcs) /\ nknown_states \in 0 .. NumIds
      BY DelayedConstants DEF DelayedInv, ImplTypeOK
    <3> QED BY <1>8, <3>1, KnownArcsType
  <2>2. RefStart \in Int
    BY DelayedConstants, IdsInSlots DEF NoStateId
  <2> QED BY <1>1, <1>9, <1>10, <2>1, <2>2 DEF IterInv, StartKnown
<1> QED BY <1>9, <1>10, <1>11 DEF IterInv, ScanExpanded

\* All states below the smallest one that was not expanded are marked.
LEMMA BelowMarked ==
  ASSUME Tracking, DelayedInv, IterInv, NEW s \in Ids, s < MinUnexpandedState
  PROVE  Marked(s)
<1> DEFINE u == MinUnexpandedState
           m == min_unexpanded
           M == max_expanded
<1>1. /\ m \in Nat /\ M \in Int /\ s \in Nat /\ expanded_states \in Seq(BOOLEAN)
      /\ M < m \/ M < Len(expanded_states)
  BY IdsInSlots DEF DelayedInv, ImplTypeOK, IterInv, MarksInRange
<1>2. /\ u \in Nat /\ \A v \in m .. u - 1 : ExpandedState(v)
      /\ u = m \/ u <= M + 1
  BY <1>1, MinUnexpandedType
<1> HIDE DEF u
<1>3. CASE s < m
  BY <1>3 DEF Marked
<1>4. CASE ~(s < m)
  <2>1. s \in m .. u - 1 /\ s <= M
    BY <1>1, <1>2, <1>4 DEF u
  <2>2. s + 1 \in 1 .. Len(expanded_states)
    BY <1>1, <1>4, <2>1
  <2>3. ExpandedState(s)
    BY <1>2, <2>1
  <2>4. expanded_states[s + 1]
    BY <2>3 DEF ExpandedState
  <2>5. expanded_states[s + 1] \in BOOLEAN
    BY <1>1, <2>2
  <2>6. expanded_states[s + 1] = TRUE
    BY <2>4, <2>5, Zenon
  <2> QED BY <1>1, <2>2, <2>6 DEF Marked
<1> QED BY <1>3, <1>4

\* Done() moves min_unexpanded_state_id_ up to a state that was not expanded.
LEMMA SIterDoneIter ==
  ASSUME Tracking, DelayedInv, IterInv, SIterDone \/ SIterExpand
  PROVE  IterInv'
<1>1. /\ min_unexpanded' = MinUnexpandedState /\ siter.on
      /\ UNCHANGED <<has_start, nknown_states, expanded_states, max_expanded>>
  BY DEF SIterDone, SIterExpand
<1>2. /\ min_unexpanded \in Nat /\ max_expanded \in Int /\ MinUnexpandedState \in Nat
      /\ min_unexpanded <= MinUnexpandedState
  BY MinUnexpandedType DEF DelayedInv, ImplTypeOK
<1>3. ASSUME NEW s \in Ids, Marked(s)' PROVE NextKnown(s)'
  <2>1. Marked(s)
    BY <1>1, <1>3, BelowMarked DEF Marked
  <2> QED BY <1>1, <2>1 DEF IterInv, NextKnown
<1>4. MarksInRange' /\ StartKnown' /\ expanded_states' \in Seq(BOOLEAN)
  <2>1. Len(expanded_states) \in Nat
    BY DEF IterInv
  <2> QED BY <1>1, <1>2, <2>1 DEF IterInv, MarksInRange, StartKnown
<1>5. ScanExpanded'
  <2>1. CASE SIterDone
    BY <2>1 DEF SIterDone, NoSIter, ScanExpanded
  <2>2. CASE SIterExpand
    <3>1. op'.s = MinUnexpandedState /\ op' # NoOp
      BY <2>2 DEF SIterExpand, Call, NoOp
    <3>2. siter'.u = MinUnexpandedState
      BY <2>2 DEF SIterExpand, DelayedInv, ImplTypeOK
    <3> QED BY <3>1, <3>2 DEF ScanExpanded
  <2> QED BY <2>1, <2>2
<1> QED BY <1>3, <1>4, <1>5 DEF IterInv

LEMMA DelayedNextIter ==
  ASSUME Tracking, DelayedInv, IterInv, [DelayedNext]_vars
  PROVE  IterInv'
<1>1. CASE UNCHANGED vars
  <2>1. UNCHANGED <<implVars, op, iters, siter, state_vec>>
    BY <1>1 DEF vars, clientVars, storeVars
  <2> QED BY <2>1, QuietStep DEF IterInv, ScanExpanded
<1>2. CASE Start \/ CopyFst \/ NewStateIterator \/ SIterStep
  BY <1>2, StartIter, IdleStepsIter, SIterScanIter, SIterDoneIter DEF SIterStep
<1>3. CASE CallStep
  BY <1>3, CallStepsIter, PinIter, MarkArcsIter DEF CallStep
<1>4. CASE \E it \in Iters : CloseIter(it)
  BY <1>4, IdleStepsIter
<1>5. ASSUME NEW s \in KnownIds, Final(s) \/ NumArcs(s)
      PROVE  IterInv'
  BY <1>5, IdleStepsIter
<1>6. ASSUME NEW s \in KnownIds, NEW it \in Iters, InitArcIterator(it, s) \/ ArcIterator(it, s)
      PROVE  IterInv'
  BY <1>6, IdleStepsIter
<1> QED BY <1>1, <1>2, <1>3, <1>4, <1>5, <1>6 DEF DelayedNext, ClientCall

LEMMA DelayedInitIter ==
  ASSUME DelayedInit
  PROVE  IterInv
<1>1. /\ has_start = FALSE /\ expanded_states = <<>> /\ min_unexpanded = 0
      /\ max_expanded = -1 /\ siter.on = FALSE /\ siter.u = NoStateId
  BY DEF DelayedInit, NoSIter
<1>2. \A s \in Ids : ~Marked(s)
  <2>1. Len(expanded_states) = 0
    BY <1>1
  <2> QED BY <1>1, <2>1, IdsInSlots DEF Marked
<1> QED BY <1>1, <1>2 DEF IterInv, MarksInRange, StartKnown, ScanExpanded

\* At the end of the iteration the known states are closed under the arcs.
LEMMA DoneComplete ==
  ASSUME Tracking, DelayedInv, IterInv, SIterDone
  PROVE  Reachable \subseteq 0 .. siter.s - 1
<1> DEFINE n == nknown_states
           S == 0 .. n - 1
<1>1. /\ siter.on /\ siter.s >= n /\ MinUnexpandedState >= n /\ siter.s \in Nat
      /\ n \in 0 .. NumIds /\ MinUnexpandedState \in Nat
  BY MinUnexpandedType DEF SIterDone, DelayedInv, ImplTypeOK
<1>2. S \in SUBSET Ids
  BY <1>1, CacheConstants DEF Ids
<1>3. {RefStart} \cap Ids \subseteq S
  <2>1. RefStart < n \/ RefStart = NoStateId
    BY <1>1 DEF IterInv, StartKnown
  <2> QED BY <1>1, <2>1, IdsInSlots DEF Ids
<1>4. ASSUME NEW s \in S, NEW arc \in Range(RefArcs[s]) PROVE NextState[arc] \in S
  <2>1. s \in Ids /\ s < MinUnexpandedState
    BY <1>1, <1>2
  <2>2. NextKnown(s)
    BY <2>1, BelowMarked DEF IterInv
  <2>3. PICK i \in 1 .. Len(RefArcs[s]) : arc = RefArcs[s][i]
    BY <2>1, DelayedConstants DEF Range
  <2>4. arc \in Arcs
    BY <2>1, <2>3, DelayedConstants
  <2>5. NextState[arc] < n /\ NextState[arc] \in Nat
    BY <2>2, <2>3, <2>4, DelayedConstants, IdsInSlots DEF NextKnown
  <2> QED BY <1>1, <2>5
<1> HIDE DEF S
<1>5. Closed(S)
  BY <1>3, <1>4 DEF Closed
<1>6. Reachable \subseteq S
  BY <1>2, <1>5 DEF Reachable
<1> QED BY <1>1, <1>6 DEF S

(***************************************************************************)
(* When CacheStateIterator::Done (cache.h) returns true, the loop has      *)
(* returned every state that a path from the start state leads to, also    *)
(* those whose expansion was freed again and those that other calls        *)
(* expanded, provided the implementation tracks expanded states.           *)
(***************************************************************************)
THEOREM IterationVisitsAll ==
  ASSUME Tracking
  PROVE  DelayedSpec => IterationComplete
<1>1. DelayedInit => DelayedInv /\ IterInv
  BY DelayedInitInv, DelayedInitIter
<1>2. DelayedInv /\ IterInv /\ [DelayedNext]_vars => (DelayedInv /\ IterInv)'
  BY DelayedNextInv, DelayedNextIter
<1>3. DelayedInv /\ IterInv /\ [DelayedNext]_vars
        => [SIterDone => Reachable \subseteq 0 .. siter.s - 1]_vars
  BY DoneComplete
<1> QED BY <1>1, <1>2, <1>3, PTL DEF DelayedSpec, IterationComplete

-----------------------------------------------------------------------------
(***************************************************************************)
(* The byte count of GCCacheStore under a delayed FST, which pushes arcs   *)
(* behind the store's back (CacheBaseImpl::PushArc) and has them counted   *)
(* by SetArcs: between calls the count is exact, and the cache is within   *)
(* its limit, for every FST and every option.  The hypothesis is that a    *)
(* size_t can count the bytes of all states.                               *)
(***************************************************************************)


\* MaxArcs bounds the arcs of a state, and all states together can be counted.
CountFits == SizeFits /\ \A s \in Ids : Len(RefArcs[s]) <= MaxArcs

\* The call in progress has pushed arcs that are not counted yet.
Pending == op # NoOp /\ op.f \in {"PushArc", "SetArcs"} /\ Pushed(op.s) # <<>>

\* The cached states as far as cache_size covers them.
CountedVec ==
  IF Pending THEN [state_vec EXCEPT ![SlotOf(op.s)].arcs = <<>>] ELSE state_vec

DelayedCount ==
  cache_size = IF first_gc THEN 0 ELSE Cardinality(Occupied(CountedVec))

\* No collection runs over a state that is only partly counted: it is initialised
\* already, so that no lookup of it counts it again.
PendingQuiet ==
  Pending => ~gc.on /\ (Gc => "Init" \in state_vec[SlotOf(op.s)].flags)

\* Before the first push the lookup has initialised the state.
ActsCounted ==
  op # NoOp /\ op.f \in {"PushArc", "SetArcs"} /\ op.stage = "act" /\ Gc
    => "Init" \in state_vec[ptr].flags

DelayedSize ==
  /\ ~first_gc => InitCounted(state_vec)
  /\ DelayedCount
  /\ WithinLimit
  /\ AimsBelowLimit
  /\ cache_limit >= 2
  /\ PendingQuiet
  /\ ActsCounted

-------------------------------------------------------------------------------
\* The arcs of a cached state are those of the FST, or fewer.
LEMMA CachedFit ==
  ASSUME CountFits
  PROVE  DelayedInv => ArcsFit(state_vec)
<1> SUFFICES ASSUME DelayedInv, NEW t \in Slots, state_vec[t] # Null
             PROVE  Len(state_vec[t].arcs) <= MaxArcs
  BY DEF ArcsFit
<1>1. PICK s \in Ids : s = Value(t)
  BY SlotValue DEF DelayedInv
<1>2. RefArcs[s] \in Seq(Arcs) /\ Len(RefArcs[s]) <= MaxArcs /\ MaxArcs \in Nat
  BY DelayedConstants, CacheConstants DEF CountFits
<1>3. state_vec[t].arcs = RefArcs[s] \/ state_vec[t].arcs = Pushed(s)
  BY <1>1 DEF DelayedInv, Content, StateOK
<1>4. Len(Pushed(s)) <= MaxArcs
  <2>1. CASE ~Expanding(s) \/ op.f # "PushArc"
    BY <1>2, <2>1 DEF Pushed
  <2>2. CASE Expanding(s) /\ op.f = "PushArc"
    <3>1. PICK i \in 1 .. Len(RefArcs[s]) : i = op.i
      BY <2>2 DEF Expanding, DelayedInv, OpShape
    <3>2. Len(SubSeq(RefArcs[s], 1, i - 1)) = i - 1
      BY <1>2, SubSeqProperties
    <3> QED BY <1>2, <2>2, <3>1, <3>2 DEF Pushed
  <2> QED BY <2>1, <2>2
<1> QED BY <1>2, <1>3, <1>4

LEMMA CachedFitNext ==
  ASSUME CountFits
  PROVE  DelayedInv' => ArcsFit(state_vec)'
BY CachedFit, PTL

\* While nothing is pending the size invariant is the store's own.
LEMMA Settled ==
  ASSUME CountFits
  PROVE  DelayedInv /\ ~Pending => (DelayedSize <=> SizeInv /\ ActsCounted)
BY CachedFit DEF DelayedSize, SizeInv, DelayedCount, BookKeeping, CountedVec, PendingQuiet

LEMMA SettledNext ==
  ASSUME CountFits
  PROVE  DelayedInv' /\ ~Pending' => (DelayedSize' <=> SizeInv' /\ ActsCounted')
BY Settled, PTL

\* Nothing is pending before the first push and after SetArcs.
LEMMA NotPending ==
  ASSUME op = NoOp \/ op.f \notin {"PushArc", "SetArcs"}
  PROVE  ~Pending
BY DEF Pending

LEMMA NotPendingNext ==
  ASSUME op' = NoOp \/ op'.f \notin {"PushArc", "SetArcs"}
  PROVE  ~Pending' /\ ActsCounted'
BY DEF Pending, ActsCounted

\* A call that begins has pushed nothing.
LEMMA NotPendingCall ==
  ASSUME NEW name, NEW s \in Ids, NEW it, NEW f \in {"SetFinal", "Pin", ExpandFrom(s)},
         op' = Call(name, s, it, f)
  PROVE  ~Pending' /\ ActsCounted'
<1>1. op'.s = s /\ op'.f = f /\ op'.i = 1 /\ op'.stage = "get"
  BY DEF Call
<1>2. SubSeq(RefArcs[s], 1, 0) = <<>>
  BY DelayedConstants
<1>3. f = "SetArcs" => RefArcs[s] = <<>>
  BY DEF ExpandFrom
<1>4. Pushed(op.s)' = <<>> \/ f \notin {"PushArc", "SetArcs"}
  BY <1>1, <1>2, <1>3 DEF Pushed, Expanding
<1> QED BY <1>1, <1>4 DEF Pending, ActsCounted

\* A step of the store between calls, or in a call that has nothing pending.
LEMMA StoreStepSize ==
  ASSUME CountFits, DelayedInv, DelayedInv', DelayedSize, ~Pending, ~Pending',
         ActsCounted',
         \/ \E s \in Ids : GetMutableState(s)
         \/ GCStep
         \/ CopyStates
         \/ UNCHANGED storeVars
  PROVE  DelayedSize'
<1>1. SizeInv /\ StoreInv /\ SizeFits
  BY Settled DEF DelayedInv, CountFits
<1>2. SizeInv'
  <2>1. UNCHANGED storeVars => SizeInv'
    BY <1>1 DEF storeVars, SizeInv, ArcsFit, InitCounted, BookKeeping, Occupied,
                WithinLimit, AimsBelowLimit
  <2> QED BY <1>1, <2>1, GetMutableStateSize, CopyStatesSize, SweepSize, CursorSize
          DEF GCStep
<1> QED BY <1>2, SettledNext

\* A step that changes neither the arcs of a cached state nor whether it counts.
SameSize(t) ==
  /\ (state_vec'[t] = Null) = (state_vec[t] = Null)
  /\ state_vec[t] # Null => /\ state_vec'[t].arcs = state_vec[t].arcs
                            /\ "Init" \in state_vec'[t].flags <=> "Init" \in state_vec[t].flags

LEMMA InPlaceSize ==
  ASSUME CountFits, DelayedInv, DelayedInv', DelayedSize, ~Pending, ~Pending',
         ActsCounted', ~gc.on,
         \A t \in Slots : SameSize(t), UNCHANGED StoreRest
  PROVE  DelayedSize'
<1>1. UNCHANGED <<first_gc, gc_on, cache_size, cache_limit, gc>>
  BY DEF StoreRest
<1>2. Occupied(state_vec') = Occupied(state_vec)
  <2>1. \A t \in Slots : CountedBytes(state_vec'[t]) = CountedBytes(state_vec[t])
    BY DEF SameSize, CountedBytes, Bytes
  <2> QED BY <2>1, OccupiedSame
<1>3. DelayedCount'
  BY <1>1, <1>2 DEF DelayedSize, DelayedCount, CountedVec
<1>4. (~first_gc => InitCounted(state_vec))'
  BY <1>1 DEF DelayedSize, InitCounted, SameSize
<1>5. WithinLimit' /\ AimsBelowLimit' /\ (cache_limit >= 2)' /\ PendingQuiet'
  BY <1>1 DEF DelayedSize, WithinLimit, AimsBelowLimit, PendingQuiet
<1> QED BY <1>3, <1>4, <1>5 DEF DelayedSize

LEMMA OneSlotSame ==
  ASSUME StoreInv, NEW slot \in Slots, state_vec[slot] # Null, NEW st \in CacheState,
         state_vec' = [state_vec EXCEPT ![slot] = st],
         st.arcs = state_vec[slot].arcs,
         "Init" \in st.flags <=> "Init" \in state_vec[slot].flags
  PROVE  \A t \in Slots : SameSize(t)
<1>1. state_vec \in [Slots -> CacheState \cup {Null}] /\ st # Null
  BY NullAssumption DEF StoreInv, StoreTypeOK
<1>2. ASSUME NEW t \in Slots PROVE SameSize(t)
  <2>1. CASE t = slot
    BY <1>1, <2>1 DEF SameSize
  <2>2. CASE t # slot
    BY <1>1, <2>2 DEF SameSize
  <2> QED BY <2>1, <2>2
<1> QED BY <1>2

-------------------------------------------------------------------------------
\* The calls that leave the store alone.
LEMMA PureCallsSize ==
  ASSUME CountFits, DelayedInv, DelayedInv', DelayedSize,
         Start \/ NewStateIterator \/ SIterNext \/ SIterDone
  PROVE  DelayedSize'
<1>1. op = NoOp /\ op' = op /\ UNCHANGED storeVars
  BY DEF Start, NewStateIterator, SIterNext, SIterDone, Idle
<1> QED BY <1>1, NotPending, NotPendingNext, StoreStepSize

LEMMA SIterExpandSize ==
  ASSUME CountFits, DelayedInv, DelayedInv', DelayedSize, SIterExpand
  PROVE  DelayedSize'
<1>1. op = NoOp /\ UNCHANGED storeVars
  BY DEF SIterExpand, Idle
<1>2. op'.f = "Pin"
  BY DEF SIterExpand, Call
<1> QED BY <1>1, <1>2, NotPending, NotPendingNext, StoreStepSize

\* The queries, and the iterators that are opened.
LEMMA ClientCallsSize ==
  ASSUME CountFits, DelayedInv, DelayedInv', DelayedSize, NEW s \in KnownIds, NEW it,
         Final(s) \/ NumArcs(s) \/ InitArcIterator(it, s) \/ ArcIterator(it, s)
  PROVE  DelayedSize'
<1>1. s \in Ids
  BY CacheConstants DEF KnownIds, Ids, DelayedInv, ImplTypeOK
<1>2. op = NoOp /\ ~gc.on /\ ~Pending
  BY NotPending DEF Final, NumArcs, InitArcIterator, ArcIterator, Idle
<1>3. CASE UNCHANGED storeVars /\ op' # NoOp
  <2>1. \E name, i, f : f \in {"SetFinal", "Pin", ExpandFrom(s)} /\ op' = Call(name, s, i, f)
    <3>1. CASE Final(s)
      BY <1>2, <1>3, <3>1 DEF Final
    <3>2. CASE NumArcs(s)
      BY <1>2, <1>3, <3>2 DEF NumArcs
    <3>3. CASE InitArcIterator(it, s)
      BY <1>2, <1>3, <3>3 DEF InitArcIterator
    <3>4. CASE ArcIterator(it, s)
      BY <1>2, <1>3, <3>4 DEF ArcIterator
    <3> QED BY <3>1, <3>2, <3>3, <3>4
  <2> QED BY <1>1, <1>2, <1>3, <2>1, NotPendingCall, StoreStepSize
<1>4. CASE ~(UNCHANGED storeVars /\ op' # NoOp)
  <2> DEFINE slot == SlotOf(s)
             old  == state_vec[slot]
  <2>1. /\ op' = NoOp /\ UNCHANGED StoreRest /\ Stored(s)
        /\ state_vec' = Recent(slot) \/ state_vec' = IncrRefOf(slot, Recent(slot))
    <3>1. \A c, i, f : Call(c, s, i, f) # NoOp
      BY DEF Call, NoOp
    <3>2. CASE Final(s)
      BY <1>2, <1>4, <3>1, <3>2 DEF Final, HasFlag
    <3>3. CASE NumArcs(s)
      BY <1>2, <1>4, <3>1, <3>3 DEF NumArcs, HasFlag
    <3>4. CASE InitArcIterator(it, s)
      BY <1>2, <1>4, <3>1, <3>4 DEF InitArcIterator, HasFlag
    <3>5. CASE ArcIterator(it, s)
      BY <1>2, <1>4, <3>1, <3>5 DEF ArcIterator
    <3> QED BY <3>2, <3>3, <3>4, <3>5
  <2>2. slot \in Slots /\ old # Null /\ old \in CacheState /\ StoreInv
        /\ state_vec \in [Slots -> CacheState \cup {Null}]
    BY <1>1, <2>1, SlotValue DEF DelayedInv, Stored, StoreInv, StoreTypeOK
  <2> HIDE DEF slot
  <2>3. \E st \in CacheState :
          /\ state_vec' = [state_vec EXCEPT ![slot] = st] /\ st.arcs = old.arcs
          /\ "Init" \in st.flags <=> "Init" \in old.flags
    <3> DEFINE a == [old EXCEPT !.flags = @ \cup {"Recent"}]
               b == [a EXCEPT !.ref = @ + 1]
    <3>1. /\ a \in CacheState /\ a.arcs = old.arcs
          /\ "Init" \in a.flags <=> "Init" \in old.flags
      BY <2>2 DEF CacheState, CacheFlags
    <3>2. /\ b \in CacheState /\ b.arcs = old.arcs
          /\ "Init" \in b.flags <=> "Init" \in old.flags
      <4> HIDE DEF old
      <4>1. a.ref + 1 \in Int
        BY <3>1 DEF CacheState
      <4> HIDE DEF a
      <4> QED BY <3>1, <4>1 DEF CacheState
    <3>3. CASE state_vec' = Recent(slot)
      <4>1. state_vec' = [state_vec EXCEPT ![slot] = a]
        BY <2>2, <3>3 DEF Recent
      <4> HIDE DEF a
      <4> QED BY <3>1, <4>1
    <3>4. CASE state_vec' = IncrRefOf(slot, Recent(slot))
      <4>1. state_vec' = [state_vec EXCEPT ![slot] = b]
        BY <2>2, <3>4 DEF Recent, IncrRefOf
      <4> HIDE DEF b
      <4> QED BY <3>2, <4>1
    <3> QED BY <2>1, <3>3, <3>4
  <2> QED BY <1>2, <2>1, <2>2, <2>3, NotPendingNext, OneSlotSame, InPlaceSize
<1> QED BY <1>3, <1>4

\* The iterators that are closed, and the copy, which nothing refers to.
LEMMA CloseSize ==
  ASSUME CountFits, DelayedInv, DelayedInv', DelayedSize,
         SIterScan \/ \E it \in Iters : CloseIter(it)
  PROVE  DelayedSize'
<1>1. PICK it \in AllIters :
        /\ op = NoOp /\ ~gc.on /\ op' = op /\ iters[it] # NoIter
        /\ state_vec' = [state_vec EXCEPT ![iters[it].slot].ref = @ - 1]
        /\ UNCHANGED StoreRest
  <2>1. CASE SIterScan
    <3>1. iters[StateIter] # NoIter
      BY <2>1, IdsInSlots DEF SIterScan, DelayedInv, StateIterOK, NoIter
    <3> QED BY <2>1, <3>1 DEF SIterScan, AllIters
  <2>2. CASE \E i \in Iters : CloseIter(i)
    BY <2>2 DEF CloseIter, AllIters, Idle
  <2> QED BY <2>1, <2>2
<1> DEFINE slot == iters[it].slot
           old  == state_vec[slot]
           st   == [old EXCEPT !.ref = @ - 1]
<1>2. slot \in Slots /\ old # Null /\ old \in CacheState /\ StoreInv
      /\ state_vec \in [Slots -> CacheState \cup {Null}]
  <2>1. slot # Null /\ old # Null
    BY <1>1 DEF DelayedInv, ItersStored
  <2>2. slot \in Slots \cup {Null}
    BY DEF DelayedInv, ImplTypeOK
  <2> QED BY <2>1, <2>2 DEF DelayedInv, StoreInv, StoreTypeOK
<1>3. state_vec' = [state_vec EXCEPT ![slot] = st]
  BY <1>1, <1>2
<1> HIDE DEF slot
<1>4. st \in CacheState /\ st.arcs = old.arcs /\ st.flags = old.flags
  BY <1>2 DEF CacheState
<1> HIDE DEF st
<1> QED BY <1>1, <1>2, <1>3, <1>4, NotPending, NotPendingNext, OneSlotSame, InPlaceSize

LEMMA CopyFstSize ==
  ASSUME CountFits, DelayedInv, DelayedInv', DelayedSize, CopyFst
  PROVE  DelayedSize'
<1>1. op = NoOp /\ op' = op /\ CopyStates
  BY DEF CopyFst, Idle
<1> QED BY <1>1, NotPending, NotPendingNext, StoreStepSize

\* The steps of a call that neither push arcs nor count them.
LEMMA ActsSize ==
  ASSUME CountFits, DelayedInv, DelayedInv', DelayedSize,
         SetFinal \/ Pin \/ MarkArcs \/ ReturnIter
  PROVE  DelayedSize'
<1>1. /\ op # NoOp /\ op.stage = "act" /\ ~gc.on /\ UNCHANGED StoreRest
      /\ op.f \notin {"PushArc", "SetArcs"}
  BY DEF SetFinal, Pin, MarkArcs, ReturnIter, Acting
<1>2. PICK s \in Ids, slot \in Slots :
           /\ s = op.s /\ slot = ptr /\ slot = SlotOf(s) /\ Value(slot) = s
           /\ state_vec[slot] # Null /\ state_vec[slot] \in CacheState
  BY <1>1, ActingAt
<1>3. op \in OpType
  BY <1>1, OpType1
<1>4. ~Pending' /\ ActsCounted'
  <2>1. CASE SetFinal
    <3>1. op'.f = "Return"
      BY <1>3, <2>1 DEF SetFinal, OpType
    <3> QED BY <3>1, NotPendingNext
  <2>2. CASE Pin
    <3>1. op' = NoOp \/ op' = Call(op.name, s, op.it, ExpandFrom(s))
      BY <1>2, <2>2 DEF Pin
    <3> QED BY <3>1, NotPendingNext, NotPendingCall
  <2>3. CASE MarkArcs
    <3>1. op' = NoOp \/ op'.f = "Return"
      BY <1>3, <2>3 DEF MarkArcs, OpType
    <3> QED BY <3>1, NotPendingNext
  <2>4. CASE ReturnIter
    BY <2>4, NotPendingNext DEF ReturnIter
  <2> QED BY <2>1, <2>2, <2>3, <2>4
<1> DEFINE old == state_vec[slot]
<1>5. StoreInv /\ state_vec \in [Slots -> CacheState \cup {Null}]
      /\ RefFinal[s] \in Weights
  BY DelayedConstants DEF DelayedInv, StoreInv, StoreTypeOK
<1>6. \E st \in CacheState :
        /\ state_vec' = [state_vec EXCEPT ![slot] = st] /\ st.arcs = old.arcs
        /\ "Init" \in st.flags <=> "Init" \in old.flags
  <2> DEFINE ref == old.ref + 1
  <2>1. ref \in Int
    BY <1>2 DEF CacheState
  <2> HIDE DEF ref
  <2>2. CASE SetFinal
    <3> DEFINE st == [old EXCEPT !.final = RefFinal[s], !.flags = @ \cup {"Final", "Recent"}]
    <3>1. state_vec' = [state_vec EXCEPT ![slot] = st]
      BY <1>2, <1>5, <2>2 DEF SetFinal
    <3>2. st \in CacheState /\ st.arcs = old.arcs /\ st.flags = old.flags \cup {"Final", "Recent"}
      BY <1>2, <1>5 DEF CacheState, CacheFlags
    <3> HIDE DEF st
    <3> QED BY <3>1, <3>2
  <2>3. CASE MarkArcs
    <3> DEFINE st == [old EXCEPT !.flags = @ \cup {"Arcs", "Recent"}]
    <3>1. state_vec' = [state_vec EXCEPT ![slot] = st]
      BY <1>2, <1>5, <2>3 DEF MarkArcs
    <3>2. st \in CacheState /\ st.arcs = old.arcs /\ st.flags = old.flags \cup {"Arcs", "Recent"}
      BY <1>2, <1>5 DEF CacheState, CacheFlags
    <3> HIDE DEF st
    <3> QED BY <3>1, <3>2
  <2> DEFINE a == [old EXCEPT !.ref = ref]
             b == [old EXCEPT !.ref = ref, !.flags = @ \cup {"Recent"}]
  <2>4. a \in CacheState /\ a.arcs = old.arcs /\ a.flags = old.flags
    BY <1>2, <2>1 DEF CacheState
  <2>5. b \in CacheState /\ b.arcs = old.arcs /\ b.flags = old.flags \cup {"Recent"}
    BY <1>2, <2>1 DEF CacheState, CacheFlags
  <2>6. CASE ReturnIter
    <3>1. state_vec' = [state_vec EXCEPT ![slot] = a]
      BY <1>2, <1>5, <2>6 DEF ReturnIter, IncrRefOf, ref
    <3> HIDE DEF a
    <3> QED BY <2>4, <3>1
  <2>7. CASE Pin
    <3>1. state_vec' = [state_vec EXCEPT ![slot] = a] \/ state_vec' = [state_vec EXCEPT ![slot] = b]
      <4>1. state_vec' = IncrRefOf(slot, IF "Arcs" \in old.flags THEN Recent(slot) ELSE state_vec)
        BY <1>2, <2>7 DEF Pin
      <4>2. CASE "Arcs" \in old.flags
        BY <1>2, <1>5, <4>1, <4>2 DEF IncrRefOf, Recent, ref
      <4>3. CASE "Arcs" \notin old.flags
        BY <1>2, <1>5, <4>1, <4>3 DEF IncrRefOf, ref
      <4> QED BY <4>2, <4>3
    <3> HIDE DEF a, b
    <3> QED BY <2>4, <2>5, <3>1
  <2> QED BY <2>2, <2>3, <2>6, <2>7
<1>7. \A t \in Slots : SameSize(t)
  BY <1>2, <1>5, <1>6, OneSlotSame
<1> QED BY <1>1, <1>4, <1>7, NotPending, InPlaceSize

LEMMA ReturnAnswerSize ==
  ASSUME CountFits, DelayedInv, DelayedInv', DelayedSize, ReturnAnswer
  PROVE  DelayedSize'
<1>1. op.f = "Return" /\ op' = NoOp /\ UNCHANGED storeVars
  BY DEF ReturnAnswer, Acting
<1> QED BY <1>1, NotPending, NotPendingNext, StoreStepSize

\* A collection runs only while nothing is pending, and keeps the state for which
\* it was started.
LEMMA CollectSize ==
  ASSUME CountFits, DelayedInv, DelayedInv', DelayedSize, Collect
  PROVE  DelayedSize'
<1>1. GCStep /\ gc.on /\ op' = op
  BY DEF Collect, GCStep, Sweep, SweepRecent, Widen, EndGC
<1>2. ~Pending
  BY <1>1 DEF DelayedSize, PendingQuiet
<1>3. ~Pending'
  BY <1>1, <1>2 DEF Pending, Pushed, Expanding
<1>4. StoreInv /\ SizeInv /\ SizeFits
  BY <1>2, Settled DEF DelayedInv, CountFits
<1>5. SizeInv'
  BY <1>1, <1>4, SweepSize, CursorSize DEF GCStep
<1>6. "Init" \in state_vec'[ptr'].flags
  <2>1. CASE gc'.on
    BY <1>5, <2>1 DEF SizeInv, AimsBelowLimit
  <2>2. CASE ~gc'.on
    <3>1. UNCHANGED <<state_vec, ptr>>
      <4>1. Sweep \/ SweepRecent \/ Widen => gc'.on
        BY <1>1, <1>4 DEF Sweep, SweepRecent, Widen, StoreInv, StoreTypeOK
      <4> QED BY <1>1, <2>2, <4>1 DEF GCStep, EndGC
    <3> QED BY <1>1, <1>4, <3>1 DEF SizeInv, AimsBelowLimit
  <2> QED BY <2>1, <2>2
<1> QED BY <1>3, <1>5, <1>6, SettledNext DEF ActsCounted

-------------------------------------------------------------------------------
\* A state that is cached is looked up where it is, and nothing moves.
LEMMA FirstGetStored ==
  ASSUME StoreInv, NEW s \in Ids, Stored(s)
  PROVE  LET f == FirstGet(s)
         IN  /\ f.vec = state_vec /\ f.slot = SlotOf(s)
             /\ f.first_gc = first_gc /\ f.first_id = first_id
<1>1. /\ state_vec \in [Slots -> CacheState \cup {Null}] /\ first_gc \in BOOLEAN
      /\ s + 1 \in Slots /\ 0 \in Slots /\ s + 1 # 0
  BY IdsInSlots DEF StoreInv, StoreTypeOK
<1>2. CASE first_id = s
  <2>1. state_vec[0] # Null
    BY <1>2 DEF Stored, SlotOf
  <2> QED BY <1>1, <1>2, <2>1 DEF FirstGet, VectorGet, SlotOf
<1>3. CASE first_id # s
  <2>1. state_vec[s + 1] # Null
    BY <1>3 DEF Stored, SlotOf
  <2>2. ~first_gc
    BY <1>1, <2>1 DEF StoreInv, FirstSlotExclusive
  <2> QED BY <1>1, <1>3, <2>1, <2>2 DEF FirstGet, VectorGet, SlotOf
<1> QED BY <1>2, <1>3

LEMMA LookupSize ==
  ASSUME CountFits, DelayedInv, DelayedInv', DelayedSize, Lookup
  PROVE  DelayedSize'
<1>1. op # NoOp /\ GetMutableState(op.s) /\ op' = [op EXCEPT !.stage = "act"]
  BY DEF Lookup
<1>2. op \in OpType
  BY <1>1, OpType1
<1>3. op' \in OpType /\ op'.s = op.s /\ op'.f = op.f /\ op'.i = op.i
  BY <1>1, <1>2 DEF OpType
<1>4. op' # NoOp /\ op.s \in Ids
  BY <1>2, <1>3, OpFields
<1>5. Pending' = Pending
  BY <1>1, <1>3, <1>4 DEF Pending, Pushed, Expanding
<1> DEFINE f     == FirstGet(op.s)
           state == f.vec[f.slot]
           init  == Gc /\ "Init" \notin state.flags
<1>6. /\ state_vec' = IF init THEN [f.vec EXCEPT ![f.slot].flags = @ \cup {"Init"}]
                              ELSE f.vec
      /\ first_gc' = f.first_gc /\ first_id' = f.first_id
      /\ gc_on' = (gc_on \/ init) /\ ptr' = f.slot /\ ~gc.on
      /\ cache_limit' = cache_limit
      /\ ~init => cache_size' = cache_size /\ gc' = gc
  BY <1>1 DEF GetMutableState
<1>7. Gc => "Init" \in state_vec'[ptr'].flags
  <2>1. FirstGetOK(f)
    BY <1>4, FirstGetLemma DEF DelayedInv
  <2> HIDE DEF f
  <2> QED BY <1>6, <2>1 DEF FirstGetOK
<1>8. ActsCounted'
  BY <1>7 DEF ActsCounted
<1>9. CASE ~Pending
  BY <1>1, <1>4, <1>5, <1>8, <1>9, StoreStepSize
<1>10. CASE Pending
  <2>1. Stored(op.s) /\ StoreInv /\ gc_on \in BOOLEAN
    BY <1>10 DEF Pending, DelayedInv, OpState, StoreInv, StoreTypeOK
  <2>2. /\ f.vec = state_vec /\ f.slot = SlotOf(op.s)
        /\ f.first_gc = first_gc /\ f.first_id = first_id
    BY <1>4, <2>1, FirstGetStored
  <2> HIDE DEF f
  <2>3. ~init
    BY <1>10, <2>2 DEF DelayedSize, PendingQuiet
  <2>4. UNCHANGED <<state_vec, first_gc, first_id, gc_on, cache_size, cache_limit, gc>>
    BY <1>6, <2>1, <2>2, <2>3
  <2>5. SlotOf(op.s)' = SlotOf(op.s)
    BY <1>3, <2>4 DEF SlotOf
  <2>6. CountedVec' = CountedVec
    BY <1>5, <1>10, <2>4, <2>5 DEF CountedVec
  <2>7. DelayedCount'
    BY <2>4, <2>6 DEF DelayedSize, DelayedCount
  <2>8. PendingQuiet' /\ WithinLimit' /\ AimsBelowLimit' /\ (cache_limit >= 2)'
    BY <1>6, <1>10, <2>4, <2>5 DEF DelayedSize, PendingQuiet, WithinLimit, AimsBelowLimit
  <2>9. (~first_gc => InitCounted(state_vec))'
    BY <2>4 DEF DelayedSize, InitCounted
  <2> QED BY <1>8, <2>7, <2>8, <2>9 DEF DelayedSize
<1> QED BY <1>9, <1>10

\* What cache_size covers of the state that Expand fills: the state without arcs.
CountedBare(s, slot) ==
  /\ CountedVec \in [Slots -> CacheState \cup {Null}]
  /\ \A t \in Slots : t # slot => CountedVec[t] = state_vec[t]
  /\ CountedVec[slot] # Null /\ CountedVec[slot].arcs = <<>>
  /\ CountedVec[slot].flags = state_vec[slot].flags

LEMMA FilledBare ==
  ASSUME NEW s \in Ids, NEW slot \in Slots
  PROVE  DelayedInv /\ op # NoOp /\ op.f \in {"PushArc", "SetArcs"}
           /\ s = op.s /\ slot = SlotOf(s) /\ state_vec[slot] # Null
         => CountedBare(s, slot)
<1> SUFFICES ASSUME DelayedInv, op # NoOp, op.f \in {"PushArc", "SetArcs"},
                    s = op.s, slot = SlotOf(s), state_vec[slot] # Null
             PROVE  CountedBare(s, slot)
  OBVIOUS
<1>1. StoreInv /\ state_vec \in [Slots -> CacheState \cup {Null}] /\ Stored(s)
  BY DEF DelayedInv, StoreInv, StoreTypeOK, Stored
<1>2. state_vec[slot] \in CacheState /\ Value(slot) = s
  BY <1>1, SlotValue
<1>3. CASE Pending
  <2> DEFINE none == <<>>
             st   == [state_vec[slot] EXCEPT !.arcs = none]
  <2>1. none \in Seq(Arcs)
    OBVIOUS
  <2> HIDE DEF none
  <2>2. st \in CacheState /\ st.arcs = none /\ st.flags = state_vec[slot].flags
    BY <1>2, <2>1 DEF CacheState
  <2>3. CountedVec = [state_vec EXCEPT ![slot] = st]
    BY <1>1, <1>3 DEF CountedVec, none
  <2> HIDE DEF st
  <2> QED BY <1>1, <2>2, <2>3, NullAssumption DEF CountedBare, none
<1>4. CASE ~Pending
  <2>1. Pushed(s) = <<>>
    BY <1>4 DEF Pending
  <2>2. "Arcs" \notin state_vec[slot].flags
    BY <1>1 DEF DelayedInv, OpState, Expanding
  <2>3. state_vec[slot].arcs = <<>>
    BY <1>2, <2>1, <2>2 DEF DelayedInv, Content, StateOK
  <2> QED BY <1>1, <1>4, <2>3 DEF CountedBare, CountedVec
<1> QED BY <1>3, <1>4

LEMMA FilledBareNext ==
  ASSUME NEW s \in Ids, NEW slot \in Slots
  PROVE  DelayedInv' /\ (op # NoOp)' /\ (op.f \in {"PushArc", "SetArcs"})'
           /\ (s = op.s)' /\ (slot = SlotOf(s))' /\ (state_vec[slot] # Null)'
         => CountedBare(s, slot)'
BY FilledBare, PTL

LEMMA PushArcSize ==
  ASSUME CountFits, DelayedInv, DelayedInv', DelayedSize, PushArc
  PROVE  DelayedSize'
<1>1. /\ op # NoOp /\ ~gc.on /\ op.f = "PushArc" /\ op.stage = "act"
      /\ state_vec' = [state_vec EXCEPT ![ptr].arcs = Append(@, RefArcs[op.s][op.i])]
      /\ op' = IF op.i < Len(RefArcs[op.s])
               THEN [op EXCEPT !.stage = "get", !.i = @ + 1]
               ELSE [op EXCEPT !.stage = "get", !.f = "SetArcs"]
      /\ UNCHANGED StoreRest
  BY DEF PushArc, Acting
<1>2. PICK s \in Ids, slot \in Slots :
           /\ s = op.s /\ slot = ptr /\ slot = SlotOf(s) /\ Value(slot) = s
           /\ state_vec[slot] # Null /\ state_vec[slot] \in CacheState
  BY <1>1, ActingAt
<1>3. op \in OpType
  BY <1>1, OpType1
<1>4. op' \in OpType /\ op'.s = s /\ op'.f \in {"PushArc", "SetArcs"} /\ op'.stage = "get"
  <2>1. op.i \in Nat
    BY <1>3, OpFields
  <2>2. op.i + 1 \in Nat
    BY <2>1
  <2> QED BY <1>1, <1>2, <1>3, <2>2 DEF OpType, Functions
<1>5. op' # NoOp
  BY <1>4, OpFields
<1>6. UNCHANGED <<first_gc, first_id, gc_on, cache_size, cache_limit, ptr, gc>>
  BY <1>1 DEF StoreRest
<1> DEFINE arcs == Append(state_vec[slot].arcs, RefArcs[s][op.i])
           st   == [state_vec[slot] EXCEPT !.arcs = arcs]
<1>7. st.flags = state_vec[slot].flags
  BY <1>2 DEF CacheState
<1>8. /\ state_vec'[slot] = st /\ \A t \in Slots : t # slot => state_vec'[t] = state_vec[t]
      /\ state_vec'[slot] # Null /\ slot = SlotOf(s)'
  <2>1. state_vec' = [state_vec EXCEPT ![slot] = st]
    BY <1>1, <1>2
  <2>2. state_vec \in [Slots -> CacheState \cup {Null}]
    BY DEF DelayedInv, StoreInv, StoreTypeOK
  <2>3. slot = SlotOf(s)'
    BY <1>2, <1>6 DEF SlotOf
  <2>4. state_vec'[slot] # Null
    <3>1. (ptr # Null => state_vec[ptr] # Null)'
      BY DEF DelayedInv, StoreInv, PtrIsStored
    <3> QED BY <1>2, <1>6, <3>1, IdsInSlots
  <2> HIDE DEF st
  <2> QED BY <2>1, <2>2, <2>3, <2>4
<1>9. CountedBare(s, slot) /\ CountedBare(s, slot)'
  <2>1. CountedBare(s, slot)
    BY <1>1, <1>2, FilledBare
  <2>2. CountedBare(s, slot)'
    BY <1>4, <1>5, <1>8, FilledBareNext
  <2> QED BY <2>1, <2>2
<1> HIDE DEF st
<1>10. Occupied(CountedVec') = Occupied(CountedVec)
  <2>1. ASSUME NEW t \in Slots PROVE CountedBytes(CountedVec'[t]) = CountedBytes(CountedVec[t])
    <3>1. CASE t = slot
      BY <1>7, <1>8, <1>9, <3>1 DEF CountedBare, CountedBytes, Bytes
    <3>2. CASE t # slot
      BY <1>8, <1>9, <3>2 DEF CountedBare
    <3> QED BY <3>1, <3>2
  <2> QED BY <2>1, OccupiedSame
<1>11. DelayedCount'
  BY <1>6, <1>10 DEF DelayedSize, DelayedCount
<1>12. (~first_gc => InitCounted(state_vec))'
  BY <1>2, <1>6, <1>7, <1>8 DEF DelayedSize, InitCounted
<1>13. WithinLimit' /\ AimsBelowLimit' /\ (cache_limit >= 2)' /\ ActsCounted'
  BY <1>1, <1>4, <1>6 DEF DelayedSize, WithinLimit, AimsBelowLimit, ActsCounted
<1>14. PendingQuiet'
  <2>1. Gc => "Init" \in state_vec[slot].flags
    BY <1>1, <1>2 DEF DelayedSize, ActsCounted
  <2>2. SlotOf(op.s)' = slot
    BY <1>4, <1>8 DEF SlotOf
  <2> QED BY <1>1, <1>6, <1>7, <1>8, <2>1, <2>2 DEF PendingQuiet
<1> QED BY <1>11, <1>12, <1>13, <1>14 DEF DelayedSize

\* SetArcs counts what was pushed, exactly once, and collects if it is too much.
LEMMA SetArcsSize ==
  ASSUME CountFits, DelayedInv, DelayedInv', DelayedSize, SetArcs
  PROVE  DelayedSize'
<1> DEFINE state == state_vec[ptr]
           size  == IF Counted(state)
                    THEN Wrap(cache_size + Len(state.arcs) * SizeofArc) ELSE cache_size
<1>1. /\ op # NoOp /\ ~gc.on /\ op.f = "SetArcs" /\ op.stage = "act"
      /\ state_vec' = [state_vec EXCEPT ![ptr].neps = @ + NumEps(state.arcs)]
      /\ cache_size' = size
      /\ gc' = IF Counted(state) THEN StartGC(size) ELSE gc
      /\ op' = [op EXCEPT !.f = "MarkArcs"]
      /\ UNCHANGED <<first_gc, gc_on, cache_limit, ptr>>
  BY DEF SetArcs, Acting
<1>2. PICK s \in Ids, slot \in Slots :
           /\ s = op.s /\ slot = ptr /\ slot = SlotOf(s) /\ Value(slot) = s
           /\ state_vec[slot] # Null /\ state_vec[slot] \in CacheState
  BY <1>1, ActingAt
<1>3. op'.f = "MarkArcs"
  BY <1>1, OpType1 DEF OpType
<1>4. ~Pending' /\ ActsCounted'
  BY <1>3, NotPendingNext
<1>5. /\ state_vec \in [Slots -> CacheState \cup {Null}] /\ StoreInv
      /\ cache_size \in Nat /\ cache_limit \in Nat /\ cache_limit >= 2
      /\ first_gc \in BOOLEAN /\ gc_on \in BOOLEAN /\ (gc_on => ~first_gc)
      /\ state_vec' \in [Slots -> CacheState \cup {Null}]
  BY DEF DelayedInv, StoreInv, StoreTypeOK, FirstSlotExclusive, DelayedSize
<1>6. /\ state_vec'[slot] # Null /\ state_vec'[slot].arcs = state.arcs
      /\ state_vec'[slot].flags = state.flags
      /\ \A t \in Slots : t # slot => state_vec'[t] = state_vec[t]
  <2> DEFINE n  == state.neps + NumEps(state.arcs)
             st == [state EXCEPT !.neps = n]
  <2>1. n \in Int
    BY <1>2, NumEpsType DEF CacheState
  <2>2. st \in CacheState /\ st.arcs = state.arcs /\ st.flags = state.flags
    <3> HIDE DEF n
    <3> QED BY <1>2, <2>1 DEF CacheState
  <2>3. state_vec' = [state_vec EXCEPT ![slot] = st]
    BY <1>1, <1>2
  <2> HIDE DEF st, state
  <2> QED BY <1>5, <2>2, <2>3, NullAssumption
<1>7. CountedBare(s, slot)
  BY <1>1, <1>2, FilledBare
<1>8. Len(state.arcs) \in Nat /\ Len(state.arcs) * SizeofArc \in Nat
  BY <1>2, StateFields, CacheConstants
<1> DEFINE more == Len(state.arcs) * SizeofArc
           v    == CountedVec
<1>9. ArcsFit(state_vec') /\ ArcsFit(v)
  <2>1. ArcsFit(state_vec) /\ ArcsFit(state_vec')
    BY CachedFit, CachedFitNext DEF ArcsFit
  <2>2. \A t \in Slots : t # slot => v[t] = state_vec[t]
    BY <1>7 DEF CountedBare
  <2>3. Len(v[slot].arcs) <= MaxArcs
    BY <1>7, CacheConstants DEF CountedBare
  <2> HIDE DEF v
  <2> QED BY <2>1, <2>2, <2>3 DEF ArcsFit
<1> HIDE DEF state, size, v
<1>10. Bounded(state_vec', MaxBytes) /\ Bounded(v, MaxBytes) /\ MaxBytes \in Nat
  <2>1. v \in [Slots -> CacheState \cup {Null}]
    BY <1>7 DEF CountedBare, v
  <2> QED BY <1>5, <1>9, <2>1, FitsBounded
<1>11. Cardinality(Occupied(state_vec')) =
         Cardinality(Occupied(v)) - CountedBytes(v[slot]) + CountedBytes(state_vec'[slot])
  <2>1. \A t \in Slots \ {slot} : CountedBytes(state_vec'[t]) = CountedBytes(v[t])
    BY <1>6, <1>7 DEF CountedBare, v
  <2> QED BY <1>10, <2>1, OccupiedUpdate
<1>12. /\ CountedBytes(v[slot]) = IF "Init" \in state.flags THEN SizeofState ELSE 0
       /\ CountedBytes(state_vec'[slot]) = IF "Init" \in state.flags
                                           THEN SizeofState + more ELSE 0
  <2>1. v[slot].flags = state.flags /\ v[slot] # Null /\ Len(v[slot].arcs) = 0
    BY <1>2, <1>7 DEF CountedBare, v, state
  <2>2. Bytes(v[slot]) = SizeofState
    BY <2>1, CacheConstants DEF Bytes
  <2>3. Bytes(state_vec'[slot]) = SizeofState + more
    BY <1>6 DEF Bytes, more
  <2> QED BY <1>6, <2>1, <2>2, <2>3 DEF CountedBytes
<1>13. /\ Cardinality(Occupied(state_vec')) \in Nat
       /\ Wrap(Cardinality(Occupied(state_vec'))) = Cardinality(Occupied(state_vec'))
  BY <1>5, <1>9, WrapExact DEF CountFits
<1>14. more \in Nat
  BY <1>8 DEF more
<1> HIDE DEF more
<1>15. BookKeeping'
  <2>1. CASE first_gc
    <3>1. cache_size' = cache_size
      BY <1>1, <1>5, <2>1 DEF size, Counted
    <3> QED BY <1>1, <2>1, <3>1 DEF DelayedSize, DelayedCount, BookKeeping
  <2>2. CASE ~first_gc
    <3>1. cache_size = Cardinality(Occupied(v))
      BY <2>2 DEF DelayedSize, DelayedCount, v
    <3>2. Counted(state) <=> "Init" \in state.flags
      BY <1>2, <2>2 DEF Counted, state, DelayedSize, InitCounted
    <3>3. CASE "Init" \in state.flags
      <4>1. Cardinality(Occupied(state_vec')) = cache_size + more
        BY <1>5, <1>11, <1>12, <1>14, <3>1, <3>3, CacheConstants
      <4>2. cache_size' = Wrap(cache_size + more)
        BY <1>1, <3>2, <3>3 DEF size, more
      <4> QED BY <1>1, <1>13, <2>2, <4>1, <4>2 DEF BookKeeping
    <3>4. CASE "Init" \notin state.flags
      <4>1. Cardinality(Occupied(state_vec')) = cache_size
        BY <1>5, <1>11, <1>12, <3>1, <3>4
      <4>2. cache_size' = cache_size
        BY <1>1, <3>2, <3>4 DEF size
      <4> QED BY <1>1, <2>2, <4>1, <4>2 DEF BookKeeping
    <3> QED BY <3>3, <3>4
  <2> QED BY <2>1, <2>2
<1>16. WithinLimit' /\ AimsBelowLimit'
  <2>1. CASE Counted(state)
    <3>1. size \in Nat
      BY <1>5, <1>14, WrapType, CacheConstants DEF size, more
    <3>2. /\ gc'.on \/ cache_size' <= cache_limit
          /\ gc'.on => gc'.target > 0 /\ gc'.target <= cache_limit
      BY <1>1, <1>5, <2>1, <3>1, StartGCAims
    <3>3. "Init" \in state_vec'[ptr].flags
      BY <1>2, <1>6, <2>1 DEF Counted
    <3> QED BY <1>1, <3>2, <3>3 DEF WithinLimit, AimsBelowLimit
  <2>2. CASE ~Counted(state)
    <3>1. gc' = gc /\ cache_size' = cache_size
      BY <1>1, <2>2 DEF size
    <3> QED BY <1>1, <3>1 DEF DelayedSize, WithinLimit, AimsBelowLimit
  <2> QED BY <2>1, <2>2
<1>17. (~first_gc => InitCounted(state_vec))'
  BY <1>1, <1>2, <1>6 DEF DelayedSize, InitCounted, state
<1>18. SizeInv'
  BY <1>1, <1>5, <1>9, <1>15, <1>16, <1>17 DEF SizeInv
<1> QED BY <1>4, <1>18, SettledNext

-------------------------------------------------------------------------------
LEMMA DelayedNextSize ==
  ASSUME CountFits, DelayedInv, DelayedInv', DelayedSize, [DelayedNext]_vars
  PROVE  DelayedSize'
<1>1. CASE UNCHANGED vars
  <2>1. UNCHANGED <<storeVars, op>>
    BY <1>1 DEF vars
  <2>2. UNCHANGED <<state_vec, first_gc, first_id, gc_on, cache_size, cache_limit, ptr, gc, op>>
    BY <2>1 DEF storeVars
  <2>3. Pending' = Pending /\ SlotOf(op.s)' = SlotOf(op.s)
    BY <2>2 DEF Pending, Pushed, Expanding, SlotOf
  <2>4. CountedVec' = CountedVec
    BY <2>2, <2>3 DEF CountedVec
  <2>5. DelayedCount' /\ WithinLimit' /\ AimsBelowLimit' /\ (cache_limit >= 2)'
    BY <2>2, <2>4 DEF DelayedSize, DelayedCount, WithinLimit, AimsBelowLimit
  <2>6. PendingQuiet' /\ ActsCounted' /\ (~first_gc => InitCounted(state_vec))'
    BY <2>2, <2>3 DEF DelayedSize, PendingQuiet, ActsCounted, InitCounted
  <2> QED BY <2>5, <2>6 DEF DelayedSize
<1>2. CASE Start \/ CopyFst \/ NewStateIterator \/ SIterStep
  BY <1>2, PureCallsSize, CopyFstSize, SIterExpandSize, CloseSize DEF SIterStep
<1>3. CASE CallStep
  BY <1>3, LookupSize, ActsSize, PushArcSize, SetArcsSize, ReturnAnswerSize, CollectSize
     DEF CallStep
<1>4. CASE \E it \in Iters : CloseIter(it)
  BY <1>4, CloseSize
<1>5. ASSUME NEW s \in KnownIds, Final(s) \/ NumArcs(s)
      PROVE  DelayedSize'
  BY <1>5, ClientCallsSize
<1>6. ASSUME NEW s \in KnownIds, NEW it \in Iters, InitArcIterator(it, s) \/ ArcIterator(it, s)
      PROVE  DelayedSize'
  BY <1>6, ClientCallsSize
<1> QED BY <1>1, <1>2, <1>3, <1>4, <1>5, <1>6 DEF DelayedNext, ClientCall

LEMMA DelayedInitSize ==
  ASSUME CountFits, DelayedInit
  PROVE  DelayedSize
<1>1. SizeInv /\ DelayedInv /\ op = NoOp
  BY StoreInitSize, DelayedInitInv DEF DelayedInit
<1>2. ~Pending /\ ActsCounted
  BY <1>1 DEF Pending, ActsCounted
<1> QED BY <1>1, <1>2, Settled

\* The two invariants together are inductive.
THEOREM DelayedSizeInvariant ==
  ASSUME CountFits
  PROVE  DelayedSpec => [](DelayedInv /\ DelayedSize)
<1>1. DelayedInit => DelayedInv /\ DelayedSize
  BY DelayedInitInv, DelayedInitSize
<1>2. DelayedInv /\ DelayedSize /\ [DelayedNext]_vars => (DelayedInv /\ DelayedSize)'
  <2>1. DelayedInv /\ [DelayedNext]_vars => DelayedInv'
    BY DelayedNextInv
  <2> QED BY <2>1, DelayedNextSize
<1> QED BY <1>1, <1>2, PTL DEF DelayedSpec

(***************************************************************************)
(* Outside of Expand cache_size_ (cache.h) is what the initialised states  *)
(* occupy, although PushArc adds arcs that it does not count: SetArcs      *)
(* counts all of them, once, and no collection or second lookup comes in   *)
(* between.                                                                *)
(***************************************************************************)
THEOREM DelayedSizeExact ==
  ASSUME CountFits
  PROVE  DelayedSpec => []DelayedBookKeeping
<1>1. DelayedInv /\ DelayedSize => DelayedBookKeeping
  BY DEF DelayedSize, DelayedBookKeeping, DelayedCount, BookKeeping, CountedVec, Pending
<1> QED BY <1>1, DelayedSizeInvariant, PTL

\* Whenever no collection runs, not even in the middle of Expand, the size that
\* the store of a delayed FST has counted is within cache_limit_.
THEOREM DelayedLimitKept ==
  ASSUME CountFits
  PROVE  DelayedSpec => []WithinLimit
<1>1. DelayedInv /\ DelayedSize => WithinLimit
  BY DEF DelayedSize
<1> QED BY <1>1, DelayedSizeInvariant, PTL
===============================================================================
