--------------------------- MODULE CacheStoreProofs ---------------------------
(***************************************************************************)
(* Proofs about CacheStore, for every number of states, every option and   *)
(* every size.  StoreInv is the inductive invariant; it strengthens the    *)
(* exclusion of the two collection schemes (FirstSlotExclusive) by what    *)
(* the sweep relies on: the list names the cached states, each of them     *)
(* once.                                                                   *)
(***************************************************************************)
EXTENDS CacheStore, SequenceTheorems, FiniteSetTheorems, TLAPS

\* Every cached state of vec is in the list (VectorCacheStore keeps one if Gc).
Covers(list, vec) ==
  Gc => \A t \in Slots : vec[t] # Null => \E i \in 1 .. Len(list) : list[i] = t

\* The list names cached states only, each at most once, and all of them.
ListStored ==
  /\ \A i \in 1 .. Len(state_list) : state_vec[state_list[i]] # Null
  /\ \A i, j \in 1 .. Len(state_list) :
       state_list[i] = state_list[j] => i = j
  /\ Covers(state_list, state_vec)

StoreInv ==
  /\ StoreTypeOK
  /\ PtrIsStored
  /\ FirstSlotExclusive
  /\ NoAlias
  /\ ListStored

\* Removing the i-th element of a sequence: length, elements.
LEMMA RemoveAtProperties ==
  ASSUME NEW S, NEW q \in Seq(S), NEW i \in 1 .. Len(q)
  PROVE  /\ RemoveAt(q, i) \in Seq(S)
         /\ Len(RemoveAt(q, i)) = Len(q) - 1
         /\ \A j \in 1 .. Len(q) - 1 :
              RemoveAt(q, i)[j] = IF j < i THEN q[j] ELSE q[j + 1]
<1> DEFINE a == SubSeq(q, 1, i - 1)
           b == SubSeq(q, i + 1, Len(q))
<1>1. a \in Seq(S) /\ Len(a) = i - 1 /\ \A j \in 1 .. i - 1 : a[j] = q[j]
  BY SubSeqProperties
<1>2. /\ b \in Seq(S) /\ Len(b) = Len(q) - i
      /\ \A j \in 1 .. Len(q) - i : b[j] = q[i + j]
  BY SubSeqProperties
<1> HIDE DEF a, b
<1>3. Len(q) \in Nat /\ i \in Nat
  OBVIOUS
<1> DEFINE r == a \o b
<1>4. /\ r \in Seq(S)
      /\ Len(r) = Len(a) + Len(b)
      /\ \A j \in 1 .. Len(a) + Len(b) :
           r[j] = IF j <= Len(a) THEN a[j] ELSE b[j - Len(a)]
  BY <1>1, <1>2, ConcatProperties, Zenon
<1> HIDE DEF r
<1>5. Len(a) + Len(b) = Len(q) - 1
  BY <1>1, <1>2, <1>3
<1>6. ASSUME NEW j \in 1 .. Len(q) - 1
      PROVE  r[j] = IF j < i THEN q[j] ELSE q[j + 1]
  <2>1. r[j] = IF j <= Len(a) THEN a[j] ELSE b[j - Len(a)]
    BY <1>4, <1>5
  <2>2. CASE j < i
    BY <2>1, <2>2, <1>1, <1>3
  <2>3. CASE j >= i
    <3>1. ~(j <= Len(a)) /\ j - Len(a) \in 1 .. Len(q) - i /\ i + (j - Len(a)) = j + 1
      BY <2>3, <1>1, <1>3
    <3>2. b[j - Len(a)] = q[j + 1]
      BY <3>1, <1>2
    <3>3. r[j] = b[j - Len(a)]
      BY <2>1, <3>1
    <3> QED BY <2>3, <3>2, <3>3, <1>3
  <2> QED BY <2>2, <2>3, <1>3
<1> QED BY <1>4, <1>5, <1>6 DEF RemoveAt, a, b, r

\* Removing the i-th element of a sequence without duplicates leaves none, and
\* what is left is the other elements.
LEMMA RemoveAtInjective ==
  ASSUME NEW S, NEW q \in Seq(S), NEW i \in 1 .. Len(q),
         \A j, k \in 1 .. Len(q) : q[j] = q[k] => j = k
  PROVE  /\ \A j \in 1 .. Len(RemoveAt(q, i)) :
              \E k \in 1 .. Len(q) : k # i /\ RemoveAt(q, i)[j] = q[k]
         /\ \A j, k \in 1 .. Len(RemoveAt(q, i)) :
              RemoveAt(q, i)[j] = RemoveAt(q, i)[k] => j = k
<1> DEFINE r == RemoveAt(q, i)
           src(j) == IF j < i THEN j ELSE j + 1
<1>1. Len(q) \in Nat /\ i \in Nat
  OBVIOUS
<1>2. Len(r) = Len(q) - 1 /\ \A j \in 1 .. Len(q) - 1 : r[j] = q[src(j)]
  BY RemoveAtProperties
<1> HIDE DEF r
<1>3. \A j \in 1 .. Len(r) : src(j) \in 1 .. Len(q) /\ src(j) # i
  BY <1>1, <1>2
<1>4. \A j, k \in 1 .. Len(r) : src(j) = src(k) => j = k
  BY <1>1, <1>2
<1>5. \A j \in 1 .. Len(r) : r[j] = q[src(j)]
  BY <1>2
<1> HIDE DEF src
<1> QED BY <1>3, <1>4, <1>5 DEF r

-------------------------------------------------------------------------------
\* What the store looks like when FirstCacheStore::GetMutableState returns f.
FirstGetOK(f) ==
  /\ f.slot \in Slots
  /\ f.vec \in [Slots -> CacheState \cup {Null}]
  /\ f.vec[f.slot] # Null
  /\ \A t \in Slots : state_vec[t] # Null => f.vec[t] # Null
  /\ state_vec[0] # Null /\ state_vec[0].ref # 0 => f.first_id = first_id
  /\ f.first_id # first_id => first_gc
  /\ f.first_gc \in BOOLEAN
  /\ f.first_gc => first_gc
  /\ f.first_gc => f.slot = 0 /\ "Init" \in f.vec[0].flags
  /\ f.first_gc => \A t \in Slots \ {0} : f.vec[t] = Null
  /\ f.first_id \in Ids \cup {NoStateId}
  /\ (f.first_id = NoStateId) = (f.vec[0] = Null)
  /\ f.first_id # NoStateId => f.vec[f.first_id + 1] = Null
  /\ f.list \in Seq(Slots)
  /\ \A i \in 1 .. Len(f.list) : f.vec[f.list[i]] # Null
  /\ \A i, j \in 1 .. Len(f.list) : f.list[i] = f.list[j] => i = j
  /\ Covers(f.list, f.vec)

\* A state that is created is appended to the list; it was not there before.
LEMMA AppendList ==
  ASSUME StoreInv, NEW slot \in Slots, NEW v \in [Slots -> CacheState \cup {Null}],
         \A t \in Slots : state_vec[t] # Null => v[t] # Null,
         v[slot] # Null,
         \A t \in Slots : v[t] # Null => state_vec[t] # Null \/ t = slot,
         NEW list, list = VectorList(state_vec, state_list, slot)
  PROVE  /\ list \in Seq(Slots)
         /\ \A i \in 1 .. Len(list) : v[list[i]] # Null
         /\ \A i, j \in 1 .. Len(list) : list[i] = list[j] => i = j
         /\ Covers(list, v)
<1>1. state_list \in Seq(Slots) /\ Len(state_list) \in Nat
      /\ \A i \in 1 .. Len(state_list) : state_list[i] \in Slots
  BY DEF StoreInv, StoreTypeOK
<1>2. CASE list = state_list /\ (Gc => state_vec[slot] # Null)
  BY <1>1, <1>2 DEF StoreInv, ListStored, Covers
<1>3. CASE state_vec[slot] = Null /\ list = Append(state_list, slot)
  <2>1. /\ list \in Seq(Slots) /\ Len(list) = Len(state_list) + 1
        /\ \A i \in 1 .. Len(state_list) : list[i] = state_list[i]
        /\ list[Len(state_list) + 1] = slot
    BY <1>1, <1>3, AppendProperties
  <2>2. \A i \in 1 .. Len(state_list) : state_list[i] # slot
    BY <1>3 DEF StoreInv, ListStored
  <2>3. \A i \in 1 .. Len(list) : v[list[i]] # Null
    BY <1>1, <2>1 DEF StoreInv, ListStored
  <2>4. ASSUME NEW i \in 1 .. Len(list), NEW j \in 1 .. Len(list),
               list[i] = list[j]
        PROVE  i = j
    BY <1>1, <2>1, <2>2, <2>4 DEF StoreInv, ListStored
  <2>5. Covers(list, v)
    <3>1. ASSUME Gc, NEW t \in Slots, v[t] # Null
          PROVE  \E i \in 1 .. Len(list) : list[i] = t
      <4>1. CASE t = slot
        BY <1>1, <2>1, <4>1
      <4>2. CASE t # slot
        <5>1. PICK i \in 1 .. Len(state_list) : state_list[i] = t
          BY <3>1, <4>2 DEF StoreInv, ListStored, Covers
        <5> QED BY <1>1, <2>1, <5>1
      <4> QED BY <4>1, <4>2
    <3> QED BY <3>1 DEF Covers
  <2> QED BY <2>1, <2>3, <2>4, <2>5
<1>4. \/ list = state_list /\ (Gc => state_vec[slot] # Null)
      \/ state_vec[slot] = Null /\ list = Append(state_list, slot)
  BY CacheConstants DEF VectorList
<1> QED BY <1>2, <1>3, <1>4

LEMMA FreshStateType == FreshState \in CacheState
BY CacheConstants DEF FreshState, CacheState

\* FirstCacheStore::GetMutableState keeps the store well formed.
LEMMA FirstGetLemma ==
  ASSUME StoreInv, NEW s \in Ids
  PROVE  FirstGetOK(FirstGet(s))
<1> DEFINE f == FirstGet(s)
<1> USE CacheConstants DEF Ids, Slots, NoStateId
<1>1. /\ state_vec \in [Slots -> CacheState \cup {Null}]
      /\ first_gc \in BOOLEAN /\ first_id \in Ids \cup {NoStateId}
      /\ s + 1 \in Slots /\ 0 \in Slots /\ s # NoStateId /\ s + 1 # 0
  BY DEF StoreInv, StoreTypeOK
<1>2. CASE first_id = s
  <2>1. state_vec[0] # Null
    BY <1>1, <1>2 DEF StoreInv, NoAlias
  <2>2. f = [slot |-> 0, vec |-> [state_vec EXCEPT ![0] = state_vec[0]],
             list |-> state_list, first_gc |-> first_gc, first_id |-> first_id]
    BY <1>2, <2>1 DEF FirstGet, VectorGet
  <2>3. [state_vec EXCEPT ![0] = state_vec[0]] = state_vec
    BY <1>1
  <2>4. f = [slot |-> 0, vec |-> state_vec,
             list |-> state_list, first_gc |-> first_gc, first_id |-> first_id]
    BY <2>2, <2>3, Zenon
  <2> HIDE DEF f
  <2> QED
    BY <1>1, <2>1, <2>4
    DEF FirstGetOK, StoreInv, StoreTypeOK, NoAlias, FirstSlotExclusive, ListStored, f
<1>3. CASE first_id # s /\ ~first_gc
  <2> DEFINE st == VectorGet(state_vec, s + 1)
             v  == [state_vec EXCEPT ![s + 1] = st]
             l  == VectorList(state_vec, state_list, s + 1)
  <2>1. st \in CacheState /\ st # Null
    BY <1>1, FreshStateType, NullAssumption DEF VectorGet
  <2>2. f = [slot |-> s + 1, vec |-> v, list |-> l,
             first_gc |-> FALSE, first_id |-> first_id]
    BY <1>3 DEF FirstGet
  <2>3. /\ v \in [Slots -> CacheState \cup {Null}]
        /\ v[s + 1] = st /\ \A t \in Slots \ {s + 1} : v[t] = state_vec[t]
    BY <1>1, <2>1
  <2> HIDE DEF st, v, l, f
  <2>4. /\ l \in Seq(Slots)
        /\ \A i \in 1 .. Len(l) : v[l[i]] # Null
        /\ \A i, j \in 1 .. Len(l) : l[i] = l[j] => i = j
        /\ Covers(l, v)
    BY <1>1, <2>1, <2>3, AppendList DEF l
  <2>5. /\ (first_id = NoStateId) = (v[0] = Null)
        /\ first_id # NoStateId => v[first_id + 1] = Null
    BY <1>1, <1>3, <2>3 DEF StoreInv, NoAlias
  <2>6. v[s + 1] # Null /\ \A t \in Slots : state_vec[t] # Null => v[t] # Null
    BY <2>1, <2>3
  <2> QED BY <1>1, <1>3, <2>1, <2>2, <2>3, <2>4, <2>5, <2>6 DEF FirstGetOK, f
<1>4. CASE first_id # s /\ first_gc /\ first_id = NoStateId
  <2> DEFINE st == [VectorGet(state_vec, 0) EXCEPT !.flags = @ \cup {"Init"}]
             v  == [state_vec EXCEPT ![0] = st]
             l  == VectorList(state_vec, state_list, 0)
  <2>1. st \in CacheState /\ st # Null /\ "Init" \in st.flags
    <3>1. VectorGet(state_vec, 0) = FreshState
      BY <1>1, <1>4 DEF StoreInv, NoAlias, VectorGet
    <3> QED BY <3>1, FreshStateType, NullAssumption DEF CacheState, CacheFlags
  <2>2. f = [slot |-> 0, vec |-> v, list |-> l, first_gc |-> TRUE, first_id |-> s]
    BY <1>4 DEF FirstGet
  <2>3. /\ v \in [Slots -> CacheState \cup {Null}]
        /\ v[0] = st /\ \A t \in Slots \ {0} : v[t] = Null
        /\ \A t \in Slots : state_vec[t] # Null => v[t] # Null
    BY <1>1, <1>4, <2>1 DEF StoreInv, FirstSlotExclusive
  <2> HIDE DEF st, v, l, f
  <2>4. /\ l \in Seq(Slots)
        /\ \A i \in 1 .. Len(l) : v[l[i]] # Null
        /\ \A i, j \in 1 .. Len(l) : l[i] = l[j] => i = j
        /\ Covers(l, v)
    BY <1>1, <2>1, <2>3, AppendList DEF l
  <2>5. state_vec[0] = Null
    BY <1>4 DEF StoreInv, NoAlias
  <2> QED BY <1>1, <1>4, <2>1, <2>2, <2>3, <2>4, <2>5 DEF FirstGetOK, f
<1>5. CASE first_id # s /\ first_gc /\ first_id # NoStateId
  <2>1. state_vec[0] # Null /\ state_vec[0] \in CacheState
        /\ VectorGet(state_vec, 0) = state_vec[0]
    BY <1>1, <1>5 DEF StoreInv, NoAlias, VectorGet
  <2>2. CASE state_vec[0].ref = 0
    <3> DEFINE st == [FreshState EXCEPT !.flags = {"Init"}]
               v  == [state_vec EXCEPT ![0] = st]
    <3>1. st \in CacheState /\ st # Null /\ "Init" \in st.flags
      BY FreshStateType, NullAssumption DEF CacheState, CacheFlags
    <3>2. f = [slot |-> 0, vec |-> v, list |-> state_list,
               first_gc |-> TRUE, first_id |-> s]
      BY <1>1, <1>5, <2>1, <2>2 DEF FirstGet, Reusable, ReusedState
    <3>3. /\ v \in [Slots -> CacheState \cup {Null}]
          /\ v[0] = st /\ \A t \in Slots \ {0} : v[t] = Null
      BY <1>1, <1>5, <3>1 DEF StoreInv, FirstSlotExclusive
    <3>4. \A t \in Slots : state_vec[t] # Null => v[t] # Null
      BY <1>5, <3>1, <3>3 DEF StoreInv, FirstSlotExclusive
    <3> HIDE DEF st, v, f
    <3>5. /\ state_list \in Seq(Slots)
          /\ \A i \in 1 .. Len(state_list) : v[state_list[i]] # Null
          /\ \A i, j \in 1 .. Len(state_list) :
               state_list[i] = state_list[j] => i = j
          /\ Covers(state_list, v)
      <4>1. state_list \in Seq(Slots)
            /\ \A i \in 1 .. Len(state_list) : state_list[i] \in Slots
        BY DEF StoreInv, StoreTypeOK
      <4>2. \A t \in Slots : v[t] # Null => state_vec[t] # Null
        BY <2>1, <3>3
      <4> QED BY <3>4, <4>1, <4>2 DEF StoreInv, ListStored, Covers
    <3> QED BY <1>1, <1>5, <2>2, <3>1, <3>2, <3>3, <3>4, <3>5 DEF FirstGetOK, f
  <2>3. CASE state_vec[0].ref # 0
    <3> DEFINE w  == [state_vec EXCEPT ![0].flags = @ \ {"Init"}]
               st == VectorGet(w, s + 1)
               v  == [w EXCEPT ![s + 1] = st]
               l  == VectorList(w, state_list, s + 1)
    <3>1. /\ w \in [Slots -> CacheState \cup {Null}] /\ w[0] # Null
          /\ \A t \in Slots \ {0} : w[t] = Null /\ state_vec[t] = Null
      <4>1. [state_vec[0] EXCEPT !.flags = @ \ {"Init"}] \in CacheState
        BY <2>1 DEF CacheState
      <4> QED BY <1>1, <1>5, <4>1, NullAssumption DEF StoreInv, FirstSlotExclusive
    <3>2. f = [slot |-> s + 1, vec |-> v, list |-> l,
               first_gc |-> FALSE, first_id |-> first_id]
      BY <1>1, <1>5, <2>1, <2>3 DEF FirstGet, Reusable
    <3> HIDE DEF w, f
    <3>3. st = FreshState /\ st \in CacheState /\ st # Null
      BY <1>1, <3>1, FreshStateType, NullAssumption DEF VectorGet
    <3> HIDE DEF st
    <3>4. /\ v \in [Slots -> CacheState \cup {Null}]
          /\ v[s + 1] = st /\ \A t \in Slots \ {s + 1} : v[t] = w[t]
      BY <1>1, <3>1, <3>3
    <3>5. l = VectorList(state_vec, state_list, s + 1)
      BY <1>1, <3>1 DEF VectorList
    <3> HIDE DEF v, l
    <3>6. \A t \in Slots : state_vec[t] # Null => v[t] # Null
      BY <1>1, <3>1, <3>4
    <3>7. /\ l \in Seq(Slots)
          /\ \A i \in 1 .. Len(l) : v[l[i]] # Null
          /\ \A i, j \in 1 .. Len(l) : l[i] = l[j] => i = j
          /\ Covers(l, v)
      <4>1. \A t \in Slots : v[t] # Null => state_vec[t] # Null \/ t = s + 1
        BY <1>1, <2>1, <3>1, <3>4
      <4> QED BY <1>1, <3>3, <3>4, <3>5, <3>6, <4>1, AppendList
    <3>8. v[0] # Null /\ v[first_id + 1] = Null
      BY <1>1, <1>5, <3>1, <3>4
    <3> QED BY <1>1, <1>5, <3>2, <3>3, <3>4, <3>6, <3>7, <3>8 DEF FirstGetOK, f
  <2> QED BY <2>2, <2>3
<1> QED BY <1>1, <1>2, <1>3, <1>4, <1>5

-------------------------------------------------------------------------------
LEMMA WrapType == ASSUME NEW n \in Int PROVE Wrap(n) \in Nat
BY CacheConstants DEF Wrap

LEMMA BytesType == ASSUME NEW st \in CacheState PROVE Bytes(st) \in Nat
<1>1. Len(st.arcs) \in Nat
  BY DEF CacheState
<1> QED BY <1>1, CacheConstants DEF Bytes

LEMMA TargetType == ASSUME NEW n \in Nat PROVE Target(n) \in Nat
BY DEF Target

\* The shape of gc: what starting, or not starting, a collection gives.
GCType == [on : BOOLEAN, pos : Nat \ {0}, recent : BOOLEAN, target : Nat]

LEMMA StartGCType ==
  ASSUME cache_limit \in Nat, NEW size \in Nat
  PROVE  StartGC(size) \in GCType
BY TargetType DEF StartGC, NoGC, GCType

(***************************************************************************)
(* An operation that replaces one cached state by another version of it    *)
(* and neither moves states nor turns its Init flag off keeps the          *)
(* invariant.                                                              *)
(***************************************************************************)
LEMMA UpdateOneState ==
  ASSUME StoreInv, NEW slot \in Slots, state_vec[slot] # Null,
         NEW st \in CacheState,
         "Init" \in state_vec[slot].flags => "Init" \in st.flags,
         state_vec' = [state_vec EXCEPT ![slot] = st],
         UNCHANGED <<state_list, first_gc, first_id, gc_on, ptr>>,
         cache_size' \in Nat, cache_limit' \in Nat \ {0},
         gc' \in GCType, gc'.on => gc_on /\ ptr # Null
  PROVE  StoreInv'
<1> USE CacheConstants DEF Slots
<1>1. /\ state_vec \in [Slots -> CacheState \cup {Null}] /\ st # Null /\ 0 \in Slots
      /\ state_list \in Seq(Slots) /\ first_gc \in BOOLEAN /\ gc_on \in BOOLEAN
      /\ first_id \in Ids \cup {NoStateId} /\ ptr \in Slots \cup {Null}
      /\ \A i \in 1 .. Len(state_list) : state_list[i] \in Slots
  BY NullAssumption DEF StoreInv, StoreTypeOK
<1>2. /\ state_vec' \in [Slots -> CacheState \cup {Null}]
      /\ \A t \in Slots : (state_vec'[t] = Null) = (state_vec[t] = Null)
      /\ \A t \in Slots : state_vec[t] # Null /\ "Init" \in state_vec[t].flags
                          => "Init" \in state_vec'[t].flags
  BY <1>1
<1>3. StoreTypeOK'
  BY <1>1, <1>2 DEF StoreTypeOK, GCType
<1>4. PtrIsStored'
  BY <1>1, <1>2 DEF StoreInv, PtrIsStored
<1>5. FirstSlotExclusive'
  BY <1>1, <1>2 DEF StoreInv, FirstSlotExclusive
<1>6. NoAlias'
  BY <1>1, <1>2 DEF StoreInv, NoAlias, Ids, NoStateId
<1>7. ListStored'
  BY <1>1, <1>2 DEF StoreInv, ListStored, Covers
<1> QED BY <1>3, <1>4, <1>5, <1>6, <1>7 DEF StoreInv

\* GCCacheStore::GetMutableState keeps the invariant.
LEMMA GetMutableStateInv ==
  ASSUME StoreInv, NEW s \in Ids, GetMutableState(s)
  PROVE  StoreInv'
<1> DEFINE f    == FirstGet(s)
           init == Gc /\ "Init" \notin f.vec[f.slot].flags
           size == IF init THEN Wrap(cache_size + Bytes(f.vec[f.slot])) ELSE cache_size
<1>1. FirstGetOK(f)
  BY FirstGetLemma
<1>2. /\ state_vec' = IF init THEN [f.vec EXCEPT ![f.slot].flags = @ \cup {"Init"}]
                              ELSE f.vec
      /\ state_list' = f.list /\ first_gc' = f.first_gc /\ first_id' = f.first_id
      /\ gc_on' = (gc_on \/ init) /\ cache_size' = size /\ ptr' = f.slot
      /\ gc' = IF init THEN StartGC(size) ELSE gc
      /\ cache_limit' = cache_limit /\ ~gc.on
  BY DEF GetMutableState
<1> HIDE DEF f
<1>3. f.vec[f.slot] \in CacheState /\ f.slot \in Slots
  BY <1>1, NullAssumption DEF FirstGetOK
<1>4. /\ cache_size \in Nat /\ cache_limit \in Nat \ {0} /\ gc \in GCType
      /\ gc_on \in BOOLEAN /\ init \in BOOLEAN
  BY CacheConstants DEF StoreInv, StoreTypeOK, GCType
<1>5. size \in Nat
  BY <1>3, <1>4, BytesType, WrapType
<1> HIDE DEF init, size
<1>6. gc' \in GCType
  BY <1>2, <1>4, <1>5, StartGCType
<1>7. gc'.on => gc_on'
  BY <1>2, <1>4
<1>8. init => ~f.first_gc
  BY <1>1 DEF FirstGetOK, init
<1>9. /\ state_vec' \in [Slots -> CacheState \cup {Null}]
      /\ \A t \in Slots : (state_vec'[t] = Null) = (f.vec[t] = Null)
      /\ state_vec'[f.slot] # Null
      /\ ~init => state_vec' = f.vec
  <2>1. [f.vec[f.slot] EXCEPT !.flags = @ \cup {"Init"}] \in CacheState
    BY <1>3 DEF CacheState, CacheFlags
  <2> QED BY <1>1, <1>2, <1>3, <2>1, NullAssumption DEF FirstGetOK
<1>10. StoreTypeOK'
  BY <1>1, <1>2, <1>3, <1>4, <1>5, <1>6, <1>9 DEF StoreTypeOK, GCType, FirstGetOK
<1>11. PtrIsStored'
  BY <1>2, <1>9 DEF PtrIsStored
<1>12. FirstSlotExclusive'
  <2>1. gc_on' => ~first_gc'
    BY <1>1, <1>2, <1>4, <1>8 DEF StoreInv, FirstSlotExclusive, FirstGetOK
  <2>2. gc'.on => gc_on' /\ ptr' # Null
    BY <1>2, <1>3, <1>7, NullNotASlot
  <2>3. first_gc' => \A slot \in Slots \ {0} : state_vec'[slot] = Null
    BY <1>1, <1>2, <1>9 DEF FirstGetOK
  <2>4. first_gc' => "Init" \in state_vec'[0].flags
    BY <1>1, <1>2, <1>8, <1>9 DEF FirstGetOK
  <2> QED BY <2>1, <2>2, <2>3, <2>4 DEF FirstSlotExclusive
<1>13. NoAlias'
  <2>1. 0 \in Slots /\ \A i \in Ids : i + 1 \in Slots
    BY CacheConstants DEF Slots, Ids
  <2> QED BY <1>1, <1>2, <1>9, <2>1 DEF NoAlias, FirstGetOK
<1>14. ListStored'
  <2>1. \A i \in 1 .. Len(f.list) : f.list[i] \in Slots
    BY <1>1 DEF FirstGetOK
  <2> QED BY <1>1, <1>2, <1>9, <2>1 DEF ListStored, FirstGetOK, Covers
<1> QED BY <1>10, <1>11, <1>12, <1>13, <1>14 DEF StoreInv

(***************************************************************************)
(* In the loop of GC the lookup of the state at the iterator returns that  *)
(* state and changes nothing: neither slot 0 is handed over nor a state    *)
(* created.                                                                *)
(***************************************************************************)
LEMMA SweepLookup ==
  ASSUME StoreInv, gc.on, NEW pos \in 1 .. Len(state_list)
  PROVE  FirstGet(Value(state_list[pos])) =
           [slot |-> state_list[pos], vec |-> state_vec, list |-> state_list,
            first_gc |-> first_gc, first_id |-> first_id]
<1> DEFINE slot == state_list[pos]
<1> USE CacheConstants DEF Slots, Ids, NoStateId
<1>1. slot \in Slots /\ state_vec[slot] # Null
      /\ state_vec \in [Slots -> CacheState \cup {Null}]
      /\ first_id \in Ids \cup {NoStateId} /\ first_gc = FALSE
  <2>1. /\ state_list \in Seq(Slots) /\ first_gc \in BOOLEAN
        /\ state_vec \in [Slots -> CacheState \cup {Null}]
        /\ first_id \in Ids \cup {NoStateId}
    BY DEF StoreInv, StoreTypeOK
  <2>2. ~first_gc
    BY DEF StoreInv, FirstSlotExclusive
  <2>3. state_vec[state_list[pos]] # Null
    BY DEF StoreInv, ListStored
  <2> QED BY <2>1, <2>2, <2>3
<1> HIDE DEF slot
<1>2. [state_vec EXCEPT ![slot] = state_vec[slot]] = state_vec
  BY <1>1
<1>3. CASE slot = 0
  <2>1. Value(slot) = first_id
    BY <1>3 DEF Value
  <2>2. VectorGet(state_vec, 0) = state_vec[0]
    BY <1>1, <1>3 DEF VectorGet
  <2> QED BY <1>1, <1>2, <1>3, <2>1, <2>2 DEF FirstGet, slot
<1>4. CASE slot # 0
  <2>1. Value(slot) = slot - 1 /\ (slot - 1) + 1 = slot
    BY <1>1, <1>4 DEF Value
  <2>2. first_id # slot - 1
    BY <1>1, <1>4 DEF StoreInv, NoAlias
  <2>3. /\ VectorGet(state_vec, slot) = state_vec[slot]
        /\ VectorList(state_vec, state_list, slot) = state_list
    BY <1>1 DEF VectorGet, VectorList
  <2> QED BY <1>1, <1>2, <2>1, <2>2, <2>3 DEF FirstGet, slot
<1> QED BY <1>3, <1>4

\* Freeing the state at an iterator keeps the invariant if nobody uses it.
LEMMA FreeInv ==
  ASSUME StoreInv, NEW pos \in 1 .. Len(state_list),
         state_vec' = [state_vec EXCEPT ![state_list[pos]] = Null],
         state_list' = RemoveAt(state_list, pos),
         first_id' = OwnerAfterDelete(state_list[pos]),
         UNCHANGED <<first_gc, gc_on>>,
         ptr' \in Slots \cup {Null}, ptr' # Null => ptr' = ptr,
         ptr' # state_list[pos],
         cache_size' \in Nat, cache_limit' \in Nat \ {0},
         gc' \in GCType, gc'.on => gc_on /\ ptr' # Null
  PROVE  StoreInv'
<1> DEFINE slot == state_list[pos]
<1> USE CacheConstants DEF Slots, Ids, NoStateId
<1>1. /\ slot \in Slots /\ state_vec[slot] # Null /\ 0 \in Slots
      /\ state_vec \in [Slots -> CacheState \cup {Null}]
      /\ first_id \in Ids \cup {NoStateId} /\ first_gc \in BOOLEAN /\ gc_on \in BOOLEAN
      /\ state_list \in Seq(Slots) /\ Len(state_list) \in Nat
  BY DEF StoreInv, StoreTypeOK, ListStored
<1>2. /\ state_list' \in Seq(Slots)
      /\ Len(state_list') = Len(state_list) - 1
      /\ \A j \in 1 .. Len(state_list) - 1 :
           state_list'[j] = IF j < pos THEN state_list[j] ELSE state_list[j + 1]
  BY <1>1, RemoveAtProperties
<1> HIDE DEF slot
<1>3. /\ state_vec' \in [Slots -> CacheState \cup {Null}]
      /\ state_vec'[slot] = Null
      /\ \A t \in Slots \ {slot} : state_vec'[t] = state_vec[t]
  BY <1>1 DEF slot
<1>4. first_id' = IF slot = 0 THEN NoStateId ELSE first_id
  BY <1>1 DEF OwnerAfterDelete, Value, StoreInv, NoAlias, slot
<1>5. StoreTypeOK'
  BY <1>1, <1>2, <1>3, <1>4 DEF StoreTypeOK, GCType
<1>6. PtrIsStored'
  BY <1>1, <1>3 DEF StoreInv, PtrIsStored, slot
<1>7. FirstSlotExclusive'
  BY <1>1, <1>3 DEF StoreInv, FirstSlotExclusive
<1>8. NoAlias'
  <2>1. CASE slot = 0
    BY <1>3, <1>4, <2>1 DEF NoAlias
  <2>2. CASE slot # 0
    BY <1>1, <1>3, <1>4, <2>2 DEF StoreInv, NoAlias
  <2> QED BY <2>1, <2>2
<1>9. ListStored'
  <2>1. \A i, j \in 1 .. Len(state_list) : state_list[i] = state_list[j] => i = j
    BY DEF StoreInv, ListStored
  <2>2. /\ \A j \in 1 .. Len(state_list') :
             \E k \in 1 .. Len(state_list) : k # pos /\ state_list'[j] = state_list[k]
        /\ \A i, j \in 1 .. Len(state_list') : state_list'[i] = state_list'[j] => i = j
    <3> DEFINE r == RemoveAt(state_list, pos)
    <3>1. /\ \A j \in 1 .. Len(r) :
               \E k \in 1 .. Len(state_list) : k # pos /\ r[j] = state_list[k]
          /\ \A i, j \in 1 .. Len(r) : r[i] = r[j] => i = j
      BY <1>1, <2>1, RemoveAtInjective, Zenon
    <3>2. state_list' = r
      OBVIOUS
    <3> HIDE DEF r
    <3> QED BY <3>1, <3>2
  <2>3. \A k \in 1 .. Len(state_list) : k # pos =>
          /\ state_list[k] \in Slots \ {slot}
          /\ state_vec[state_list[k]] # Null
    BY <1>1 DEF StoreInv, ListStored, slot
  <2>4. ASSUME NEW j \in 1 .. Len(state_list')
        PROVE  state_vec'[state_list'[j]] # Null
    <3>1. PICK k \in 1 .. Len(state_list) : k # pos /\ state_list'[j] = state_list[k]
      BY <2>2
    <3> QED BY <1>3, <2>3, <3>1
  <2>5. ASSUME Gc, NEW t \in Slots, state_vec'[t] # Null
        PROVE  \E j \in 1 .. Len(state_list') : state_list'[j] = t
    <3>1. t # slot /\ state_vec[t] # Null
      BY <1>3, <2>5
    <3>2. PICK k \in 1 .. Len(state_list) : state_list[k] = t
      BY <2>5, <3>1 DEF StoreInv, ListStored, Covers
    <3>3. k # pos
      BY <3>1, <3>2 DEF slot
    <3>4. CASE k < pos
      <4>1. k \in 1 .. Len(state_list')
        BY <1>1, <1>2, <3>4
      <4>2. state_list'[k] = state_list[k]
        BY <1>1, <1>2, <3>4, <4>1
      <4> QED BY <3>2, <4>1, <4>2
    <3>5. CASE k > pos
      <4>1. k - 1 \in 1 .. Len(state_list') /\ ~(k - 1 < pos) /\ (k - 1) + 1 = k
        BY <1>1, <1>2, <3>5
      <4>2. state_list'[k - 1] = state_list[(k - 1) + 1]
        BY <1>1, <1>2, <4>1
      <4> QED BY <3>2, <4>1, <4>2
    <3> QED BY <3>3, <3>4, <3>5
  <2> QED BY <2>2, <2>4, <2>5 DEF ListStored, Covers
<1> QED BY <1>5, <1>6, <1>7, <1>8, <1>9 DEF StoreInv

-------------------------------------------------------------------------------
\* Replacing fields of a cached state other than its flags.
LEMMA UpdateArcs ==
  ASSUME NEW st \in CacheState, NEW arcs \in Seq(Arcs), NEW neps \in Int
  PROVE  /\ [st EXCEPT !.arcs = arcs, !.neps = neps] \in CacheState
         /\ [st EXCEPT !.arcs = arcs, !.neps = neps].flags = st.flags
BY DEF CacheState

LEMMA UpdateRef ==
  ASSUME NEW st \in CacheState, NEW ref \in Int
  PROVE  /\ [st EXCEPT !.ref = ref] \in CacheState
         /\ [st EXCEPT !.ref = ref].flags = st.flags
BY DEF CacheState

LEMMA StateFields ==
  ASSUME NEW st \in CacheState
  PROVE  st.arcs \in Seq(Arcs) /\ st.neps \in Int /\ st.ref \in Int
BY DEF CacheState

\* CacheState::AddArc keeps the flags.
LEMMA StateAddArcType ==
  ASSUME NEW st \in CacheState, NEW arc \in Arcs
  PROVE  /\ StateAddArc(st, arc) \in CacheState
         /\ StateAddArc(st, arc).flags = st.flags
<1> DEFINE arcs == Append(st.arcs, arc)
           neps == IF arc \in EpsArcs THEN st.neps + 1 ELSE st.neps
<1>1. arcs \in Seq(Arcs)
  BY StateFields, AppendProperties
<1>2. neps \in Int
  BY StateFields
<1>3. StateAddArc(st, arc) = [st EXCEPT !.arcs = arcs, !.neps = neps]
  BY DEF StateAddArc
<1>4. /\ [st EXCEPT !.arcs = arcs, !.neps = neps] \in CacheState
      /\ [st EXCEPT !.arcs = arcs, !.neps = neps].flags = st.flags
  BY <1>1, <1>2, UpdateArcs, Zenon
<1> QED BY <1>3, <1>4, Zenon

\* A state has finitely many epsilon arcs.
LEMMA NumEpsType ==
  ASSUME NEW q \in Seq(Arcs)
  PROVE  NumEps(q) \in Nat
<1>1. IsFiniteSet(1 .. Len(q))
  BY FS_Interval
<1>2. IsFiniteSet({i \in DOMAIN q : q[i] \in EpsArcs})
  BY <1>1, FS_Subset
<1> QED BY <1>2, FS_CardinalityType DEF NumEps

\* CacheState::DeleteArcs(n) keeps the flags.
LEMMA StateDeleteArcsType ==
  ASSUME NEW st \in CacheState, NEW n \in Nat, n > 0
  PROVE  /\ StateDeleteArcs(st, n) \in CacheState
         /\ StateDeleteArcs(st, n).flags = st.flags
<1> DEFINE left == IF n >= Len(st.arcs) THEN <<>>
                   ELSE SubSeq(st.arcs, 1, Len(st.arcs) - n)
<1>1. st.arcs \in Seq(Arcs) /\ Len(st.arcs) \in Nat
  BY DEF CacheState
<1>2. left \in Seq(Arcs)
  BY <1>1, SubSeqProperties
<1>3. NumEps(st.arcs) \in Nat /\ NumEps(left) \in Nat
  BY <1>1, <1>2, NumEpsType
<1> DEFINE neps == IF left = <<>> THEN 0
                   ELSE st.neps - (NumEps(st.arcs) - NumEps(left))
<1>4. StateDeleteArcs(st, n) = [st EXCEPT !.arcs = left, !.neps = neps]
  BY DEF StateDeleteArcs
<1> HIDE DEF left
<1>5. neps \in Int
  BY <1>3 DEF CacheState
<1>6. /\ [st EXCEPT !.arcs = left, !.neps = neps] \in CacheState
      /\ [st EXCEPT !.arcs = left, !.neps = neps].flags = st.flags
  BY <1>2, <1>5, UpdateArcs, Zenon
<1> QED BY <1>4, <1>6, Zenon

(***************************************************************************)
(* The operations on one cached state.                                     *)
(***************************************************************************)
LEMMA StateOpsInv ==
  ASSUME StoreInv,
         \/ \E arc \in Arcs : AddArc(arc)
         \/ DeleteAllArcs
         \/ \E n \in 1 .. MaxArcs + MaxExcess : DeleteArcs(n)
         \/ \E s \in Ids : Visit(s) \/ IncrRef(s) \/ DecrRef(s)
  PROVE  StoreInv'
<1> USE CacheConstants DEF Slots, Ids, NoStateId
<1>1. /\ state_vec \in [Slots -> CacheState \cup {Null}]
      /\ first_id \in Ids \cup {NoStateId} /\ ptr \in Slots \cup {Null}
      /\ cache_size \in Nat /\ cache_limit \in Nat \ {0} /\ gc \in GCType
      /\ gc_on \in BOOLEAN
  BY DEF StoreInv, StoreTypeOK, GCType
<1>2. \A s \in Ids : SlotOf(s) \in Slots
  BY DEF SlotOf
<1>3. ASSUME ptr # Null
      PROVE  ptr \in Slots /\ state_vec[ptr] # Null /\ state_vec[ptr] \in CacheState
  BY <1>1, <1>3 DEF StoreInv, PtrIsStored
<1>4. ASSUME NEW st \in CacheState
      PROVE  Len(st.arcs) \in Nat /\ Len(st.arcs) * SizeofArc \in Int
  BY DEF CacheState
<1>5. ASSUME NEW arc \in Arcs, AddArc(arc) PROVE StoreInv'
  <2> DEFINE old  == state_vec[ptr]
             st   == StateAddArc(old, arc)
             size == IF Counted(st) THEN Wrap(cache_size + SizeofArc) ELSE cache_size
  <2>1. /\ ptr # Null /\ ~gc.on
        /\ state_vec' = [state_vec EXCEPT ![ptr] = st] /\ cache_size' = size
        /\ gc' = IF Counted(st) THEN StartGC(size) ELSE gc
        /\ UNCHANGED <<state_list, first_gc, first_id, gc_on, cache_limit, ptr>>
    BY <1>5 DEF AddArc
  <2>2. old \in CacheState /\ ptr \in Slots /\ old # Null
    BY <1>3, <2>1
  <2> HIDE DEF old
  <2>3. st \in CacheState /\ st.flags = old.flags
    BY <2>2, StateAddArcType
  <2> HIDE DEF st
  <2>4. size \in Nat
    BY <1>1, WrapType
  <2>5. gc' \in GCType /\ (gc'.on => gc_on /\ ptr # Null)
    BY <1>1, <2>1, <2>4, StartGCType DEF Counted
  <2> QED BY <1>1, <2>1, <2>2, <2>3, <2>4, <2>5, UpdateOneState DEF old
<1>6. ASSUME DeleteAllArcs PROVE StoreInv'
  <2> DEFINE old == state_vec[ptr]
             st  == [old EXCEPT !.arcs = <<>>, !.neps = 0]
  <2>1. /\ ptr # Null /\ ~gc.on
        /\ state_vec' = [state_vec EXCEPT ![ptr].arcs = <<>>, ![ptr].neps = 0]
        /\ cache_size' = IF Counted(old) THEN Wrap(cache_size - Len(old.arcs) * SizeofArc)
                         ELSE cache_size
        /\ UNCHANGED <<state_list, first_gc, first_id, gc_on, cache_limit, ptr, gc>>
    BY <1>6 DEF DeleteAllArcs
  <2>2. old \in CacheState /\ ptr \in Slots /\ old # Null
    BY <1>3, <2>1
  <2>3. state_vec' = [state_vec EXCEPT ![ptr] = st]
    BY <1>1, <2>1, <2>2
  <2> HIDE DEF old
  <2>4. st \in CacheState /\ st.flags = old.flags
    <3>1. <<>> \in Seq(Arcs) /\ 0 \in Int
      OBVIOUS
    <3> QED BY <2>2, <3>1, UpdateArcs, Zenon
  <2> HIDE DEF st
  <2>5. cache_size' \in Nat
    <3>1. cache_size - Len(old.arcs) * SizeofArc \in Int
      BY <1>1, <1>4, <2>2
    <3> QED BY <1>1, <2>1, <3>1, WrapType
  <2>6. gc' \in GCType /\ ~gc'.on
    BY <1>1, <2>1
  <2> QED BY <1>1, <2>1, <2>2, <2>3, <2>4, <2>5, <2>6, UpdateOneState DEF old
<1>7. ASSUME NEW n \in 1 .. MaxArcs + MaxExcess, DeleteArcs(n) PROVE StoreInv'
  <2> DEFINE old == state_vec[ptr]
             st  == StateDeleteArcs(old, n)
  <2>1. /\ ptr # Null /\ ~gc.on
        /\ state_vec' = [state_vec EXCEPT ![ptr] = st]
        /\ cache_size' = IF Counted(old) THEN Wrap(cache_size - n * SizeofArc)
                         ELSE cache_size
        /\ UNCHANGED <<state_list, first_gc, first_id, gc_on, cache_limit, ptr, gc>>
    BY <1>7 DEF DeleteArcs
  <2>2. old \in CacheState /\ ptr \in Slots /\ old # Null
    BY <1>3, <2>1
  <2> HIDE DEF old
  <2>3. st \in CacheState /\ st.flags = old.flags
    BY <2>2, StateDeleteArcsType
  <2> HIDE DEF st
  <2>4. cache_size' \in Nat
    <3>1. cache_size - n * SizeofArc \in Int
      BY <1>1
    <3> QED BY <1>1, <2>1, <3>1, WrapType
  <2>5. gc' \in GCType /\ ~gc'.on
    BY <1>1, <2>1
  <2> QED BY <1>1, <2>1, <2>2, <2>3, <2>4, <2>5, UpdateOneState DEF old
<1>8. ASSUME NEW s \in Ids, Visit(s) \/ IncrRef(s) \/ DecrRef(s) PROVE StoreInv'
  <2> DEFINE slot == SlotOf(s)
             old  == state_vec[slot]
  <2>1. /\ ~gc.on /\ old # Null
        /\ UNCHANGED <<state_list, first_gc, first_id, gc_on, cache_size, cache_limit, ptr, gc>>
    BY <1>8 DEF Visit, IncrRef, DecrRef, Stored
  <2>2. slot \in Slots /\ old \in CacheState
    BY <1>1, <1>2, <2>1
  <2>3. \E st \in CacheState : /\ old.flags \subseteq st.flags
                              /\ state_vec' = [state_vec EXCEPT ![slot] = st]
    <3>1. CASE Visit(s)
      <4> DEFINE st == [old EXCEPT !.flags = @ \cup {"Recent"}]
      <4>1. st \in CacheState /\ old.flags \subseteq st.flags
        BY <2>2 DEF CacheState, CacheFlags
      <4>2. state_vec' = [state_vec EXCEPT ![slot] = st]
        BY <3>1 DEF Visit, SetRecent
      <4> QED BY <4>1, <4>2
    <3>2. CASE IncrRef(s)
      <4> DEFINE st == [old EXCEPT !.ref = @ + 1]
      <4>1. st \in CacheState /\ old.flags \subseteq st.flags
        <5>1. old.ref + 1 \in Int
          BY <2>2, StateFields
        <5> QED BY <2>2, <5>1, UpdateRef
      <4>2. state_vec' = [state_vec EXCEPT ![slot] = st]
        BY <3>2 DEF IncrRef
      <4> QED BY <4>1, <4>2
    <3>3. CASE DecrRef(s)
      <4> DEFINE st == [old EXCEPT !.ref = @ - 1]
      <4>1. st \in CacheState /\ old.flags \subseteq st.flags
        <5>1. old.ref - 1 \in Int
          BY <2>2, StateFields
        <5> QED BY <2>2, <5>1, UpdateRef
      <4>2. state_vec' = [state_vec EXCEPT ![slot] = st]
        BY <3>3 DEF DecrRef
      <4> QED BY <4>1, <4>2
    <3> QED BY <1>8, <3>1, <3>2, <3>3
  <2>4. PICK st \in CacheState : /\ old.flags \subseteq st.flags
                                /\ state_vec' = [state_vec EXCEPT ![slot] = st]
    BY <2>3
  <2>5. cache_size' \in Nat /\ cache_limit' \in Nat \ {0} /\ gc' \in GCType /\ ~gc'.on
    BY <1>1, <2>1
  <2> HIDE DEF slot
  <2> QED BY <2>1, <2>2, <2>4, <2>5, UpdateOneState
<1> QED BY <1>5, <1>6, <1>7, <1>8

\* A sweep step, and Delete, free at most the state at the iterator.
LEMMA SweepInv ==
  ASSUME StoreInv, Sweep
  PROVE  StoreInv'
<1> DEFINE pos  == gc.pos
           slot == state_list[pos]
           st   == state_vec[slot]
           free == /\ cache_size > gc.target
                   /\ st.ref = 0
                   /\ gc.recent \/ "Recent" \notin st.flags
                   /\ slot # ptr
<1>1. /\ state_vec \in [Slots -> CacheState \cup {Null}]
      /\ state_list \in Seq(Slots) /\ Len(state_list) \in Nat
      /\ cache_size \in Nat /\ cache_limit \in Nat \ {0} /\ gc \in GCType
      /\ gc_on \in BOOLEAN /\ ptr \in Slots /\ gc.on /\ gc_on
      /\ first_gc \in BOOLEAN
  BY DEF StoreInv, StoreTypeOK, GCType, FirstSlotExclusive, Sweep
<1>2. pos \in 1 .. Len(state_list) /\ slot \in Slots /\ st # Null /\ st \in CacheState
  BY <1>1 DEF StoreInv, ListStored, Sweep, GCType
<1>3. FirstGet(Value(slot)) =
           [slot |-> slot, vec |-> state_vec, list |-> state_list,
            first_gc |-> first_gc, first_id |-> first_id]
  BY <1>1, <1>2, SweepLookup
<1>4. /\ state_vec' = IF free THEN [state_vec EXCEPT ![slot] = Null]
                      ELSE [state_vec EXCEPT ![slot].flags = @ \ {"Recent"}]
      /\ state_list' = IF free THEN RemoveAt(state_list, pos) ELSE state_list
      /\ first_id' = IF free THEN OwnerAfterDelete(slot) ELSE first_id
      /\ first_gc' = first_gc
      /\ cache_size' = IF free THEN SizeAfterFree(st) ELSE cache_size
      /\ gc' = IF free THEN gc ELSE [gc EXCEPT !.pos = @ + 1]
      /\ UNCHANGED <<gc_on, cache_limit, ptr>>
  BY <1>3 DEF Sweep, MayFree
<1>5. cache_size' \in Nat
  BY <1>1, <1>2, <1>4, BytesType DEF SizeAfterFree
<1>6. gc' \in GCType /\ gc'.on
  BY <1>1, <1>4 DEF GCType
<1>7. ptr # Null
  BY <1>1, NullNotASlot
<1>8. CASE free
  BY <1>1, <1>2, <1>4, <1>5, <1>6, <1>7, <1>8, FreeInv
<1>9. CASE ~free
  <2> DEFINE new == [st EXCEPT !.flags = @ \ {"Recent"}]
  <2>1. new \in CacheState /\ ("Init" \in st.flags => "Init" \in new.flags)
    BY <1>2 DEF CacheState
  <2>2. state_vec' = [state_vec EXCEPT ![slot] = new]
    BY <1>4, <1>9
  <2>3. UNCHANGED <<state_list, first_gc, first_id, gc_on, ptr, cache_limit>>
    BY <1>4, <1>9
  <2> HIDE DEF new, free
  <2> QED BY <1>1, <1>2, <1>5, <1>6, <1>7, <2>1, <2>2, <2>3, UpdateOneState
<1> QED BY <1>8, <1>9

LEMMA DeleteInv ==
  ASSUME StoreInv, NEW pos \in 1 .. NumIds + 1, Delete(pos)
  PROVE  StoreInv'
<1> DEFINE slot == state_list[pos]
           st   == state_vec[slot]
<1>1. /\ state_vec \in [Slots -> CacheState \cup {Null}]
      /\ state_list \in Seq(Slots)
      /\ cache_size \in Nat /\ cache_limit \in Nat \ {0} /\ gc \in GCType
      /\ ptr \in Slots \cup {Null}
  BY DEF StoreInv, StoreTypeOK, GCType
<1>2. pos \in 1 .. Len(state_list) /\ slot \in Slots /\ st # Null /\ st \in CacheState
  BY <1>1 DEF StoreInv, ListStored, Delete
<1>3. /\ state_vec' = [state_vec EXCEPT ![slot] = Null]
      /\ state_list' = RemoveAt(state_list, pos)
      /\ first_id' = OwnerAfterDelete(slot)
      /\ ptr' = IF ptr = slot THEN Null ELSE ptr
      /\ cache_size' = IF Counted(st) THEN Wrap(cache_size - Bytes(st)) ELSE cache_size
      /\ UNCHANGED <<first_gc, gc_on, cache_limit, gc>> /\ ~gc.on
  BY DEF Delete
<1>4. cache_size' \in Nat
  <2>1. cache_size - Bytes(st) \in Int
    BY <1>1, <1>2, BytesType
  <2> QED BY <1>1, <1>3, <2>1, WrapType
<1>5. /\ ptr' \in Slots \cup {Null} /\ (ptr' # Null => ptr' = ptr) /\ ptr' # slot
      /\ cache_limit' \in Nat \ {0} /\ gc' \in GCType /\ ~gc'.on
  BY <1>1, <1>2, <1>3, NullNotASlot
<1> QED BY <1>2, <1>3, <1>4, <1>5, FreeInv

LEMMA ClearInv ==
  ASSUME StoreInv, Clear
  PROVE  StoreInv'
<1>1. /\ state_vec' = [slot \in Slots |-> Null] /\ state_list' = <<>>
      /\ first_id' = NoStateId /\ cache_size' = 0 /\ ptr' = Null
      /\ UNCHANGED <<first_gc, gc_on, cache_limit, gc>> /\ ~gc.on
  BY DEF Clear
<1>2. StoreTypeOK'
  BY <1>1 DEF StoreInv, StoreTypeOK
<1>3. 0 \in Slots
  BY CacheConstants DEF Slots
<1>4. PtrIsStored' /\ NoAlias' /\ ListStored'
  BY <1>1, <1>3 DEF PtrIsStored, NoAlias, ListStored, Covers
<1>5. FirstSlotExclusive'
  BY <1>1, <1>3 DEF StoreInv, FirstSlotExclusive
<1> QED BY <1>2, <1>4, <1>5 DEF StoreInv

LEMMA CopyStatesInv ==
  ASSUME StoreInv, CopyStates
  PROVE  StoreInv'
<1> DEFINE S == {t \in Slots : state_vec[t] # Null}
<1>1. /\ state_vec \in [Slots -> CacheState \cup {Null}]
      /\ first_gc \in BOOLEAN /\ gc_on \in BOOLEAN /\ ~gc.on
      /\ first_id \in Ids \cup {NoStateId} /\ 0 \in Slots
      /\ \A i \in Ids : i + 1 \in Slots
  <2>1. 0 \in Slots /\ \A i \in Ids : i + 1 \in Slots
    BY CacheConstants DEF Slots, Ids
  <2> QED BY <2>1 DEF StoreInv, StoreTypeOK, CopyStates
<1>2. /\ state_vec' = [slot \in Slots |-> IF state_vec[slot] = Null THEN Null
                                      ELSE [state_vec[slot] EXCEPT !.ref = 0]]
      /\ ptr' = Null
      /\ UNCHANGED <<first_gc, first_id, gc_on, cache_size, cache_limit, gc>>
      /\ \E list \in Ascending(S) : state_list' = IF Gc THEN list ELSE <<>>
  BY DEF CopyStates
<1>3. ASSUME NEW t \in Slots
      PROVE  /\ state_vec'[t] \in CacheState \cup {Null}
             /\ (state_vec'[t] = Null) = (state_vec[t] = Null)
             /\ state_vec[t] # Null => state_vec'[t].flags = state_vec[t].flags
  <2>1. CASE state_vec[t] = Null
    BY <1>2, <2>1
  <2>2. CASE state_vec[t] # Null
    <3>1. state_vec[t] \in CacheState
      BY <1>1, <2>2
    <3>2. state_vec'[t] = [state_vec[t] EXCEPT !.ref = 0]
      BY <1>2, <2>2
    <3> QED BY <2>2, <3>1, <3>2, UpdateRef, NullAssumption
  <2> QED BY <2>1, <2>2
<1>4. state_vec' \in [Slots -> CacheState \cup {Null}]
  BY <1>2, <1>3
<1>5. state_list' \in Seq(Slots) /\ ListStored'
  <2>1. CASE state_list' = <<>> /\ ~Gc
    BY <2>1 DEF ListStored, Covers
  <2>2. ASSUME NEW q \in Ascending(S), state_list' = q
        PROVE  state_list' \in Seq(Slots) /\ ListStored'
    <3>0. IsFiniteSet(S)
      <4>1. IsFiniteSet(Slots)
        BY CacheConstants, FS_Interval DEF Slots
      <4> QED BY <4>1, FS_Subset
    <3>1. /\ q \in [1 .. Cardinality(S) -> S]
          /\ \A i, j \in 1 .. Cardinality(S) : i < j => q[i] < q[j]
          /\ \A t \in S : \E i \in 1 .. Cardinality(S) : q[i] = t
      BY <2>2 DEF Ascending, Range
    <3>2. Cardinality(S) \in Nat
      BY <3>0, FS_CardinalityType
    <3>3. q \in Seq(S) /\ Len(q) = Cardinality(S)
      <4> DEFINE n == Cardinality(S)
      <4>1. n \in Nat /\ q \in [1 .. n -> S]
        BY <3>1, <3>2
      <4> HIDE DEF n, S
      <4>2. q \in Seq(S)
        BY <4>1, SeqDef
      <4>3. DOMAIN q = 1 .. n /\ DOMAIN q = 1 .. Len(q) /\ Len(q) \in Nat
        BY <4>1, <4>2, LenProperties
      <4> QED BY <4>1, <4>2, <4>3 DEF n
    <3>4. \A i \in 1 .. Len(q) : q[i] \in Slots /\ state_vec[q[i]] # Null
      BY <3>1, <3>3
    <3>5. \A i, j \in 1 .. Len(q) : q[i] = q[j] => i = j
      <4>1. \A i \in 1 .. Len(q) : q[i] \in Int
        BY <3>4, CacheConstants DEF Slots
      <4>2. \A i, j \in 1 .. Len(q) : i < j => q[i] < q[j]
        BY <3>1, <3>3
      <4>3. Len(q) \in Nat
        BY <3>2, <3>3
      <4> HIDE DEF S
      <4> QED BY <4>1, <4>2, <4>3
    <3>6. \A i \in 1 .. Len(q) : state_vec'[q[i]] # Null
      BY <1>3, <3>4
    <3>7. q \in Seq(Slots)
      BY <3>3, <3>4
    <3>8. Covers(q, state_vec')
      BY <1>3, <3>1, <3>3 DEF Covers
    <3> QED BY <2>2, <3>5, <3>6, <3>7, <3>8 DEF ListStored
  <2> QED BY <1>2, <2>1, <2>2
<1>6. StoreTypeOK'
  BY <1>1, <1>2, <1>4, <1>5 DEF StoreInv, StoreTypeOK
<1>7. PtrIsStored'
  BY <1>2 DEF PtrIsStored
<1>8. FirstSlotExclusive'
  BY <1>1, <1>2, <1>3 DEF StoreInv, FirstSlotExclusive
<1>9. NoAlias'
  BY <1>1, <1>2, <1>3 DEF StoreInv, NoAlias
<1> QED BY <1>5, <1>6, <1>7, <1>8, <1>9 DEF StoreInv

\* The steps of a collection that free nothing only move its cursor.
LEMMA CursorInv ==
  ASSUME StoreInv, SweepRecent \/ Widen \/ EndGC
  PROVE  StoreInv'
<1>1. /\ UNCHANGED <<state_vec, state_list, first_gc, first_id, gc_on, cache_size, ptr>>
      /\ gc \in GCType /\ cache_limit \in Nat \ {0} /\ gc.on
  BY DEF StoreInv, StoreTypeOK, GCType, SweepRecent, Widen, EndGC
<1>2. cache_limit' \in Nat \ {0}
  BY <1>1 DEF SweepRecent, Widen, EndGC
<1>3. gc' \in GCType
  <2>1. CASE SweepRecent
    <3>1. gc' = [gc EXCEPT !.recent = TRUE, !.pos = 1]
      BY <2>1 DEF SweepRecent
    <3>2. gc.on \in BOOLEAN /\ gc.target \in Nat
      BY <1>1 DEF GCType
    <3>3. gc' = [on |-> gc.on, pos |-> 1, recent |-> TRUE, target |-> gc.target]
      BY <1>1, <3>1 DEF GCType
    <3> QED BY <3>2, <3>3 DEF GCType
  <2>2. CASE Widen
    BY <1>1, <2>2 DEF Widen, GCType
  <2>3. CASE EndGC
    <3>1. gc' = [on |-> FALSE, pos |-> 1, recent |-> FALSE, target |-> 0]
      BY <2>3 DEF EndGC, NoGC
    <3> QED BY <3>1 DEF GCType
  <2> QED BY <2>1, <2>2, <2>3
<1>4. StoreTypeOK'
  BY <1>1, <1>2, <1>3 DEF StoreInv, StoreTypeOK, GCType
<1>5. PtrIsStored' /\ NoAlias' /\ ListStored'
  BY <1>1 DEF StoreInv, PtrIsStored, NoAlias, ListStored
<1>6. FirstSlotExclusive'
  BY <1>1 DEF StoreInv, FirstSlotExclusive
<1> QED BY <1>4, <1>5, <1>6 DEF StoreInv

-------------------------------------------------------------------------------
LEMMA StoreInitInv ==
  ASSUME StoreInit
  PROVE  StoreInv
<1> USE CacheConstants
<1>1. 0 \in Slots
  BY DEF Slots
<1>2. StoreTypeOK
  <2>1. gc \in [on : BOOLEAN, pos : Nat \ {0}, recent : BOOLEAN, target : Nat]
    BY DEF StoreInit, NoGC
  <2>2. cache_limit \in Nat \ {0}
    BY DEF StoreInit
  <2>3. state_vec \in [Slots -> CacheState \cup {Null}] /\ state_list \in Seq(Slots)
    BY DEF StoreInit
  <2> QED BY <2>1, <2>2, <2>3 DEF StoreInit, StoreTypeOK
<1>3. PtrIsStored /\ NoAlias /\ ListStored
  BY <1>1 DEF StoreInit, PtrIsStored, NoAlias, ListStored, Covers
<1>4. FirstSlotExclusive
  BY <1>1 DEF StoreInit, FirstSlotExclusive, NoGC
<1> QED BY <1>2, <1>3, <1>4 DEF StoreInv

LEMMA StoreNextInv ==
  ASSUME StoreInv, [StoreNext]_storeVars
  PROVE  StoreInv'
<1>1. ASSUME UNCHANGED storeVars PROVE StoreInv'
  BY <1>1 DEF storeVars, StoreInv, StoreTypeOK, PtrIsStored, FirstSlotExclusive,
              NoAlias, ListStored
<1>2. ASSUME StoreNext PROVE StoreInv'
  BY <1>2, GetMutableStateInv, StateOpsInv, DeleteInv, ClearInv, CopyStatesInv,
     SweepInv, CursorInv
  DEF StoreNext, GCStep
<1> QED BY <1>1, <1>2

(***************************************************************************)
(* The inductive invariant of the cache store: it is well formed, the      *)
(* state handed out last is alive, slot 0 is handed from state to state    *)
(* only while the collector is off, no state is cached twice, and the      *)
(* collector's list never names a freed state.                             *)
(***************************************************************************)
THEOREM StoreInvariant == StoreSpec => []StoreInv
<1>1. StoreInit => StoreInv
  BY StoreInitInv
<1>2. StoreInv /\ [StoreNext]_storeVars => StoreInv'
  BY StoreNextInv
<1> QED BY <1>1, <1>2, PTL DEF StoreSpec

\* The state of the store is always well typed (VectorCacheStore, FirstCacheStore
\* and GCCacheStore), for every number of states and every option.
THEOREM StoreTypeCorrect == StoreSpec => []StoreTypeOK
<1>1. StoreInv => StoreTypeOK
  BY DEF StoreInv
<1> QED BY <1>1, StoreInvariant, PTL

(***************************************************************************)
(* The two collection schemes of FirstCacheStore and GCCacheStore exclude  *)
(* each other, no state is cached in two slots, and the pointer handed out *)
(* last never dangles, whatever the options and the sequence of calls.     *)
(***************************************************************************)
THEOREM CollectionSafety == StoreSpec => [](FirstSlotExclusive /\ PtrIsStored)
<1>1. StoreInv => FirstSlotExclusive /\ PtrIsStored
  BY DEF StoreInv
<1> QED BY <1>1, StoreInvariant, PTL

\* No state is cached in two slots at once (FirstCacheStore::GetMutableState and
\* Delete agree on who owns slot 0).
THEOREM SlotsNotAliased == StoreSpec => []NoAlias
<1>1. StoreInv => NoAlias
  BY DEF StoreInv
<1> QED BY <1>1, StoreInvariant, PTL

(***************************************************************************)
(* The list that the sweep walks and Delete erases from names each cached  *)
(* state exactly once: nothing cached escapes the collector, and no entry  *)
(* dangles.                                                                *)
(***************************************************************************)
THEOREM ListExact == StoreSpec => []ListMatchesVector
<1>1. StoreInv => ListMatchesVector
  <2> SUFFICES ASSUME StoreInv, Gc PROVE ListMatchesVector
    BY DEF ListMatchesVector
  <2>1. state_list \in Seq(Slots) /\ DOMAIN state_list = 1 .. Len(state_list)
    BY DEF StoreInv, StoreTypeOK
  <2>2. IsInjective(state_list)
    BY <2>1 DEF StoreInv, ListStored, IsInjective
  <2>3. \A slot \in Slots : (state_vec[slot] # Null) = (slot \in Range(state_list))
    BY <2>1 DEF StoreInv, ListStored, Covers, Range
  <2> QED BY <2>2, <2>3 DEF ListMatchesVector
<1> QED BY <1>1, StoreInvariant, PTL

-------------------------------------------------------------------------------
(***************************************************************************)
(* Reference counts.  Pinned(s) states that somebody refers to s, and      *)
(* Kept(s) that the step neither frees nor moves it.                       *)
(***************************************************************************)
Pinned(s) == Stored(s) /\ state_vec[SlotOf(s)].ref > 0

Kept(s) == Stored(s)' /\ SlotOf(s)' = SlotOf(s)

\* A step that changes cached states in place keeps all of them.
LEMMA InPlaceKept ==
  ASSUME StoreInv, NEW s \in Ids, Stored(s), first_id' = first_id,
         \A t \in Slots : state_vec[t] # Null => state_vec'[t] # Null
  PROVE  Kept(s)
<1>1. SlotOf(s) \in Slots
  BY CacheConstants DEF Slots, Ids, SlotOf
<1> QED BY <1>1 DEF Kept, Stored, SlotOf

\* Freeing the unreferenced state at an iterator keeps the referenced ones.
LEMMA FreeKept ==
  ASSUME StoreInv, NEW s \in Ids, Pinned(s), NEW pos \in 1 .. Len(state_list),
         state_vec[state_list[pos]].ref = 0,
         state_vec' = [state_vec EXCEPT ![state_list[pos]] = Null],
         first_id' = OwnerAfterDelete(state_list[pos])
  PROVE  Kept(s)
<1> DEFINE slot == state_list[pos]
<1> USE CacheConstants DEF Slots, Ids, NoStateId
<1>1. /\ slot \in Slots /\ state_vec[slot] # Null
      /\ state_vec \in [Slots -> CacheState \cup {Null}]
      /\ first_id \in Ids \cup {NoStateId}
  <2>1. /\ state_vec \in [Slots -> CacheState \cup {Null}]
        /\ first_id \in Ids \cup {NoStateId} /\ state_list \in Seq(Slots)
    BY DEF StoreInv, StoreTypeOK
  <2>2. state_vec[state_list[pos]] # Null
    BY DEF StoreInv, ListStored
  <2> QED BY <2>1, <2>2
<1>2. SlotOf(s) \in Slots /\ SlotOf(s) # slot /\ state_vec[SlotOf(s)] # Null
  BY DEF SlotOf, Pinned, Stored
<1> HIDE DEF slot
<1>3. first_id' = IF slot = 0 THEN NoStateId ELSE first_id
  BY <1>1 DEF OwnerAfterDelete, Value, StoreInv, NoAlias, slot
<1>4. SlotOf(s)' = SlotOf(s)
  BY <1>2, <1>3 DEF SlotOf
<1>5. state_vec'[SlotOf(s)] = state_vec[SlotOf(s)]
  BY <1>1, <1>2 DEF slot
<1> QED BY <1>2, <1>4, <1>5 DEF Kept, Stored

LEMMA PinnedKept ==
  ASSUME StoreInv, NEW s \in Ids, Pinned(s), [StoreNext]_storeVars, ~CopyStates
  PROVE  Kept(s)
<1> USE CacheConstants DEF Slots, Ids, NoStateId
<1>1. /\ state_vec \in [Slots -> CacheState \cup {Null}]
      /\ first_id \in Ids \cup {NoStateId} /\ ptr \in Slots \cup {Null}
      /\ state_list \in Seq(Slots) /\ gc \in GCType /\ first_gc \in BOOLEAN
  BY DEF StoreInv, StoreTypeOK, GCType
<1>2. /\ Stored(s) /\ SlotOf(s) \in Slots /\ state_vec[SlotOf(s)] # Null
      /\ state_vec[SlotOf(s)] \in CacheState /\ state_vec[SlotOf(s)].ref # 0
  BY <1>1 DEF Pinned, Stored, SlotOf
<1>3. ASSUME NEW r \in Ids, GetMutableState(r) PROVE Kept(s)
  <2> DEFINE f == FirstGet(r)
  <2>1. FirstGetOK(f)
    BY FirstGetLemma
  <2>2. /\ first_id' = f.first_id
        /\ \/ state_vec' = f.vec
           \/ state_vec' = [f.vec EXCEPT ![f.slot].flags = @ \cup {"Init"}]
    BY <1>3 DEF GetMutableState
  <2> HIDE DEF f
  <2>3. \A t \in Slots : state_vec[t] # Null => state_vec'[t] # Null
    <3>1. f.vec[f.slot] \in CacheState /\ f.slot \in Slots
      BY <2>1, NullAssumption DEF FirstGetOK
    <3>2. [f.vec[f.slot] EXCEPT !.flags = @ \cup {"Init"}] \in CacheState
      BY <3>1 DEF CacheState, CacheFlags
    <3> QED BY <2>1, <2>2, <3>1, <3>2, NullAssumption DEF FirstGetOK
  <2>4. first_id' = first_id
    <3>1. CASE first_gc
      <4>1. SlotOf(s) = 0
        BY <1>2, <3>1 DEF StoreInv, FirstSlotExclusive
      <4> QED BY <1>2, <2>1, <2>2, <4>1 DEF FirstGetOK
    <3>2. CASE ~first_gc
      BY <2>1, <2>2, <3>2 DEF FirstGetOK
    <3> QED BY <3>1, <3>2
  <2> QED BY <1>2, <2>3, <2>4, InPlaceKept
<1>4. ASSUME \/ \E arc \in Arcs : AddArc(arc)
             \/ DeleteAllArcs
             \/ \E n \in 1 .. MaxArcs + MaxExcess : DeleteArcs(n)
      PROVE  Kept(s)
  <2>1. first_id' = first_id /\ ptr # Null
    BY <1>4 DEF AddArc, DeleteAllArcs, DeleteArcs
  <2>2. ptr \in Slots /\ state_vec[ptr] \in CacheState
    BY <1>1, <2>1 DEF StoreInv, PtrIsStored
  <2>3. \E st \in CacheState : state_vec' = [state_vec EXCEPT ![ptr] = st]
    <3>1. ASSUME NEW arc \in Arcs, AddArc(arc)
          PROVE  \E st \in CacheState : state_vec' = [state_vec EXCEPT ![ptr] = st]
      BY <2>2, <3>1, StateAddArcType DEF AddArc
    <3>2. ASSUME NEW n \in 1 .. MaxArcs + MaxExcess, DeleteArcs(n)
          PROVE  \E st \in CacheState : state_vec' = [state_vec EXCEPT ![ptr] = st]
      <4>1. n \in Nat /\ n > 0
        OBVIOUS
      <4>2. StateDeleteArcs(state_vec[ptr], n) \in CacheState
        BY <2>2, <4>1, StateDeleteArcsType
      <4>3. state_vec' = [state_vec EXCEPT ![ptr] = StateDeleteArcs(state_vec[ptr], n)]
        BY <3>2 DEF DeleteArcs
      <4> QED BY <4>2, <4>3
    <3>3. ASSUME DeleteAllArcs
          PROVE  \E st \in CacheState : state_vec' = [state_vec EXCEPT ![ptr] = st]
      <4> DEFINE st == [state_vec[ptr] EXCEPT !.arcs = <<>>, !.neps = 0]
      <4>1. <<>> \in Seq(Arcs) /\ 0 \in Int
        OBVIOUS
      <4>2. st \in CacheState
        BY <2>2, <4>1, UpdateArcs, Zenon
      <4>3. state_vec' = [state_vec EXCEPT ![ptr] = st]
        BY <1>1, <2>2, <3>3 DEF DeleteAllArcs
      <4> QED BY <4>2, <4>3
    <3> QED BY <1>4, <3>1, <3>2, <3>3
  <2>4. \A t \in Slots : state_vec[t] # Null => state_vec'[t] # Null
    BY <1>1, <2>2, <2>3, NullAssumption
  <2> QED BY <1>2, <2>1, <2>4, InPlaceKept
<1>5. ASSUME NEW r \in Ids, Visit(r) \/ IncrRef(r) \/ DecrRef(r) PROVE Kept(s)
  <2> DEFINE slot == SlotOf(r)
             old  == state_vec[slot]
  <2>1. slot \in Slots /\ old \in CacheState /\ first_id' = first_id
    <3>1. slot \in Slots
      BY <1>1 DEF SlotOf
    <3>2. old # Null /\ first_id' = first_id
      BY <1>5 DEF Stored, Visit, IncrRef, DecrRef
    <3> HIDE DEF slot
    <3> QED BY <1>1, <3>1, <3>2
  <2>2. \/ state_vec' = [state_vec EXCEPT ![slot].flags = @ \cup {"Recent"}]
        \/ state_vec' = [state_vec EXCEPT ![slot].ref = @ + 1]
        \/ state_vec' = [state_vec EXCEPT ![slot].ref = @ - 1]
    BY <1>5 DEF Visit, IncrRef, DecrRef, SetRecent
  <2> HIDE DEF slot
  <2>3. /\ [old EXCEPT !.flags = @ \cup {"Recent"}] \in CacheState
        /\ [old EXCEPT !.ref = @ + 1] \in CacheState
        /\ [old EXCEPT !.ref = @ - 1] \in CacheState
    <3>1. old.ref + 1 \in Int /\ old.ref - 1 \in Int
      BY <2>1, StateFields
    <3>2. [old EXCEPT !.flags = @ \cup {"Recent"}] \in CacheState
      BY <2>1 DEF CacheState, CacheFlags
    <3> QED BY <2>1, <3>1, <3>2, UpdateRef
  <2>4. \A t \in Slots : state_vec[t] # Null => state_vec'[t] # Null
    BY <1>1, <2>1, <2>2, <2>3, NullAssumption
  <2> QED BY <1>2, <2>1, <2>4, InPlaceKept
<1>6. ASSUME NEW pos \in 1 .. NumIds + 1, Delete(pos) PROVE Kept(s)
  <2>1. pos \in 1 .. Len(state_list)
    BY <1>1, <1>6 DEF Delete
  <2> QED BY <1>6, <2>1, FreeKept DEF Delete
<1>7. ASSUME Clear PROVE Kept(s)
  BY <1>2, <1>7 DEF Clear
<1>8. ASSUME Sweep PROVE Kept(s)
  <2> DEFINE pos  == gc.pos
             slot == state_list[pos]
             st   == state_vec[slot]
             free == /\ cache_size > gc.target
                     /\ st.ref = 0
                     /\ gc.recent \/ "Recent" \notin st.flags
                     /\ slot # ptr
  <2>1. pos \in 1 .. Len(state_list) /\ slot \in Slots /\ st # Null /\ st \in CacheState
    <3>1. pos \in Nat \ {0} /\ pos <= Len(state_list)
      BY <1>1, <1>8 DEF Sweep, GCType
    <3>2. pos \in 1 .. Len(state_list)
      BY <1>1, <3>1
    <3>3. state_vec[state_list[pos]] # Null
      BY <3>2 DEF StoreInv, ListStored
    <3>4. slot \in Slots
      BY <1>1, <3>2
    <3> HIDE DEF pos
    <3> QED BY <1>1, <3>2, <3>3, <3>4
  <2>2. FirstGet(Value(slot)) =
             [slot |-> slot, vec |-> state_vec, list |-> state_list,
              first_gc |-> first_gc, first_id |-> first_id]
    BY <1>8, <2>1, SweepLookup DEF Sweep
  <2>3. /\ state_vec' = IF free THEN [state_vec EXCEPT ![slot] = Null]
                        ELSE [state_vec EXCEPT ![slot].flags = @ \ {"Recent"}]
        /\ first_id' = IF free THEN OwnerAfterDelete(slot) ELSE first_id
    BY <1>8, <2>2 DEF Sweep, MayFree
  <2>4. CASE free
    BY <2>1, <2>3, <2>4, FreeKept
  <2>5. CASE ~free
    <3> DEFINE new == [st EXCEPT !.flags = @ \ {"Recent"}]
    <3>1. new \in CacheState
      BY <2>1 DEF CacheState
    <3>2. state_vec' = [state_vec EXCEPT ![slot] = new] /\ first_id' = first_id
      BY <2>3, <2>5
    <3> HIDE DEF new, slot
    <3>3. \A t \in Slots : state_vec[t] # Null => state_vec'[t] # Null
      BY <1>1, <2>1, <3>1, <3>2, NullAssumption
    <3> QED BY <1>2, <3>2, <3>3, InPlaceKept
  <2> QED BY <2>4, <2>5
<1>9. ASSUME SweepRecent \/ Widen \/ EndGC \/ UNCHANGED storeVars PROVE Kept(s)
  BY <1>2, <1>9 DEF SweepRecent, Widen, EndGC, storeVars, Kept, Stored, SlotOf
<1> QED
  BY <1>3, <1>4, <1>5, <1>6, <1>7, <1>8, <1>9 DEF StoreNext, GCStep

(***************************************************************************)
(* A positive reference count protects a cached state: no call and no      *)
(* sweep frees it, gives slot 0 to another state or moves it.              *)
(***************************************************************************)
THEOREM ReferencesProtect == StoreSpec => PinnedSurvives
<1>1. StoreInv /\ [StoreNext]_storeVars
      => [ \A s \in Ids :
             /\ Stored(s) /\ state_vec[SlotOf(s)].ref > 0
             /\ ~CopyStates
             => Stored(s)' /\ SlotOf(s)' = SlotOf(s) ]_storeVars
  BY PinnedKept DEF Pinned, Kept
<1> QED BY <1>1, StoreInvariant, PTL DEF StoreSpec, PinnedSurvives

-----------------------------------------------------------------------------
(***************************************************************************)
(* The byte count of GCCacheStore is exact and the cache stays within its  *)
(* limit, for every number of states, every option and every size.  Two    *)
(* hypotheses make it so: a size_t can count the bytes of all states (they *)
(* are in memory), and a caller of DeleteArcs(n) deletes no more arcs than *)
(* there are, which GCCacheStore does not verify.                          *)
(***************************************************************************)

\* The bytes of the largest state, and that a size_t holds all of them.
MaxBytes == SizeofState + MaxArcs * SizeofArc

SizeFits == (NumIds + 1) * MaxBytes < SizeMod

\* A vector none of whose states occupies more than B bytes.
Bounded(vec, B) == \A t \in Slots : CountedBytes(vec[t]) \in 0 .. B

LEMMA SlotsFinite == IsFiniteSet(Slots) /\ Cardinality(Slots) = NumIds + 1
BY FS_Interval, CacheConstants DEF Slots

\* The bytes of one state.
LEMMA RowSize ==
  ASSUME NEW slot, NEW n \in Nat
  PROVE  /\ IsFiniteSet({slot} \X (1 .. n))
         /\ Cardinality({slot} \X (1 .. n)) = n
<1>1. IsFiniteSet({slot}) /\ Cardinality({slot}) = 1
  BY FS_Singleton
<1>2. IsFiniteSet(1 .. n) /\ Cardinality(1 .. n) = n
  BY FS_Interval
<1>3. /\ IsFiniteSet({slot} \X (1 .. n))
      /\ Cardinality({slot} \X (1 .. n)) = Cardinality({slot}) * Cardinality(1 .. n)
  BY <1>1, <1>2, FS_Product
<1> QED BY <1>1, <1>2, <1>3

\* Membership in Occupied.
LEMMA OccupiedMember ==
  ASSUME NEW vec, NEW x
  PROVE  x \in Occupied(vec) <=>
           \E slot \in Slots : x \in {slot} \X (1 .. CountedBytes(vec[slot]))
BY DEF Occupied

\* All states together: finitely many bytes, and how many at most.
LEMMA OccupiedBound ==
  ASSUME NEW vec, NEW B \in Nat, Bounded(vec, B)
  PROVE  /\ IsFiniteSet(Occupied(vec))
         /\ Cardinality(Occupied(vec)) \in Nat
         /\ Cardinality(Occupied(vec)) <= (NumIds + 1) * B
<1> DEFINE All == Slots \X (1 .. B)
<1>1. IsFiniteSet(1 .. B) /\ Cardinality(1 .. B) = B
  BY FS_Interval
<1>2. IsFiniteSet(All) /\ Cardinality(All) = (NumIds + 1) * B
  BY <1>1, SlotsFinite, FS_Product
<1>3. Occupied(vec) \subseteq All
  <2>1. ASSUME NEW slot \in Slots, NEW x \in {slot} \X (1 .. CountedBytes(vec[slot]))
        PROVE  x \in All
    <3>1. CountedBytes(vec[slot]) \in 0 .. B
      BY DEF Bounded
    <3> QED BY <3>1
  <2> HIDE DEF All
  <2> QED BY <2>1, OccupiedMember
<1> HIDE DEF All
<1>4. IsFiniteSet(Occupied(vec)) /\ Cardinality(Occupied(vec)) <= Cardinality(All)
  BY <1>2, <1>3, FS_Subset
<1>5. Cardinality(Occupied(vec)) \in Nat
  BY <1>4, FS_CardinalityType
<1> QED BY <1>2, <1>4, <1>5

\* Only the sizes of the states matter.
LEMMA OccupiedSame ==
  ASSUME NEW v, NEW w, \A t \in Slots : CountedBytes(w[t]) = CountedBytes(v[t])
  PROVE  Occupied(w) = Occupied(v)
BY DEF Occupied

\* What a change of one state does to the number of occupied bytes.
LEMMA OccupiedUpdate ==
  ASSUME NEW v, NEW w, NEW B \in Nat, Bounded(v, B), Bounded(w, B), NEW slot \in Slots,
         \A t \in Slots \ {slot} : CountedBytes(w[t]) = CountedBytes(v[t])
  PROVE  Cardinality(Occupied(w)) =
           Cardinality(Occupied(v)) - CountedBytes(v[slot]) + CountedBytes(w[slot])
<1> DEFINE Row(u) == {slot} \X (1 .. CountedBytes(u[slot]))
           Rest   == {x \in Occupied(v) : x[1] # slot}
<1>1. /\ IsFiniteSet(Row(v)) /\ Cardinality(Row(v)) = CountedBytes(v[slot])
      /\ IsFiniteSet(Row(w)) /\ Cardinality(Row(w)) = CountedBytes(w[slot])
      /\ CountedBytes(v[slot]) \in Nat /\ CountedBytes(w[slot]) \in Nat
  <2>1. CountedBytes(v[slot]) \in Nat /\ CountedBytes(w[slot]) \in Nat
    BY DEF Bounded
  <2> QED BY <2>1, RowSize
<1>2. IsFiniteSet(Occupied(v)) /\ IsFiniteSet(Rest)
  <2>1. IsFiniteSet(Occupied(v))
    BY OccupiedBound
  <2>2. Rest \in SUBSET Occupied(v)
    OBVIOUS
  <2> HIDE DEF Rest
  <2> QED BY <2>1, <2>2, FS_Subset
<1>3. Occupied(v) = Rest \cup Row(v)
  <2>1. ASSUME NEW x PROVE x \in Occupied(v) <=> x \in Rest \/ x \in Row(v)
    <3>1. ASSUME x \in Occupied(v), x \notin Rest PROVE x \in Row(v)
      <4>1. PICK t \in Slots : x \in {t} \X (1 .. CountedBytes(v[t]))
        BY <3>1, OccupiedMember
      <4>2. x[1] = t /\ x[1] = slot
        BY <3>1, <4>1
      <4> QED BY <4>1, <4>2
    <3>2. x \in Row(v) => x \in Occupied(v)
      BY OccupiedMember
    <3> QED BY <3>1, <3>2
  <2> HIDE DEF Rest, Row
  <2> QED BY <2>1
<1>4. Occupied(w) = Rest \cup Row(w)
  <2>1. ASSUME NEW x PROVE x \in Occupied(w) <=> x \in Rest \/ x \in Row(w)
    <3>1. ASSUME x \in Occupied(w) PROVE x \in Rest \/ x \in Row(w)
      <4>1. PICK t \in Slots : x \in {t} \X (1 .. CountedBytes(w[t]))
        BY <3>1, OccupiedMember
      <4>2. CASE t = slot
        BY <4>1, <4>2
      <4>3. CASE t # slot
        <5>1. x \in {t} \X (1 .. CountedBytes(v[t])) /\ x[1] = t
          BY <4>1, <4>3
        <5> QED BY <4>3, <5>1, OccupiedMember
      <4> QED BY <4>2, <4>3
    <3>2. ASSUME x \in Rest PROVE x \in Occupied(w)
      <4>1. PICK t \in Slots : x \in {t} \X (1 .. CountedBytes(v[t]))
        BY <3>2, OccupiedMember
      <4>2. t # slot
        BY <3>2, <4>1
      <4>3. x \in {t} \X (1 .. CountedBytes(w[t]))
        BY <4>1, <4>2
      <4> QED BY <4>3, OccupiedMember
    <3>3. x \in Row(w) => x \in Occupied(w)
      BY OccupiedMember
    <3> QED BY <3>1, <3>2, <3>3
  <2> HIDE DEF Rest, Row
  <2> QED BY <2>1
<1>5. Rest \cap Row(v) = {} /\ Rest \cap Row(w) = {}
  OBVIOUS
<1> HIDE DEF Rest, Row
<1>6. /\ Cardinality(Occupied(v)) = Cardinality(Rest) + CountedBytes(v[slot])
      /\ Cardinality(Occupied(w)) = Cardinality(Rest) + CountedBytes(w[slot])
  <2>1. Cardinality(Rest) \in Nat
    BY <1>2, FS_CardinalityType
  <2>2. Cardinality(Rest \cup Row(v)) =
          Cardinality(Rest) + Cardinality(Row(v)) - Cardinality(Rest \cap Row(v))
    BY <1>1, <1>2, FS_Union
  <2>3. Cardinality(Rest \cup Row(w)) =
          Cardinality(Rest) + Cardinality(Row(w)) - Cardinality(Rest \cap Row(w))
    BY <1>1, <1>2, FS_Union
  <2>4. Cardinality(Rest \cap Row(v)) = 0 /\ Cardinality(Rest \cap Row(w)) = 0
    BY <1>5, FS_EmptySet
  <2> QED BY <1>1, <1>3, <1>4, <2>1, <2>2, <2>3, <2>4
<1>7. Cardinality(Rest) \in Nat
  BY <1>2, FS_CardinalityType
<1> QED BY <1>1, <1>6, <1>7

-------------------------------------------------------------------------------
\* No state has more arcs than a client adds.
ArcsFit(vec) == \A t \in Slots : vec[t] # Null => Len(vec[t].arcs) <= MaxArcs

\* Once slot 0 is no longer handed around, an initialised state means that the
\* collector is on, so that every change of that state is counted.
InitCounted(vec) ==
  \A t \in Slots : vec[t] # Null /\ "Init" \in vec[t].flags => gc_on

\* A collection keeps the state it was started for, which is counted, and aims
\* below the limit.
AimsBelowLimit ==
  gc.on => /\ "Init" \in state_vec[ptr].flags
           /\ gc.target > 0 /\ gc.target <= cache_limit

SizeInv ==
  /\ ArcsFit(state_vec)
  /\ ~first_gc => InitCounted(state_vec)
  /\ BookKeeping
  /\ WithinLimit
  /\ AimsBelowLimit
  /\ cache_limit >= 2

LEMMA CountedBytesType ==
  ASSUME NEW st \in CacheState \cup {Null}, st # Null => Len(st.arcs) <= MaxArcs
  PROVE  CountedBytes(st) \in 0 .. MaxBytes /\ MaxBytes \in Nat
<1>1. MaxBytes \in Nat
  BY CacheConstants DEF MaxBytes
<1>2. ASSUME st # Null PROVE Bytes(st) \in 0 .. MaxBytes
  <2> DEFINE n == Len(st.arcs)
  <2>1. n \in Nat /\ n <= MaxArcs
    BY <1>2 DEF CacheState
  <2> HIDE DEF n
  <2>2. n * SizeofArc <= MaxArcs * SizeofArc /\ n * SizeofArc \in Nat
    BY <2>1, CacheConstants
  <2> QED BY <2>2, CacheConstants DEF Bytes, MaxBytes, n
<1> QED BY <1>1, <1>2 DEF CountedBytes

LEMMA FitsBounded ==
  ASSUME NEW vec \in [Slots -> CacheState \cup {Null}], ArcsFit(vec)
  PROVE  Bounded(vec, MaxBytes) /\ MaxBytes \in Nat
<1>1. 0 \in Slots
  BY CacheConstants DEF Slots
<1> QED BY <1>1, CountedBytesType DEF ArcsFit, Bounded

\* The bytes of all states do not wrap around.
LEMMA WrapExact ==
  ASSUME SizeFits, NEW vec \in [Slots -> CacheState \cup {Null}], ArcsFit(vec)
  PROVE  /\ Cardinality(Occupied(vec)) \in Nat
         /\ Wrap(Cardinality(Occupied(vec))) = Cardinality(Occupied(vec))
<1> DEFINE n == Cardinality(Occupied(vec))
           top == (NumIds + 1) * MaxBytes
<1>1. n \in Nat /\ n <= top /\ top \in Nat
  BY FitsBounded, OccupiedBound, CacheConstants
<1>2. top < SizeMod
  BY DEF SizeFits
<1> HIDE DEF n, top
<1> QED BY <1>1, <1>2, CacheConstants DEF Wrap, n

(***************************************************************************)
(* An operation that replaces the state of one slot, or frees it, and      *)
(* adjusts the count by the difference.                                    *)
(***************************************************************************)
LEMMA OneSlotSize ==
  ASSUME StoreInv, SizeInv, SizeFits,
         NEW slot \in Slots, NEW st \in CacheState \cup {Null},
         st # Null => Len(st.arcs) <= MaxArcs,
         CountedBytes(st) > 0 => CountedBytes(state_vec[slot]) > 0,
         state_vec' = [state_vec EXCEPT ![slot] = st],
         UNCHANGED <<first_gc, gc_on>>,
         cache_size' = IF first_gc THEN cache_size
                       ELSE Wrap(cache_size - CountedBytes(state_vec[slot])
                                            + CountedBytes(st))
  PROVE  /\ ArcsFit(state_vec')
         /\ (~first_gc => InitCounted(state_vec))'
         /\ BookKeeping'
         /\ ~first_gc => cache_size' = cache_size - CountedBytes(state_vec[slot])
                                                  + CountedBytes(st)
<1>1. state_vec \in [Slots -> CacheState \cup {Null}] /\ gc_on \in BOOLEAN
  BY DEF StoreInv, StoreTypeOK
<1>2. state_vec' \in [Slots -> CacheState \cup {Null}]
      /\ state_vec'[slot] = st /\ \A t \in Slots \ {slot} : state_vec'[t] = state_vec[t]
  BY <1>1
<1>3. ArcsFit(state_vec')
  BY <1>2 DEF SizeInv, ArcsFit
<1>4. (~first_gc => InitCounted(state_vec))'
  <2>1. ASSUME ~first_gc, st # Null, "Init" \in st.flags PROVE gc_on
    <3>1. Bytes(st) > 0
      <4>1. Len(st.arcs) \in Nat /\ Len(st.arcs) * SizeofArc \in Nat
        BY <2>1, CacheConstants DEF CacheState
      <4> QED BY <4>1, CacheConstants DEF Bytes
    <3>2. state_vec[slot] # Null /\ "Init" \in state_vec[slot].flags
      BY <2>1, <3>1 DEF CountedBytes
    <3> QED BY <2>1, <3>2 DEF SizeInv, InitCounted
  <2> QED BY <1>2, <2>1 DEF SizeInv, InitCounted
<1>5. Bounded(state_vec, MaxBytes) /\ Bounded(state_vec', MaxBytes) /\ MaxBytes \in Nat
  BY <1>1, <1>2, <1>3, FitsBounded DEF SizeInv
<1>6. Cardinality(Occupied(state_vec')) =
        Cardinality(Occupied(state_vec)) - CountedBytes(state_vec[slot])
                                         + CountedBytes(st)
  <2>1. \A t \in Slots \ {slot} : CountedBytes(state_vec'[t]) = CountedBytes(state_vec[t])
    BY <1>2
  <2>2. ASSUME NEW v, NEW w, v = state_vec, w = state_vec'
        PROVE  Cardinality(Occupied(w)) =
                 Cardinality(Occupied(v)) - CountedBytes(v[slot]) + CountedBytes(w[slot])
    <3>1. /\ Bounded(v, MaxBytes) /\ Bounded(w, MaxBytes)
          /\ \A t \in Slots \ {slot} : CountedBytes(w[t]) = CountedBytes(v[t])
      BY <1>5, <2>1, <2>2
    <3> QED BY <1>5, <3>1, OccupiedUpdate
  <2> QED BY <1>2, <2>2
<1>7. Wrap(Cardinality(Occupied(state_vec'))) = Cardinality(Occupied(state_vec'))
  BY <1>2, <1>3, WrapExact
<1>8. CASE first_gc
  BY <1>3, <1>4, <1>8 DEF SizeInv, BookKeeping
<1>9. CASE ~first_gc
  <2>1. cache_size = Cardinality(Occupied(state_vec))
    BY <1>9 DEF SizeInv, BookKeeping
  <2>2. cache_size' = Cardinality(Occupied(state_vec'))
    BY <1>6, <1>7, <1>9, <2>1
  <2> QED BY <1>3, <1>4, <1>6, <1>9, <2>1, <2>2 DEF BookKeeping
<1> QED BY <1>8, <1>9

-------------------------------------------------------------------------------
\* What FirstCacheStore::GetMutableState does to the sizes: nothing, except that
\* handing slot 0 around ends with no state counted.
LEMMA FirstGetSize ==
  ASSUME StoreInv, SizeInv, NEW s \in Ids
  PROVE  LET f == FirstGet(s)
         IN  /\ ArcsFit(f.vec)
             /\ f.first_gc => cache_size = 0
             /\ ~f.first_gc => /\ InitCounted(f.vec)
                               /\ cache_size = Cardinality(Occupied(f.vec))
<1> DEFINE f == FirstGet(s)
<1> USE CacheConstants DEF Ids, Slots, NoStateId
<1>1. /\ state_vec \in [Slots -> CacheState \cup {Null}]
      /\ first_gc \in BOOLEAN /\ first_id \in Ids \cup {NoStateId}
      /\ s + 1 \in Slots /\ 0 \in Slots /\ s # NoStateId /\ s + 1 # 0
  BY DEF StoreInv, StoreTypeOK
<1>2. /\ FreshState # Null /\ CountedBytes(FreshState) = 0 /\ CountedBytes(Null) = 0
      /\ FreshState.flags = {} /\ Len(FreshState.arcs) = 0 /\ 0 <= MaxArcs
  <2>1. FreshState # Null
    BY FreshStateType, NullAssumption
  <2>2. FreshState.flags = {} /\ Len(FreshState.arcs) = 0
    BY DEF FreshState
  <2> QED BY <2>1, <2>2 DEF CountedBytes
<1>3. CASE first_id = s \/ ~first_gc
  <2> DEFINE slot == IF first_id = s THEN 0 ELSE s + 1
  <2>1. f.first_gc = first_gc
        /\ f.vec = [state_vec EXCEPT ![slot] = VectorGet(state_vec, slot)]
    BY <1>1, <1>3 DEF FirstGet
  <2>2. slot \in Slots
    BY <1>1
  <2> HIDE DEF slot, f
  <2>3. \A t \in Slots : \/ f.vec[t] = state_vec[t]
                         \/ f.vec[t] = FreshState /\ state_vec[t] = Null
    BY <1>1, <2>1, <2>2 DEF VectorGet
  <2>4. Occupied(f.vec) = Occupied(state_vec)
    BY <1>2, <2>3, OccupiedSame
  <2>5. ArcsFit(f.vec)
    BY <1>2, <2>3 DEF SizeInv, ArcsFit
  <2>6. ~first_gc => InitCounted(f.vec)
    BY <1>2, <2>3 DEF SizeInv, InitCounted
  <2>7. cache_size = IF first_gc THEN 0 ELSE Cardinality(Occupied(f.vec))
    BY <2>4 DEF SizeInv, BookKeeping
  <2> QED BY <1>1, <2>1, <2>5, <2>6, <2>7 DEF f
<1>4. CASE first_id # s /\ first_gc
  <2>1. cache_size = 0 /\ \A t \in Slots \ {0} : state_vec[t] = Null
    BY <1>4 DEF SizeInv, BookKeeping, StoreInv, FirstSlotExclusive
  <2>2. CASE first_id = NoStateId \/ Reusable(VectorGet(state_vec, 0))
    <3>1. f.first_gc = TRUE
      BY <1>4, <2>2 DEF FirstGet
    <3>2. \E st : f.vec = [state_vec EXCEPT ![0] = st] /\ Len(st.arcs) = 0
      <4>1. CASE first_id = NoStateId
        <5>1. VectorGet(state_vec, 0) = FreshState
          BY <4>1 DEF StoreInv, NoAlias, VectorGet
        <5> DEFINE st == [VectorGet(state_vec, 0) EXCEPT !.flags = @ \cup {"Init"}]
        <5>2. f.vec = [state_vec EXCEPT ![0] = st]
          BY <1>4, <4>1 DEF FirstGet
        <5>3. Len(st.arcs) = 0
          BY <1>2, <5>1 DEF FreshState
        <5> QED BY <5>2, <5>3
      <4>2. CASE first_id # NoStateId /\ Reusable(VectorGet(state_vec, 0))
        <5>1. f.vec = [state_vec EXCEPT ![0] = ReusedState]
          BY <1>4, <4>2 DEF FirstGet
        <5>2. Len(ReusedState.arcs) = 0
          BY DEF ReusedState, FreshState
        <5> QED BY <5>1, <5>2
      <4> QED BY <2>2, <4>1, <4>2
    <3> HIDE DEF f
    <3>3. ArcsFit(f.vec)
      BY <1>1, <1>2, <2>1, <3>2 DEF ArcsFit
    <3> QED BY <2>1, <3>1, <3>3 DEF f
  <2>3. CASE first_id # NoStateId /\ ~Reusable(VectorGet(state_vec, 0))
    <3> DEFINE w == [state_vec EXCEPT ![0].flags = @ \ {"Init"}]
    <3>1. f.first_gc = FALSE /\ f.vec = [w EXCEPT ![s + 1] = VectorGet(w, s + 1)]
      BY <1>4, <2>3 DEF FirstGet
    <3>2. /\ w \in [Slots -> CacheState \cup {Null}]
          /\ w[0] # Null /\ "Init" \notin w[0].flags /\ Len(w[0].arcs) <= MaxArcs
          /\ \A t \in Slots \ {0} : w[t] = Null
      <4> DEFINE st == [state_vec[0] EXCEPT !.flags = @ \ {"Init"}]
      <4>1. state_vec[0] # Null /\ state_vec[0] \in CacheState
        BY <1>1, <2>3 DEF StoreInv, NoAlias
      <4>2. st \in CacheState /\ "Init" \notin st.flags /\ st.arcs = state_vec[0].arcs
        BY <4>1 DEF CacheState
      <4>3. Len(st.arcs) <= MaxArcs
        BY <1>1, <4>1, <4>2 DEF SizeInv, ArcsFit
      <4>4. w = [state_vec EXCEPT ![0] = st]
        BY <1>1
      <4> HIDE DEF st, w
      <4> QED BY <1>1, <2>1, <4>2, <4>3, <4>4, NullAssumption
    <3> HIDE DEF w, f
    <3>3. \A t \in Slots : f.vec[t] = w[t] \/ f.vec[t] = FreshState
      BY <1>1, <3>1, <3>2 DEF VectorGet
    <3>4. ArcsFit(f.vec) /\ InitCounted(f.vec)
      BY <1>2, <3>2, <3>3 DEF ArcsFit, InitCounted
    <3>5. \A t \in Slots : CountedBytes(f.vec[t]) = 0
      BY <1>2, <3>2, <3>3 DEF CountedBytes
    <3>6. Occupied(f.vec) = {}
      <4>1. ASSUME NEW x \in Occupied(f.vec) PROVE FALSE
        <5>1. PICK t \in Slots : x \in {t} \X (1 .. CountedBytes(f.vec[t]))
          BY OccupiedMember
        <5>2. 1 .. CountedBytes(f.vec[t]) = {}
          BY <3>5
        <5> QED BY <5>1, <5>2
      <4> QED BY <4>1
    <3> QED BY <2>1, <3>1, <3>4, <3>6, FS_EmptySet DEF f
  <2> QED BY <2>2, <2>3
<1> QED BY <1>3, <1>4

LEMMA TargetBounds ==
  ASSUME NEW n \in Nat, n >= 2
  PROVE  Target(n) \in Nat /\ Target(n) > 0 /\ Target(n) <= n
BY DEF Target

\* A collection starts if, and only if, the limit is exceeded.
LEMMA StartGCAims ==
  ASSUME cache_limit \in Nat, cache_limit >= 2, NEW size \in Nat
  PROVE  /\ StartGC(size).on \/ size <= cache_limit
         /\ StartGC(size).on => /\ StartGC(size).target > 0
                                /\ StartGC(size).target <= cache_limit
BY TargetBounds DEF StartGC, NoGC

LEMMA GetMutableStateSize ==
  ASSUME StoreInv, SizeInv, SizeFits, NEW s \in Ids, GetMutableState(s)
  PROVE  SizeInv'
<1> DEFINE f     == FirstGet(s)
           state == f.vec[f.slot]
           init  == Gc /\ "Init" \notin state.flags
           size  == IF init THEN Wrap(cache_size + Bytes(state)) ELSE cache_size
<1>1. /\ state_vec' = IF init THEN [f.vec EXCEPT ![f.slot].flags = @ \cup {"Init"}]
                              ELSE f.vec
      /\ first_gc' = f.first_gc /\ gc_on' = (gc_on \/ init)
      /\ cache_size' = size /\ ptr' = f.slot
      /\ gc' = IF init THEN StartGC(size) ELSE gc
      /\ cache_limit' = cache_limit /\ ~gc.on
  BY DEF GetMutableState
<1>2. FirstGetOK(f)
  BY FirstGetLemma
<1>3. /\ ArcsFit(f.vec)
      /\ f.first_gc => cache_size = 0
      /\ ~f.first_gc => InitCounted(f.vec) /\ cache_size = Cardinality(Occupied(f.vec))
  BY FirstGetSize
<1> HIDE DEF f
<1>4. /\ f.vec \in [Slots -> CacheState \cup {Null}] /\ f.slot \in Slots
      /\ state \in CacheState /\ state # Null /\ Len(state.arcs) <= MaxArcs
      /\ f.first_gc \in BOOLEAN /\ (f.first_gc => "Init" \in state.flags)
  BY <1>2, <1>3 DEF FirstGetOK, ArcsFit
<1>5. cache_limit \in Nat /\ cache_limit >= 2 /\ cache_size \in Nat /\ gc_on \in BOOLEAN
  BY DEF StoreInv, StoreTypeOK, SizeInv
<1>6. CASE ~init
  <2>1. state_vec' = f.vec /\ gc_on' = gc_on /\ gc' = gc /\ cache_size' = cache_size
    BY <1>1, <1>5, <1>6
  <2>2. BookKeeping'
    BY <1>1, <1>3, <1>4, <2>1 DEF BookKeeping
  <2>3. (~first_gc => InitCounted(state_vec))'
    BY <1>1, <1>3, <2>1 DEF InitCounted
  <2>4. WithinLimit' /\ AimsBelowLimit'
    BY <1>1, <2>1 DEF SizeInv, WithinLimit, AimsBelowLimit
  <2> QED BY <1>1, <1>3, <1>5, <2>1, <2>2, <2>3, <2>4 DEF SizeInv
<1>7. CASE init
  <2> DEFINE new == [state EXCEPT !.flags = @ \cup {"Init"}]
  <2>1. /\ new \in CacheState /\ new # Null /\ new.arcs = state.arcs
        /\ "Init" \in new.flags
    BY <1>4, NullAssumption DEF CacheState, CacheFlags
  <2>2. state_vec' = [f.vec EXCEPT ![f.slot] = new]
    BY <1>1, <1>7
  <2>3. CountedBytes(new) = Bytes(state) /\ CountedBytes(state) = 0
    BY <1>7, <2>1 DEF CountedBytes, Bytes
  <2>4. ~f.first_gc /\ ~first_gc'
    BY <1>1, <1>4, <1>7
  <2> HIDE DEF new, state, size
  <2>5. /\ state_vec' \in [Slots -> CacheState \cup {Null}]
        /\ state_vec'[f.slot] = new /\ \A t \in Slots \ {f.slot} : state_vec'[t] = f.vec[t]
    BY <1>4, <2>1, <2>2
  <2>6. ArcsFit(state_vec')
    BY <1>3, <1>4, <2>1, <2>5 DEF ArcsFit
  <2>7. cache_size' = Cardinality(Occupied(state_vec'))
    <3>1. Bounded(f.vec, MaxBytes) /\ Bounded(state_vec', MaxBytes) /\ MaxBytes \in Nat
      BY <1>3, <1>4, <2>5, <2>6, FitsBounded
    <3>2. \A t \in Slots \ {f.slot} : CountedBytes(state_vec'[t]) = CountedBytes(f.vec[t])
      BY <2>5
    <3>3. Cardinality(Occupied(state_vec')) =
            Cardinality(Occupied(f.vec)) - CountedBytes(f.vec[f.slot])
                                         + CountedBytes(state_vec'[f.slot])
      BY <1>4, <3>1, <3>2, OccupiedUpdate
    <3>4. Cardinality(Occupied(state_vec')) = cache_size + Bytes(state)
      <4>1. Bytes(state) \in Nat
        BY <1>4, BytesType
      <4> QED BY <1>3, <1>5, <2>3, <2>4, <2>5, <3>3, <4>1 DEF state
    <3>5. Wrap(Cardinality(Occupied(state_vec'))) = Cardinality(Occupied(state_vec'))
      BY <2>5, <2>6, WrapExact
    <3> QED BY <1>1, <1>7, <3>4, <3>5 DEF size
  <2>8. BookKeeping'
    BY <2>4, <2>7 DEF BookKeeping
  <2>9. InitCounted(state_vec)'
    BY <1>1, <1>7 DEF InitCounted
  <2>10. WithinLimit' /\ AimsBelowLimit'
    <3>1. cache_size' \in Nat /\ gc' = StartGC(cache_size')
      BY <1>1, <1>7, <2>5, <2>6, <2>7, WrapExact
    <3>2. /\ gc'.on \/ cache_size' <= cache_limit
          /\ gc'.on => gc'.target > 0 /\ gc'.target <= cache_limit
      BY <1>5, <3>1, StartGCAims
    <3> QED BY <1>1, <2>1, <2>5, <3>2 DEF WithinLimit, AimsBelowLimit
  <2> QED BY <1>1, <1>5, <2>6, <2>8, <2>9, <2>10 DEF SizeInv
<1> QED BY <1>6, <1>7

-------------------------------------------------------------------------------
\* Two initialised states: the bytes of one are fewer than all.
LEMMA OthersOccupy ==
  ASSUME NEW vec \in [Slots -> CacheState \cup {Null}], ArcsFit(vec),
         NEW s \in Slots, NEW t \in Slots, s # t
  PROVE  CountedBytes(vec[s]) + CountedBytes(vec[t]) <= Cardinality(Occupied(vec))
<1> DEFINE w == [vec EXCEPT ![s] = Null]
<1>1. /\ w \in [Slots -> CacheState \cup {Null}] /\ w[s] = Null
      /\ \A u \in Slots \ {s} : w[u] = vec[u]
  OBVIOUS
<1> HIDE DEF w
<1>2. ArcsFit(w)
  BY <1>1 DEF ArcsFit
<1>3. Bounded(vec, MaxBytes) /\ Bounded(w, MaxBytes) /\ MaxBytes \in Nat
  BY <1>1, <1>2, FitsBounded
<1>4. CountedBytes(w[s]) = 0 /\ CountedBytes(w[t]) = CountedBytes(vec[t])
  BY <1>1 DEF CountedBytes
<1>5. Cardinality(Occupied(w)) =
        Cardinality(Occupied(vec)) - CountedBytes(vec[s]) + CountedBytes(w[s])
  BY <1>1, <1>3, OccupiedUpdate
<1>6. CountedBytes(vec[t]) <= Cardinality(Occupied(w))
  <2> DEFINE Row == {t} \X (1 .. CountedBytes(w[t]))
  <2>1. Row \subseteq Occupied(w)
    BY OccupiedMember
  <2>2. Cardinality(Row) = CountedBytes(w[t])
    <3>1. CountedBytes(w[t]) \in Nat
      BY <1>3 DEF Bounded
    <3> QED BY <3>1, RowSize
  <2>3. IsFiniteSet(Occupied(w))
    BY <1>3, OccupiedBound
  <2> HIDE DEF Row
  <2> QED BY <1>4, <2>1, <2>2, <2>3, FS_Subset
<1>7. /\ CountedBytes(vec[s]) \in Nat /\ CountedBytes(vec[t]) \in Nat
      /\ Cardinality(Occupied(vec)) \in Nat /\ Cardinality(Occupied(w)) \in Nat
  BY <1>3, OccupiedBound DEF Bounded
<1> QED BY <1>4, <1>5, <1>6, <1>7

LEMMA AddArcSize ==
  ASSUME StoreInv, SizeInv, SizeFits, NEW arc \in Arcs, AddArc(arc)
  PROVE  SizeInv'
<1> DEFINE old  == state_vec[ptr]
           st   == StateAddArc(old, arc)
           size == IF Counted(st) THEN Wrap(cache_size + SizeofArc) ELSE cache_size
<1>1. /\ ptr # Null /\ ~gc.on /\ Len(old.arcs) < MaxArcs
      /\ state_vec' = [state_vec EXCEPT ![ptr] = st] /\ cache_size' = size
      /\ gc' = IF Counted(st) THEN StartGC(size) ELSE gc
      /\ UNCHANGED <<first_gc, gc_on, cache_limit, ptr>>
  BY DEF AddArc
<1>2. /\ ptr \in Slots /\ old \in CacheState /\ old # Null
      /\ cache_limit \in Nat /\ cache_limit >= 2 /\ cache_size \in Nat
      /\ first_gc \in BOOLEAN /\ gc_on \in BOOLEAN /\ (gc_on => ~first_gc)
      /\ state_vec \in [Slots -> CacheState \cup {Null}]
  BY <1>1 DEF StoreInv, StoreTypeOK, PtrIsStored, SizeInv, FirstSlotExclusive
<1>3. st \in CacheState /\ st # Null /\ st.flags = old.flags
  BY <1>2, StateAddArcType, NullAssumption
<1>4. st.arcs = Append(old.arcs, arc) /\ old.arcs \in Seq(Arcs)
  BY <1>2 DEF StateAddArc, CacheState
<1> HIDE DEF st, old
<1>5. Len(st.arcs) = Len(old.arcs) + 1 /\ Len(old.arcs) \in Nat
  BY <1>4, AppendProperties
<1>6. CountedBytes(st) = IF "Init" \in old.flags THEN CountedBytes(old) + SizeofArc ELSE 0
  <2>1. Bytes(st) = Bytes(old) + SizeofArc
    <3> DEFINE n == Len(old.arcs)
    <3>1. (n + 1) * SizeofArc = n * SizeofArc + SizeofArc /\ n * SizeofArc \in Nat
      BY <1>5, CacheConstants
    <3> QED BY <1>5, <3>1, CacheConstants DEF Bytes
  <2> QED BY <1>2, <1>3, <2>1 DEF CountedBytes
<1>7. CountedBytes(old) \in Nat /\ ("Init" \notin old.flags => CountedBytes(old) = 0)
      /\ ("Init" \in old.flags => CountedBytes(old) > 0)
  <2>1. Len(old.arcs) * SizeofArc \in Nat
    BY <1>5, CacheConstants
  <2> QED BY <1>2, <2>1, CacheConstants DEF CountedBytes, Bytes
<1>8. ~first_gc => Counted(st) = ("Init" \in old.flags)
  BY <1>2, <1>3 DEF Counted, SizeInv, InitCounted, old
<1>9. cache_size' = IF first_gc THEN cache_size
                    ELSE Wrap(cache_size - CountedBytes(old) + CountedBytes(st))
  <2>1. CASE first_gc
    BY <1>1, <1>2, <2>1 DEF Counted
  <2>2. CASE ~first_gc /\ "Init" \in old.flags
    <3>1. cache_size - CountedBytes(old) + CountedBytes(st) = cache_size + SizeofArc
      BY <1>2, <1>6, <1>7, <2>2, CacheConstants
    <3> QED BY <1>1, <1>8, <2>2, <3>1
  <2>3. CASE ~first_gc /\ "Init" \notin old.flags
    <3>1. cache_size - CountedBytes(old) + CountedBytes(st) = cache_size
      BY <1>2, <1>6, <1>7, <2>3
    <3>2. Wrap(cache_size) = cache_size
      BY <1>2, <2>3, WrapExact DEF SizeInv, BookKeeping
    <3> QED BY <1>1, <1>8, <2>3, <3>1, <3>2
  <2> QED BY <2>1, <2>2, <2>3
<1>10. /\ ArcsFit(state_vec') /\ (~first_gc => InitCounted(state_vec))' /\ BookKeeping'
  <2>1. Len(st.arcs) <= MaxArcs
    BY <1>1, <1>5, CacheConstants
  <2>2. CountedBytes(st) > 0 => CountedBytes(old) > 0
    BY <1>6, <1>7
  <2> QED BY <1>1, <1>2, <1>3, <1>9, <2>1, <2>2, OneSlotSize DEF old
<1>11. WithinLimit' /\ AimsBelowLimit'
  <2>1. CASE Counted(st)
    <3>1. size \in Nat
      BY <1>2, WrapType, CacheConstants
    <3> HIDE DEF size
    <3>2. /\ gc'.on \/ cache_size' <= cache_limit
          /\ gc'.on => gc'.target > 0 /\ gc'.target <= cache_limit
      BY <1>1, <1>2, <2>1, <3>1, StartGCAims
    <3>3. "Init" \in state_vec'[ptr].flags
      BY <1>1, <1>2, <2>1 DEF Counted
    <3> QED BY <1>1, <3>2, <3>3 DEF WithinLimit, AimsBelowLimit
  <2>2. CASE ~Counted(st)
    <3>1. gc' = gc /\ cache_size' = cache_size
      BY <1>1, <2>2
    <3> QED BY <1>1, <3>1 DEF SizeInv, WithinLimit, AimsBelowLimit
  <2> QED BY <2>1, <2>2
<1> QED BY <1>1, <1>2, <1>10, <1>11 DEF SizeInv

(***************************************************************************)
(* An operation of the client that makes the state of one slot smaller, or *)
(* frees it, and subtracts the difference if the state is counted.         *)
(***************************************************************************)
LEMMA ShrinkSize ==
  ASSUME StoreInv, SizeInv, SizeFits,
         NEW slot \in Slots, state_vec[slot] # Null,
         NEW st \in CacheState \cup {Null},
         st # Null => Len(st.arcs) <= MaxArcs,
         NEW less \in Nat, less <= Bytes(state_vec[slot]),
         "Init" \in state_vec[slot].flags
           => CountedBytes(st) = Bytes(state_vec[slot]) - less,
         "Init" \notin state_vec[slot].flags => CountedBytes(st) = 0,
         state_vec' = [state_vec EXCEPT ![slot] = st],
         UNCHANGED <<first_gc, gc_on, cache_limit, gc>>, ~gc.on,
         cache_size' = IF Counted(state_vec[slot]) THEN Wrap(cache_size - less)
                       ELSE cache_size
  PROVE  SizeInv'
<1> DEFINE old == state_vec[slot]
<1>1. /\ old \in CacheState /\ cache_limit \in Nat /\ cache_size \in Nat
      /\ first_gc \in BOOLEAN /\ gc_on \in BOOLEAN /\ (gc_on => ~first_gc)
      /\ state_vec \in [Slots -> CacheState \cup {Null}]
  BY DEF StoreInv, StoreTypeOK, SizeInv, FirstSlotExclusive
<1>2. /\ Bytes(old) \in Nat /\ Bytes(old) > 0
      /\ CountedBytes(old) = IF "Init" \in old.flags THEN Bytes(old) ELSE 0
  <2>1. Len(old.arcs) * SizeofArc \in Nat
    BY <1>1, StateFields, CacheConstants
  <2>2. Bytes(old) \in Nat /\ Bytes(old) > 0
    BY <2>1, CacheConstants DEF Bytes
  <2>3. CountedBytes(old) = IF "Init" \in old.flags THEN Bytes(old) ELSE 0
    BY DEF CountedBytes
  <2> QED BY <2>2, <2>3
<1>3. ~first_gc => Counted(old) = ("Init" \in old.flags)
  BY <1>1 DEF Counted, SizeInv, InitCounted
<1> HIDE DEF old
<1>4. cache_size' = IF first_gc THEN cache_size
                    ELSE Wrap(cache_size - CountedBytes(old) + CountedBytes(st))
  <2>1. CASE first_gc
    BY <1>1, <2>1 DEF Counted, old
  <2>2. CASE ~first_gc /\ "Init" \in old.flags
    <3>1. cache_size - CountedBytes(old) + CountedBytes(st) = cache_size - less
      BY <1>1, <1>2, <2>2 DEF old
    <3> QED BY <1>3, <2>2, <3>1 DEF old
  <2>3. CASE ~first_gc /\ "Init" \notin old.flags
    <3>1. cache_size - CountedBytes(old) + CountedBytes(st) = cache_size
      BY <1>1, <1>2, <2>3 DEF old
    <3>2. Wrap(cache_size) = cache_size
      BY <1>1, <2>3, WrapExact DEF SizeInv, BookKeeping
    <3> QED BY <1>3, <2>3, <3>1, <3>2 DEF old
  <2> QED BY <2>1, <2>2, <2>3
<1>5. /\ ArcsFit(state_vec') /\ (~first_gc => InitCounted(state_vec))' /\ BookKeeping'
      /\ ~first_gc => cache_size' = cache_size - CountedBytes(old) + CountedBytes(st)
  <2>1. CountedBytes(st) > 0 => CountedBytes(old) > 0
    BY <1>2 DEF old
  <2> QED BY <1>1, <1>4, <2>1, OneSlotSize DEF old
<1>6. cache_size' <= cache_size
  BY <1>1, <1>2, <1>4, <1>5 DEF old
<1>7. WithinLimit' /\ AimsBelowLimit'
  <2>1. CountedBytes(st) \in Nat
    BY <1>2 DEF old
  <2>2. cache_size' \in Int
    BY <1>1, <1>2, <1>4, <1>5, <2>1
  <2> QED BY <1>1, <1>6, <2>2 DEF SizeInv, WithinLimit, AimsBelowLimit
<1> QED BY <1>5, <1>7 DEF SizeInv

LEMMA DeleteArcsSize ==
  ASSUME StoreInv, SizeInv, SizeFits, MaxExcess = 0,
         \/ DeleteAllArcs
         \/ \E n \in 1 .. MaxArcs + MaxExcess : DeleteArcs(n)
  PROVE  SizeInv'
<1> DEFINE old == state_vec[ptr]
<1>1. /\ ptr # Null /\ ~gc.on
      /\ UNCHANGED <<first_gc, gc_on, cache_limit, gc>>
  BY DEF DeleteAllArcs, DeleteArcs
<1>2. /\ ptr \in Slots /\ old \in CacheState /\ old # Null
      /\ state_vec \in [Slots -> CacheState \cup {Null}]
      /\ Len(old.arcs) \in Nat /\ Len(old.arcs) <= MaxArcs /\ old.arcs \in Seq(Arcs)
  <2>1. /\ ptr \in Slots /\ old \in CacheState /\ old # Null
        /\ state_vec \in [Slots -> CacheState \cup {Null}]
    BY <1>1 DEF StoreInv, StoreTypeOK, PtrIsStored
  <2> QED BY <2>1 DEF SizeInv, ArcsFit, CacheState
<1>3. \E st \in CacheState, n \in 0 .. Len(old.arcs) :
        /\ Len(st.arcs) = Len(old.arcs) - n
        /\ st.flags = old.flags
        /\ state_vec' = [state_vec EXCEPT ![ptr] = st]
        /\ cache_size' = IF Counted(old) THEN Wrap(cache_size - n * SizeofArc)
                         ELSE cache_size
  <2>1. CASE DeleteAllArcs
    <3> DEFINE st == [old EXCEPT !.arcs = <<>>, !.neps = 0]
    <3>1. st \in CacheState /\ st.flags = old.flags
      <4>1. <<>> \in Seq(Arcs) /\ 0 \in Int
        OBVIOUS
      <4> QED BY <1>2, <4>1, UpdateArcs, Zenon
    <3>2. st.arcs = <<>>
      BY <1>2 DEF CacheState
    <3>3. state_vec' = [state_vec EXCEPT ![ptr] = st]
      BY <1>2, <2>1 DEF DeleteAllArcs
    <3>4. cache_size' = IF Counted(old) THEN Wrap(cache_size - Len(old.arcs) * SizeofArc)
                        ELSE cache_size
      BY <2>1 DEF DeleteAllArcs
    <3> HIDE DEF st, old
    <3>5. Len(st.arcs) = Len(old.arcs) - Len(old.arcs)
      BY <1>2, <3>2
    <3>6. Len(old.arcs) \in 0 .. Len(old.arcs)
      BY <1>2
    <3> QED BY <3>1, <3>3, <3>4, <3>5, <3>6
  <2>2. ASSUME NEW n \in 1 .. MaxArcs + MaxExcess, DeleteArcs(n)
        PROVE  <1>3!:
    <3> DEFINE st == StateDeleteArcs(old, n)
    <3>1. n \in 0 .. Len(old.arcs) /\ n > 0 /\ n \in Nat
      BY <1>2, <2>2, CacheConstants DEF DeleteArcs
    <3>2. st \in CacheState /\ st.flags = old.flags
      BY <1>2, <3>1, StateDeleteArcsType
    <3>3. Len(st.arcs) = Len(old.arcs) - n
      <4> DEFINE left == IF n >= Len(old.arcs) THEN <<>>
                         ELSE SubSeq(old.arcs, 1, Len(old.arcs) - n)
      <4>1. st.arcs = left
        BY <1>2 DEF StateDeleteArcs, CacheState
      <4>2. Len(left) = Len(old.arcs) - n
        <5>1. CASE n >= Len(old.arcs)
          BY <1>2, <3>1, <5>1
        <5>2. CASE n < Len(old.arcs)
          BY <1>2, <3>1, <5>2, SubSeqProperties
        <5> QED BY <1>2, <3>1, <5>1, <5>2
      <4> QED BY <4>1, <4>2
    <3>4. /\ state_vec' = [state_vec EXCEPT ![ptr] = st]
          /\ cache_size' = IF Counted(old) THEN Wrap(cache_size - n * SizeofArc)
                           ELSE cache_size
      BY <2>2 DEF DeleteArcs
    <3> HIDE DEF st, old
    <3> QED BY <3>1, <3>2, <3>3, <3>4
  <2> QED BY <2>1, <2>2
<1>4. PICK st \in CacheState, n \in 0 .. Len(old.arcs) :
        /\ Len(st.arcs) = Len(old.arcs) - n
        /\ st.flags = old.flags
        /\ state_vec' = [state_vec EXCEPT ![ptr] = st]
        /\ cache_size' = IF Counted(old) THEN Wrap(cache_size - n * SizeofArc)
                         ELSE cache_size
  BY <1>3
<1> DEFINE less == n * SizeofArc
<1>5. /\ less \in Nat /\ less <= Bytes(old)
      /\ Bytes(st) = Bytes(old) - less
  <2> DEFINE m == Len(old.arcs)
  <2>1. n \in Nat /\ m \in Nat /\ n <= m /\ SizeofArc \in Nat /\ SizeofState \in Nat
    BY <1>2, CacheConstants
  <2>2. (m - n) * SizeofArc = m * SizeofArc - n * SizeofArc
    <3> HIDE DEF m, old
    <3> QED BY <2>1
  <2>3. n * SizeofArc \in Nat /\ (m - n) * SizeofArc \in Nat
    BY <2>1
  <2>4. Bytes(st) = SizeofState + (m - n) * SizeofArc
        /\ Bytes(old) = SizeofState + m * SizeofArc /\ m * SizeofArc \in Nat
    BY <1>4, <2>1 DEF Bytes
  <2> HIDE DEF m
  <2> QED BY <2>1, <2>2, <2>3, <2>4
<1>6. /\ st # Null /\ Len(st.arcs) <= MaxArcs
      /\ CountedBytes(st) = IF "Init" \in old.flags THEN Bytes(old) - less ELSE 0
  <2>1. st # Null
    BY NullAssumption
  <2> QED BY <1>2, <1>4, <1>5, <2>1, CacheConstants DEF CountedBytes
<1>7. cache_size' = IF Counted(old) THEN Wrap(cache_size - less) ELSE cache_size
  BY <1>4
<1> HIDE DEF less
<1> QED BY <1>1, <1>2, <1>4, <1>5, <1>6, <1>7, ShrinkSize

LEMMA MarkSize ==
  ASSUME StoreInv, SizeInv, SizeFits, NEW s \in Ids, Visit(s) \/ IncrRef(s) \/ DecrRef(s)
  PROVE  SizeInv'
<1> DEFINE slot == SlotOf(s)
           old  == state_vec[slot]
<1>1. /\ ~gc.on /\ old # Null
      /\ UNCHANGED <<first_gc, gc_on, cache_size, cache_limit, ptr, gc>>
  BY DEF Visit, IncrRef, DecrRef, Stored
<1>2. slot \in Slots /\ old \in CacheState /\ state_vec \in [Slots -> CacheState \cup {Null}]
  <2>1. slot \in Slots
    BY CacheConstants DEF Slots, Ids, SlotOf, StoreInv, StoreTypeOK
  <2> HIDE DEF slot
  <2> QED BY <1>1, <2>1 DEF StoreInv, StoreTypeOK
<1>3. \E st \in CacheState :
        /\ st.arcs = old.arcs /\ ("Init" \in st.flags <=> "Init" \in old.flags)
        /\ state_vec' = [state_vec EXCEPT ![slot] = st]
  <2>1. CASE Visit(s)
    <3> DEFINE st == [old EXCEPT !.flags = @ \cup {"Recent"}]
    <3>1. st \in CacheState /\ st.arcs = old.arcs
          /\ ("Init" \in st.flags <=> "Init" \in old.flags)
      BY <1>2 DEF CacheState, CacheFlags
    <3>2. state_vec' = [state_vec EXCEPT ![slot] = st]
      BY <2>1 DEF Visit, SetRecent
    <3> QED BY <3>1, <3>2
  <2>2. CASE IncrRef(s)
    <3> DEFINE st == [old EXCEPT !.ref = @ + 1]
    <3>1. st \in CacheState /\ st.flags = old.flags /\ st.arcs = old.arcs
      <4>1. old.ref + 1 \in Int
        BY <1>2, StateFields
      <4> QED BY <1>2, <4>1, UpdateRef DEF CacheState
    <3>2. state_vec' = [state_vec EXCEPT ![slot] = st]
      BY <2>2 DEF IncrRef
    <3> QED BY <3>1, <3>2
  <2>3. CASE DecrRef(s)
    <3> DEFINE st == [old EXCEPT !.ref = @ - 1]
    <3>1. st \in CacheState /\ st.flags = old.flags /\ st.arcs = old.arcs
      <4>1. old.ref - 1 \in Int
        BY <1>2, StateFields
      <4> QED BY <1>2, <4>1, UpdateRef DEF CacheState
    <3>2. state_vec' = [state_vec EXCEPT ![slot] = st]
      BY <2>3 DEF DecrRef
    <3> QED BY <3>1, <3>2
  <2> QED BY <2>1, <2>2, <2>3
<1>4. PICK st \in CacheState :
        /\ st.arcs = old.arcs /\ ("Init" \in st.flags <=> "Init" \in old.flags)
        /\ state_vec' = [state_vec EXCEPT ![slot] = st]
  BY <1>3
<1> HIDE DEF slot
<1>5. /\ st # Null /\ Len(st.arcs) <= MaxArcs
      /\ CountedBytes(st) = CountedBytes(old)
  <2>1. st # Null
    BY NullAssumption
  <2>2. Len(st.arcs) <= MaxArcs
    BY <1>1, <1>2, <1>4 DEF SizeInv, ArcsFit
  <2> QED BY <1>1, <1>4, <2>1, <2>2 DEF CountedBytes, Bytes
<1>6. ArcsFit(state_vec') /\ (~first_gc => InitCounted(state_vec))'
  <2>1. \A t \in Slots : state_vec'[t] = IF t = slot THEN st ELSE state_vec[t]
    BY <1>2, <1>4
  <2>2. ArcsFit(state_vec')
    BY <1>5, <2>1 DEF SizeInv, ArcsFit
  <2>3. ~first_gc => InitCounted(state_vec)
    BY DEF SizeInv
  <2> QED BY <1>1, <1>2, <1>4, <2>1, <2>2, <2>3 DEF InitCounted
<1>7. Occupied(state_vec') = Occupied(state_vec)
  <2>1. \A t \in Slots : CountedBytes(state_vec'[t]) = CountedBytes(state_vec[t])
    BY <1>2, <1>4, <1>5
  <2> QED BY <2>1, OccupiedSame
<1>8. BookKeeping' /\ WithinLimit' /\ AimsBelowLimit' /\ (cache_limit >= 2)'
  BY <1>1, <1>7 DEF SizeInv, BookKeeping, WithinLimit, AimsBelowLimit
<1> QED BY <1>6, <1>8 DEF SizeInv

LEMMA DeleteSize ==
  ASSUME StoreInv, SizeInv, SizeFits, NEW pos \in 1 .. NumIds + 1, Delete(pos)
  PROVE  SizeInv'
<1> DEFINE slot == state_list[pos]
           st   == state_vec[slot]
<1>1. /\ pos \in 1 .. Len(state_list) /\ slot \in Slots /\ st # Null /\ st \in CacheState
  BY DEF StoreInv, StoreTypeOK, ListStored, Delete
<1>2. /\ state_vec' = [state_vec EXCEPT ![slot] = Null]
      /\ cache_size' = IF Counted(st) THEN Wrap(cache_size - Bytes(st)) ELSE cache_size
      /\ UNCHANGED <<first_gc, gc_on, cache_limit, gc>> /\ ~gc.on
  BY DEF Delete
<1>3. Bytes(st) \in Nat /\ CountedBytes(Null) = 0 /\ Null \in CacheState \cup {Null}
  BY <1>1, BytesType DEF CountedBytes
<1>4. Bytes(st) <= Bytes(st) /\ 0 = Bytes(st) - Bytes(st)
  BY <1>3
<1> HIDE DEF slot
<1> QED BY <1>1, <1>2, <1>3, <1>4, ShrinkSize

(***************************************************************************)
(* A sweep step.  The test against underflow in GC (the freed bytes must   *)
(* be fewer than the count, not at most the count) never matters, because  *)
(* the state the collection was started for is counted too and not freed.  *)
(***************************************************************************)
LEMMA SweepSize ==
  ASSUME StoreInv, SizeInv, SizeFits, Sweep
  PROVE  SizeInv'
<1> DEFINE pos  == gc.pos
           slot == state_list[pos]
           st   == state_vec[slot]
           free == /\ cache_size > gc.target
                   /\ st.ref = 0
                   /\ gc.recent \/ "Recent" \notin st.flags
                   /\ slot # ptr
<1>1. /\ state_vec \in [Slots -> CacheState \cup {Null}]
      /\ state_list \in Seq(Slots) /\ cache_size \in Nat /\ cache_limit \in Nat
      /\ gc \in GCType /\ gc.on /\ gc_on = TRUE /\ first_gc = FALSE
      /\ ptr \in Slots /\ state_vec[ptr] # Null /\ state_vec[ptr] \in CacheState
      /\ "Init" \in state_vec[ptr].flags
  <2>1. /\ gc.on /\ ptr # Null /\ gc_on
    BY DEF StoreInv, FirstSlotExclusive, Sweep
  <2>2. ~first_gc /\ state_vec[ptr] # Null
    BY <2>1 DEF StoreInv, FirstSlotExclusive, PtrIsStored
  <2>3. "Init" \in state_vec[ptr].flags
    BY <2>1 DEF SizeInv, AimsBelowLimit
  <2> QED BY <2>1, <2>2, <2>3 DEF StoreInv, StoreTypeOK, GCType
<1>2. pos \in 1 .. Len(state_list) /\ slot \in Slots /\ st # Null /\ st \in CacheState
  BY <1>1 DEF StoreInv, ListStored, Sweep, GCType
<1>3. FirstGet(Value(slot)) =
           [slot |-> slot, vec |-> state_vec, list |-> state_list,
            first_gc |-> first_gc, first_id |-> first_id]
  BY <1>1, <1>2, SweepLookup
<1>4. /\ state_vec' = IF free THEN [state_vec EXCEPT ![slot] = Null]
                      ELSE [state_vec EXCEPT ![slot].flags = @ \ {"Recent"}]
      /\ first_gc' = first_gc
      /\ cache_size' = IF free THEN SizeAfterFree(st) ELSE cache_size
      /\ gc' = IF free THEN gc ELSE [gc EXCEPT !.pos = @ + 1]
      /\ UNCHANGED <<gc_on, cache_limit, ptr>>
  BY <1>3 DEF Sweep, MayFree
<1>5. gc'.on /\ gc'.target = gc.target
  BY <1>1, <1>4 DEF GCType
<1>6. cache_size = Cardinality(Occupied(state_vec)) /\ ArcsFit(state_vec)
  BY <1>1 DEF SizeInv, BookKeeping
<1>7. Wrap(cache_size) = cache_size
  BY <1>1, <1>6, WrapExact
<1>8. WithinLimit' /\ (cache_limit >= 2)'
  BY <1>4, <1>5 DEF WithinLimit, SizeInv
<1>9. CASE free
  <2>1. CountedBytes(st) \in Nat /\ CountedBytes(state_vec[ptr]) > 0
        /\ CountedBytes(state_vec[ptr]) \in Nat
    <3>1. Bytes(st) \in Nat /\ Bytes(state_vec[ptr]) \in Nat
      BY <1>1, <1>2, BytesType
    <3>2. Bytes(state_vec[ptr]) > 0
      <4>1. Len(state_vec[ptr].arcs) * SizeofArc \in Nat
        BY <1>1, CacheConstants DEF CacheState
      <4> QED BY <4>1, CacheConstants DEF Bytes
    <3> QED BY <1>1, <3>1, <3>2 DEF CountedBytes
  <2>2. CountedBytes(st) + CountedBytes(state_vec[ptr]) <= cache_size
    BY <1>1, <1>2, <1>6, <1>9, OthersOccupy
  <2>3. cache_size' = cache_size - CountedBytes(st)
    <3>1. CASE "Init" \in st.flags
      <4>1. CountedBytes(st) = Bytes(st)
        BY <1>2, <3>1 DEF CountedBytes
      <4>2. Bytes(st) < cache_size
        BY <1>1, <2>1, <2>2, <4>1
      <4> QED BY <1>4, <1>9, <3>1, <4>1, <4>2 DEF SizeAfterFree
    <3>2. CASE "Init" \notin st.flags
      <4>1. CountedBytes(st) = 0
        BY <3>2 DEF CountedBytes
      <4> QED BY <1>1, <1>4, <1>9, <3>2, <4>1 DEF SizeAfterFree
    <3> QED BY <3>1, <3>2
  <2>4. state_vec' = [state_vec EXCEPT ![slot] = Null]
    BY <1>4, <1>9
  <2>5. CountedBytes(Null) = 0
    BY DEF CountedBytes
  <2>6. \A t \in Slots : state_vec'[t] = IF t = slot THEN Null ELSE state_vec[t]
    BY <1>1, <1>2, <2>4
  <2>7. ArcsFit(state_vec') /\ state_vec' \in [Slots -> CacheState \cup {Null}]
    BY <1>1, <1>2, <1>6, <2>4, <2>6 DEF ArcsFit
  <2>8. InitCounted(state_vec)'
    BY <1>1, <1>4, <1>9 DEF InitCounted
  <2>9. Cardinality(Occupied(state_vec')) =
          Cardinality(Occupied(state_vec)) - CountedBytes(state_vec[slot])
                                           + CountedBytes(state_vec'[slot])
    <3>1. Bounded(state_vec, MaxBytes) /\ Bounded(state_vec', MaxBytes) /\ MaxBytes \in Nat
      BY <1>1, <1>6, <2>7, FitsBounded
    <3>2. \A t \in Slots \ {slot} : CountedBytes(state_vec'[t]) = CountedBytes(state_vec[t])
      BY <2>6
    <3> HIDE DEF slot
    <3> QED BY <1>2, <3>1, <3>2, OccupiedUpdate
  <2>10. BookKeeping'
    <3>1. CountedBytes(state_vec'[slot]) = 0
      BY <1>2, <2>5, <2>6
    <3>2. Cardinality(Occupied(state_vec')) = cache_size - CountedBytes(st)
      BY <1>1, <1>6, <2>1, <2>9, <3>1
    <3>3. first_gc' = FALSE
      BY <1>1, <1>4
    <3> QED BY <2>3, <3>2, <3>3 DEF BookKeeping
  <2>11. AimsBelowLimit'
    <3>1. ptr' = ptr /\ ptr # slot /\ cache_limit' = cache_limit
      BY <1>4, <1>9
    <3>2. state_vec'[ptr] = state_vec[ptr]
      BY <1>1, <2>6, <3>1
    <3> QED BY <1>1, <1>5, <3>1, <3>2 DEF SizeInv, AimsBelowLimit
  <2> QED BY <1>8, <2>7, <2>8, <2>10, <2>11 DEF SizeInv
<1>10. CASE ~free
  <2> DEFINE new == [st EXCEPT !.flags = @ \ {"Recent"}]
  <2>1. /\ new \in CacheState /\ new # Null /\ new.arcs = st.arcs
        /\ ("Init" \in new.flags <=> "Init" \in st.flags)
    BY <1>2, NullAssumption DEF CacheState
  <2>2. state_vec' = [state_vec EXCEPT ![slot] = new] /\ cache_size' = cache_size
    BY <1>4, <1>10
  <2> HIDE DEF new, slot, free
  <2>3. \A t \in Slots : state_vec'[t] = IF t = slot THEN new ELSE state_vec[t]
    BY <1>1, <1>2, <2>2
  <2>4. ArcsFit(state_vec')
    BY <1>2, <1>6, <2>1, <2>3 DEF ArcsFit
  <2>5. InitCounted(state_vec)'
    BY <1>1, <1>4 DEF InitCounted
  <2>6. Occupied(state_vec') = Occupied(state_vec)
    <3>1. \A t \in Slots : CountedBytes(state_vec'[t]) = CountedBytes(state_vec[t])
      BY <1>2, <2>1, <2>3 DEF CountedBytes, Bytes
    <3> QED BY <3>1, OccupiedSame
  <2>7. BookKeeping'
    BY <1>4, <2>2, <2>6 DEF SizeInv, BookKeeping
  <2>8. AimsBelowLimit'
    BY <1>1, <1>2, <1>4, <1>5, <2>1, <2>3 DEF SizeInv, AimsBelowLimit
  <2> QED BY <1>8, <2>4, <2>5, <2>7, <2>8 DEF SizeInv
<1> QED BY <1>9, <1>10

LEMMA EmptyOccupies ==
  ASSUME NEW vec, \A t \in Slots : vec[t] = Null
  PROVE  Cardinality(Occupied(vec)) = 0
<1>1. ASSUME NEW x \in Occupied(vec) PROVE FALSE
  <2>1. PICK t \in Slots : x \in {t} \X (1 .. CountedBytes(vec[t]))
    BY OccupiedMember
  <2>2. 1 .. CountedBytes(vec[t]) = {}
    BY DEF CountedBytes
  <2> QED BY <2>1, <2>2
<1> QED BY <1>1, FS_EmptySet

LEMMA ClearSize ==
  ASSUME StoreInv, SizeInv, Clear
  PROVE  SizeInv'
<1>1. /\ state_vec' = [slot \in Slots |-> Null] /\ cache_size' = 0
      /\ UNCHANGED <<first_gc, gc_on, cache_limit, gc>> /\ ~gc.on
  BY DEF Clear
<1>2. \A t \in Slots : state_vec'[t] = Null
  BY <1>1
<1>3. ArcsFit(state_vec') /\ InitCounted(state_vec)'
  BY <1>2 DEF ArcsFit, InitCounted
<1>4. BookKeeping'
  BY <1>1, <1>2, EmptyOccupies DEF BookKeeping
<1>5. WithinLimit' /\ AimsBelowLimit' /\ (cache_limit >= 2)'
  BY <1>1 DEF SizeInv, WithinLimit, AimsBelowLimit, StoreInv, StoreTypeOK
<1> QED BY <1>3, <1>4, <1>5 DEF SizeInv

LEMMA CopyStatesSize ==
  ASSUME StoreInv, SizeInv, CopyStates
  PROVE  SizeInv'
<1>1. /\ state_vec' = [slot \in Slots |-> IF state_vec[slot] = Null THEN Null
                                      ELSE [state_vec[slot] EXCEPT !.ref = 0]]
      /\ UNCHANGED <<first_gc, gc_on, cache_size, cache_limit, gc>> /\ ~gc.on
      /\ state_vec \in [Slots -> CacheState \cup {Null}]
  BY DEF CopyStates, StoreInv, StoreTypeOK
<1>2. ASSUME NEW t \in Slots
      PROVE  /\ (state_vec'[t] = Null) <=> (state_vec[t] = Null)
             /\ state_vec[t] # Null => /\ state_vec'[t].flags = state_vec[t].flags
                                       /\ state_vec'[t].arcs = state_vec[t].arcs
  <2>1. CASE state_vec[t] = Null
    BY <1>1, <2>1
  <2>2. CASE state_vec[t] # Null
    <3>1. state_vec[t] \in CacheState
      BY <1>1, <2>2
    <3>2. state_vec'[t] = [state_vec[t] EXCEPT !.ref = 0]
      BY <1>1, <2>2
    <3>3. state_vec'[t] \in CacheState
      BY <3>1, <3>2, UpdateRef
    <3> QED BY <2>2, <3>1, <3>2, <3>3, NullAssumption DEF CacheState
  <2> QED BY <2>1, <2>2
<1>3. ArcsFit(state_vec')
  BY <1>2 DEF SizeInv, ArcsFit
<1>4. (~first_gc => InitCounted(state_vec))'
  BY <1>1, <1>2 DEF SizeInv, InitCounted
<1>5. Occupied(state_vec') = Occupied(state_vec)
  <2>1. \A t \in Slots : CountedBytes(state_vec'[t]) = CountedBytes(state_vec[t])
    BY <1>2 DEF CountedBytes, Bytes
  <2> QED BY <2>1, OccupiedSame
<1>6. BookKeeping' /\ WithinLimit' /\ AimsBelowLimit' /\ (cache_limit >= 2)'
  BY <1>1, <1>5 DEF SizeInv, BookKeeping, WithinLimit, AimsBelowLimit
<1> QED BY <1>3, <1>4, <1>6 DEF SizeInv

\* The steps of a collection that free nothing.  It ends only within the limit,
\* which Widen has doubled together with the target.
LEMMA CursorSize ==
  ASSUME StoreInv, SizeInv, SweepRecent \/ Widen \/ EndGC
  PROVE  SizeInv'
<1>1. /\ UNCHANGED <<state_vec, first_gc, gc_on, cache_size, ptr>>
      /\ gc \in GCType /\ cache_limit \in Nat /\ cache_size \in Nat /\ gc.on
      /\ gc.target \in Nat
  BY DEF StoreInv, StoreTypeOK, GCType, SweepRecent, Widen, EndGC
<1>2. /\ "Init" \in state_vec[ptr].flags
      /\ gc.target > 0 /\ gc.target <= cache_limit /\ cache_limit >= 2
  BY <1>1 DEF SizeInv, AimsBelowLimit
<1>3. ArcsFit(state_vec') /\ (~first_gc => InitCounted(state_vec))' /\ BookKeeping'
  BY <1>1 DEF SizeInv, ArcsFit, InitCounted, BookKeeping, Occupied
<1>4. CASE SweepRecent
  <2>1. gc'.target = gc.target /\ gc'.on /\ cache_limit' = cache_limit
    BY <1>1, <1>4 DEF SweepRecent, GCType
  <2> QED BY <1>1, <1>2, <1>3, <2>1 DEF SizeInv, WithinLimit, AimsBelowLimit
<1>5. CASE Widen
  <2>1. gc'.target = gc.target * 2 /\ gc'.on /\ cache_limit' = cache_limit * 2
    BY <1>1, <1>5 DEF Widen, GCType
  <2> QED BY <1>1, <1>2, <1>3, <2>1 DEF SizeInv, WithinLimit, AimsBelowLimit
<1>6. CASE EndGC
  <2>1. ~gc'.on /\ cache_limit' = cache_limit
    BY <1>6 DEF EndGC, NoGC
  <2>2. cache_size <= gc.target
    BY <1>1, <1>2, <1>6 DEF EndGC
  <2> QED BY <1>1, <1>2, <1>3, <2>1, <2>2 DEF SizeInv, WithinLimit, AimsBelowLimit
<1> QED BY <1>4, <1>5, <1>6

LEMMA StoreInitSize ==
  ASSUME StoreInit
  PROVE  SizeInv
<1>1. \A t \in Slots : state_vec[t] = Null
  BY DEF StoreInit
<1>2. ArcsFit(state_vec) /\ InitCounted(state_vec)
  BY <1>1 DEF ArcsFit, InitCounted
<1>3. BookKeeping
  BY <1>1, EmptyOccupies DEF BookKeeping, StoreInit
<1>4. WithinLimit /\ AimsBelowLimit /\ cache_limit >= 2
  BY CacheConstants DEF StoreInit, WithinLimit, AimsBelowLimit, NoGC
<1> QED BY <1>2, <1>3, <1>4 DEF SizeInv

LEMMA StoreNextSize ==
  ASSUME StoreInv, SizeInv, SizeFits, MaxExcess = 0, [StoreNext]_storeVars
  PROVE  SizeInv'
<1>1. ASSUME UNCHANGED storeVars PROVE SizeInv'
  BY <1>1 DEF storeVars, SizeInv, ArcsFit, InitCounted, BookKeeping, Occupied,
              WithinLimit, AimsBelowLimit
<1>2. ASSUME StoreNext PROVE SizeInv'
  BY <1>2, GetMutableStateSize, AddArcSize, DeleteArcsSize, MarkSize, DeleteSize,
     ClearSize, CopyStatesSize, SweepSize, CursorSize
  DEF StoreNext, GCStep
<1> QED BY <1>1, <1>2

\* The two invariants together are inductive.
THEOREM SizeInvariant ==
  ASSUME SizeFits, MaxExcess = 0
  PROVE  StoreSpec => [](StoreInv /\ SizeInv)
<1>1. StoreInit => StoreInv /\ SizeInv
  BY StoreInitInv, StoreInitSize
<1>2. StoreInv /\ SizeInv /\ [StoreNext]_storeVars => StoreInv' /\ SizeInv'
  BY StoreNextInv, StoreNextSize
<1> QED BY <1>1, <1>2, PTL DEF StoreSpec

(***************************************************************************)
(* cache_size_ is exactly what the counted states occupy, through every    *)
(* lookup, arc operation, deletion, copy and collection of GCCacheStore:   *)
(* no byte is counted twice or forgotten, and the guarded subtraction in   *)
(* GC never leaves a freed state in the count.                             *)
(***************************************************************************)
THEOREM SizeExact ==
  ASSUME SizeFits, MaxExcess = 0
  PROVE  StoreSpec => []BookKeeping
<1>1. StoreInv /\ SizeInv => BookKeeping
  BY DEF SizeInv
<1> QED BY <1>1, SizeInvariant, PTL

(***************************************************************************)
(* Whenever the client has control, the cache is within the limit of       *)
(* GCCacheStore, which a collection widens only if both passes could not   *)
(* free enough.                                                            *)
(***************************************************************************)
THEOREM LimitKept ==
  ASSUME SizeFits, MaxExcess = 0
  PROVE  StoreSpec => []WithinLimit
<1>1. StoreInv /\ SizeInv => WithinLimit
  BY DEF SizeInv
<1> QED BY <1>1, SizeInvariant, PTL
=============================================================================
