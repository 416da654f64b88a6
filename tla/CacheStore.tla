------------------------------ MODULE CacheStore ------------------------------
(***************************************************************************)
(* The default cache store of the delayed FSTs (openfst/lib/cache.h):      *)
(* GCCacheStore<FirstCacheStore<VectorCacheStore<CacheState>>>.            *)
(*                                                                         *)
(* VectorCacheStore owns the cached states (state_vec, state_list),        *)
(* FirstCacheStore keeps one reusable state in slot 0 and shifts the       *)
(* others by one, and GCCacheStore counts bytes and runs a mark-sweep      *)
(* collection.  A sweep is a sequence of steps here, one per visited       *)
(* state, so that what each of them may free can be reasoned about; no     *)
(* other operation is enabled until the sweep has ended, because the store *)
(* is used by one thread at a time.                                        *)
(***************************************************************************)
EXTENDS Integers, Sequences, FiniteSets, SequencesExt, FiniteSetsExt

CONSTANTS
  NumIds,         \* state IDs are 0 .. NumIds - 1
  Arcs,           \* the arcs that may be cached
  EpsArcs,        \* the arcs whose label is 0
  Weights,        \* final weights
  Zero,           \* Weight::Zero()
  Null,           \* nullptr in state_vec_
  Gc,             \* CacheOptions::gc
  GcLimit,        \* CacheOptions::gc_limit, in bytes
  MinCacheLimit,  \* kMinCacheLimit
  SizeofState,    \* sizeof(State)
  SizeofArc,      \* sizeof(Arc)
  SizeMod,        \* number of values of size_t
  MaxArcs,        \* bound: arcs a client adds to one state
  MaxRefs,        \* bound: references a client holds on one state
  MaxExcess       \* bound: by how much DeleteArcs(n) may exceed the arcs

ASSUME CacheConstants ==
  /\ NumIds \in Nat \ {0}
  /\ EpsArcs \subseteq Arcs
  /\ Zero \in Weights
  /\ Gc \in BOOLEAN
  /\ GcLimit \in Nat
  /\ MinCacheLimit \in Nat /\ MinCacheLimit >= 2
  /\ SizeofState \in Nat \ {0}
  /\ SizeofArc \in Nat \ {0}
  /\ SizeMod \in Nat \ {0}
  /\ MaxArcs \in Nat /\ MaxRefs \in Nat /\ MaxExcess \in Nat

NoStateId == -1
Ids == 0 .. NumIds - 1
Slots == 0 .. NumIds        \* slot 0 is the first state's, slot s + 1 is s's
CacheFlags == {"Final", "Arcs", "Init", "Recent"}

CacheState == [final : Weights, arcs : Seq(Arcs), neps : Int,
               flags : SUBSET CacheFlags, ref : Int]

ASSUME NullAssumption == Null \notin CacheState
ASSUME NullNotASlot == Null \notin Slots

VARIABLES
  state_vec,    \* VectorCacheStore::state_vec_, slot -> state or Null
  state_list,   \* VectorCacheStore::state_list_, the slots in creation order
  first_gc,     \* FirstCacheStore::cache_gc_
  first_id,     \* FirstCacheStore::cache_first_state_id_
  gc_on,        \* GCCacheStore::cache_gc_
  cache_size,   \* GCCacheStore::cache_size_
  cache_limit,  \* GCCacheStore::cache_limit_
  ptr,          \* the State* most recently returned to the client, or Null
  gc            \* the collection in progress

storeVars == <<state_vec, state_list, first_gc, first_id, gc_on,
               cache_size, cache_limit, ptr, gc>>

\* The collection is not running.
NoGC == [on |-> FALSE, pos |-> 1, recent |-> FALSE, target |-> 0]

(***************************************************************************)
(* Cached states.                                                          *)
(***************************************************************************)
FreshState == [final |-> Zero, arcs |-> <<>>, neps |-> 0, flags |-> {}, ref |-> 0]

NumEps(arcs) == Cardinality({i \in DOMAIN arcs : arcs[i] \in EpsArcs})

\* sizeof(State) + state->NumArcs() * sizeof(Arc)
Bytes(state) == SizeofState + Len(state.arcs) * SizeofArc

\* CacheState::AddArc
StateAddArc(state, arc) ==
  [state EXCEPT !.arcs = Append(@, arc),
                !.neps = IF arc \in EpsArcs THEN @ + 1 ELSE @]

\* CacheState::DeleteArcs(n)
StateDeleteArcs(state, n) ==
  LET left == IF n >= Len(state.arcs) THEN <<>>
              ELSE SubSeq(state.arcs, 1, Len(state.arcs) - n)
  IN  [state EXCEPT !.arcs = left,
                    !.neps = IF left = <<>> THEN 0
                             ELSE @ - (NumEps(state.arcs) - NumEps(left))]

(***************************************************************************)
(* VectorCacheStore and FirstCacheStore.                                   *)
(***************************************************************************)

\* The slot that holds state s if s is cached (FirstCacheStore::GetState).
SlotOf(s) == IF s = first_id THEN 0 ELSE s + 1

Stored(s) == state_vec[SlotOf(s)] # Null

\* FirstCacheStore::Value for an iterator that stands on this slot.
Value(slot) == IF slot = 0 THEN first_id ELSE slot - 1

\* FirstCacheStore::Delete: the owner of slot 0 once this slot is freed.
OwnerKept(slot) == first_id

OwnerAfterDelete(slot) == IF Value(slot) = first_id THEN NoStateId ELSE first_id

\* Slot 0 may be handed to another state.
AlwaysReusable(state) == TRUE

Reusable(state) == state.ref = 0

\* Slot 0 as it is handed to the next state: Reset, then kCacheInit.
ReusedStateUnmarked == FreshState

ReusedState == [FreshState EXCEPT !.flags = {"Init"}]

\* VectorCacheStore::GetMutableState: the state of the slot, created if needed.
VectorGet(vec, slot) == IF vec[slot] = Null THEN FreshState ELSE vec[slot]

VectorListDuplicates(vec, list, slot) == IF Gc THEN Append(list, slot) ELSE list

VectorList(vec, list, slot) ==
  IF vec[slot] = Null /\ Gc THEN Append(list, slot) ELSE list

(***************************************************************************)
(* FirstCacheStore::GetMutableState: the slot returned, and the store      *)
(* after the call.  As long as first_gc holds, slot 0 is handed from state *)
(* to state unless its reference count forbids it.                         *)
(***************************************************************************)
FirstGet(s) ==
  LET first == VectorGet(state_vec, 0)
      result(slot, state, list, fgc, fid, vec) ==
        [slot |-> slot, vec |-> [vec EXCEPT ![slot] = state], list |-> list,
         first_gc |-> fgc, first_id |-> fid]
      rest(fgc, vec) ==
        result(s + 1, VectorGet(vec, s + 1), VectorList(vec, state_list, s + 1),
               fgc, first_id, vec)
  IN  CASE first_id = s ->
             result(0, first, state_list, first_gc, first_id, state_vec)
        [] first_id # s /\ ~first_gc -> rest(FALSE, state_vec)
        [] first_id # s /\ first_gc /\ first_id = NoStateId ->
             result(0, [first EXCEPT !.flags = @ \cup {"Init"}],
                    VectorList(state_vec, state_list, 0), TRUE, s, state_vec)
        [] first_id # s /\ first_gc /\ first_id # NoStateId /\ Reusable(first) ->
             result(0, ReusedState, state_list, TRUE, s, state_vec)
        [] OTHER ->
             rest(FALSE, [state_vec EXCEPT ![0].flags = @ \ {"Init"}])

(***************************************************************************)
(* GCCacheStore.                                                           *)
(***************************************************************************)
Wrap(n) == n % SizeMod

\* cache_fraction * cache_limit_, with cache_fraction = 0.666
Target(limit) == (666 * limit) \div 1000

\* Entering GC(state, false) when the store has grown past its limit.
StartGC(size) ==
  IF size > cache_limit
  THEN [on |-> TRUE, pos |-> 1, recent |-> FALSE, target |-> Target(cache_limit)]
  ELSE NoGC

\* GCCacheStore::GetMutableState(s); the state returned is then *ptr.
GetMutableState(s) ==
  LET f     == FirstGet(s)
      state == f.vec[f.slot]
      init  == Gc /\ "Init" \notin state.flags
      size  == IF init THEN Wrap(cache_size + Bytes(state)) ELSE cache_size
  IN  /\ ~gc.on
      /\ state_vec' = IF init THEN [f.vec EXCEPT ![f.slot].flags = @ \cup {"Init"}]
                              ELSE f.vec
      /\ state_list' = f.list
      /\ first_gc' = f.first_gc
      /\ first_id' = f.first_id
      /\ gc_on' = (gc_on \/ init)
      /\ cache_size' = size
      /\ ptr' = f.slot
      /\ gc' = IF init THEN StartGC(size) ELSE gc
      /\ UNCHANGED cache_limit

\* GC frees a state that is not in use and, unless free_recent, not recent.
MayFreeReferenced(state, slot) ==
  cache_size > gc.target /\ (gc.recent \/ "Recent" \notin state.flags) /\ slot # ptr

MayFree(state, slot) ==
  /\ cache_size > gc.target
  /\ state.ref = 0
  /\ gc.recent \/ "Recent" \notin state.flags
  /\ slot # ptr

\* cache_size_ once GC has freed this state.
SizeWithoutArcs(state) == cache_size - SizeofState

SizeAfterFree(state) ==
  IF "Init" \in state.flags /\ Bytes(state) < cache_size
  THEN cache_size - Bytes(state) ELSE cache_size

(***************************************************************************)
(* One iteration of the loop of GC: the state at the iterator is freed, or *)
(* its Recent flag is cleared.  The lookup of the state goes through       *)
(* FirstCacheStore::GetMutableState.                                       *)
(***************************************************************************)
Sweep ==
  /\ gc.on /\ gc.pos <= Len(state_list)
  /\ LET slot  == state_list[gc.pos]
         f     == FirstGet(Value(slot))
         state == f.vec[f.slot]
         free  == MayFree(state, f.slot)
     IN  /\ state_vec' = IF free THEN [f.vec EXCEPT ![slot] = Null]
                         ELSE [f.vec EXCEPT ![f.slot].flags = @ \ {"Recent"}]
         /\ state_list' = IF free THEN RemoveAt(f.list, gc.pos) ELSE f.list
         /\ first_id' = IF free THEN OwnerAfterDelete(slot) ELSE f.first_id
         /\ first_gc' = f.first_gc
         /\ cache_size' = IF free THEN SizeAfterFree(state) ELSE cache_size
         /\ gc' = IF free THEN gc ELSE [gc EXCEPT !.pos = @ + 1]
         /\ UNCHANGED <<gc_on, cache_limit, ptr>>

SweepRecentAgain ==
  /\ gc.on /\ gc.pos > Len(state_list)
  /\ ~gc.recent /\ cache_size > gc.target
  /\ gc' = [gc EXCEPT !.pos = 1]
  /\ UNCHANGED <<state_vec, state_list, first_gc, first_id, gc_on,
                 cache_size, cache_limit, ptr>>

\* The first pass did not free enough: a second one takes recent states too.
SweepRecent ==
  /\ gc.on /\ gc.pos > Len(state_list)
  /\ ~gc.recent /\ cache_size > gc.target
  /\ gc' = [gc EXCEPT !.recent = TRUE, !.pos = 1]
  /\ UNCHANGED <<state_vec, state_list, first_gc, first_id, gc_on,
                 cache_size, cache_limit, ptr>>

WidenTargetOnly ==
  /\ gc.on /\ gc.pos > Len(state_list)
  /\ gc.recent /\ gc.target > 0 /\ cache_size > gc.target
  /\ gc' = [gc EXCEPT !.target = @ * 2]
  /\ UNCHANGED <<state_vec, state_list, first_gc, first_id, gc_on, cache_size,
                 cache_limit, ptr>>

\* Both passes did not free enough: the limit is doubled until the size fits.
Widen ==
  /\ gc.on /\ gc.pos > Len(state_list)
  /\ gc.recent /\ gc.target > 0 /\ cache_size > gc.target
  /\ cache_limit' = cache_limit * 2
  /\ gc' = [gc EXCEPT !.target = @ * 2]
  /\ UNCHANGED <<state_vec, state_list, first_gc, first_id, gc_on, cache_size, ptr>>

EndGC ==
  /\ gc.on /\ gc.pos > Len(state_list)
  /\ cache_size <= gc.target \/ (gc.recent /\ gc.target = 0)
  /\ gc' = NoGC
  /\ UNCHANGED <<state_vec, state_list, first_gc, first_id, gc_on,
                 cache_size, cache_limit, ptr>>

GCStep == Sweep \/ SweepRecent \/ Widen \/ EndGC

(***************************************************************************)
(* The operations a client performs on *ptr, and on the store.             *)
(***************************************************************************)

\* cache_gc_ && (state->Flags() & kCacheInit)
Counted(state) == gc_on /\ "Init" \in state.flags

\* GCCacheStore::AddArc
AddArc(arc) ==
  /\ ~gc.on /\ ptr # Null
  /\ Len(state_vec[ptr].arcs) < MaxArcs
  /\ LET state == StateAddArc(state_vec[ptr], arc)
         size  == IF Counted(state) THEN Wrap(cache_size + SizeofArc) ELSE cache_size
     IN  /\ state_vec' = [state_vec EXCEPT ![ptr] = state]
         /\ cache_size' = size
         /\ gc' = IF Counted(state) THEN StartGC(size) ELSE gc
  /\ UNCHANGED <<state_list, first_gc, first_id, gc_on, cache_limit, ptr>>

\* GCCacheStore::DeleteArcs(state), which drops every arc
DeleteAllArcs ==
  /\ ~gc.on /\ ptr # Null
  /\ LET state == state_vec[ptr]
     IN  /\ cache_size' = IF Counted(state)
                          THEN Wrap(cache_size - Len(state.arcs) * SizeofArc)
                          ELSE cache_size
         /\ state_vec' = [state_vec EXCEPT ![ptr].arcs = <<>>, ![ptr].neps = 0]
  /\ UNCHANGED <<state_list, first_gc, first_id, gc_on, cache_limit, ptr, gc>>

\* GCCacheStore::DeleteArcs(state, n)
DeleteArcs(n) ==
  /\ ~gc.on /\ ptr # Null
  /\ n <= Len(state_vec[ptr].arcs) + MaxExcess
  /\ LET state == state_vec[ptr]
     IN  /\ cache_size' = IF Counted(state) THEN Wrap(cache_size - n * SizeofArc)
                          ELSE cache_size
         /\ state_vec' = [state_vec EXCEPT ![ptr] = StateDeleteArcs(state, n)]
  /\ UNCHANGED <<state_list, first_gc, first_id, gc_on, cache_limit, ptr, gc>>

\* A visit of a cached state: state->SetFlags(kCacheRecent, kCacheRecent)
SetRecent(slot) ==
  state_vec' = [state_vec EXCEPT ![slot].flags = @ \cup {"Recent"}]

Visit(s) ==
  /\ ~gc.on /\ Stored(s)
  /\ SetRecent(SlotOf(s))
  /\ UNCHANGED <<state_list, first_gc, first_id, gc_on, cache_size, cache_limit, ptr, gc>>

\* CacheState::IncrRefCount and DecrRefCount
IncrRef(s) ==
  /\ ~gc.on /\ Stored(s) /\ state_vec[SlotOf(s)].ref < MaxRefs
  /\ state_vec' = [state_vec EXCEPT ![SlotOf(s)].ref = @ + 1]
  /\ UNCHANGED <<state_list, first_gc, first_id, gc_on, cache_size, cache_limit, ptr, gc>>

DecrRef(s) ==
  /\ ~gc.on /\ Stored(s) /\ state_vec[SlotOf(s)].ref > 0
  /\ state_vec' = [state_vec EXCEPT ![SlotOf(s)].ref = @ - 1]
  /\ UNCHANGED <<state_list, first_gc, first_id, gc_on, cache_size, cache_limit, ptr, gc>>

\* GCCacheStore::Clear; the client holds no reference any more
Clear ==
  /\ ~gc.on
  /\ \A slot \in Slots : state_vec[slot] # Null => state_vec[slot].ref = 0
  /\ state_vec' = [slot \in Slots |-> Null]
  /\ state_list' = <<>>
  /\ first_id' = NoStateId
  /\ cache_size' = 0
  /\ ptr' = Null
  /\ UNCHANGED <<first_gc, gc_on, cache_limit, gc>>

\* GCCacheStore::Delete with the store's iterator on a state nobody refers to
Delete(pos) ==
  /\ ~gc.on /\ pos \in DOMAIN state_list /\ state_vec[state_list[pos]].ref = 0
  /\ LET slot  == state_list[pos]
         state == state_vec[slot]
     IN  /\ cache_size' = IF Counted(state) THEN Wrap(cache_size - Bytes(state))
                          ELSE cache_size
         /\ state_vec' = [state_vec EXCEPT ![slot] = Null]
         /\ state_list' = RemoveAt(state_list, pos)
         /\ first_id' = OwnerAfterDelete(slot)
         /\ ptr' = IF ptr = slot THEN Null ELSE ptr
  /\ UNCHANGED <<first_gc, gc_on, cache_limit, gc>>

\* The sequence of the elements of S in ascending order, as a singleton set.
Ascending(S) ==
  {q \in [1 .. Cardinality(S) -> S] :
     /\ Range(q) = S
     /\ \A i, j \in DOMAIN q : i < j => q[i] < q[j]}

(***************************************************************************)
(* The client continues with a copy of the store: the states are copied in *)
(* the order of the vector (CopyStates) and nobody refers to the copies.   *)
(***************************************************************************)
CopyStates ==
  /\ ~gc.on
  /\ state_vec' = [slot \in Slots |-> IF state_vec[slot] = Null THEN Null
                                      ELSE [state_vec[slot] EXCEPT !.ref = 0]]
  /\ \E list \in Ascending({t \in Slots : state_vec[t] # Null}) :
        state_list' = IF Gc THEN list ELSE <<>>
  /\ ptr' = Null
  /\ UNCHANGED <<first_gc, first_id, gc_on, cache_size, cache_limit, gc>>

StoreInit ==
  /\ state_vec = [slot \in Slots |-> Null]
  /\ state_list = <<>>
  /\ first_gc = (GcLimit = 0)
  /\ first_id = NoStateId
  /\ gc_on = FALSE
  /\ cache_size = 0
  /\ cache_limit = IF GcLimit > MinCacheLimit THEN GcLimit ELSE MinCacheLimit
  /\ ptr = Null
  /\ gc = NoGC

StoreNext ==
  \/ \E s \in Ids : GetMutableState(s)
  \/ \E s \in Ids : Visit(s) \/ IncrRef(s) \/ DecrRef(s)
  \/ \E arc \in Arcs : AddArc(arc)
  \/ DeleteAllArcs
  \/ \E n \in 1 .. MaxArcs + MaxExcess : DeleteArcs(n)
  \/ \E pos \in 1 .. NumIds + 1 : Delete(pos)
  \/ Clear
  \/ CopyStates
  \/ GCStep

StoreSpec == StoreInit /\ [][StoreNext]_storeVars /\ WF_storeVars(GCStep)

(***************************************************************************)
(* Properties.                                                             *)
(***************************************************************************)
StoreTypeOK ==
  /\ state_vec \in [Slots -> CacheState \cup {Null}]
  /\ state_list \in Seq(Slots)
  /\ first_gc \in BOOLEAN
  /\ first_id \in Ids \cup {NoStateId}
  /\ gc_on \in BOOLEAN
  /\ cache_size \in Nat
  /\ cache_limit \in Nat \ {0}
  /\ ptr \in Slots \cup {Null}
  /\ gc \in [on : BOOLEAN, pos : Nat \ {0}, recent : BOOLEAN, target : Nat]

\* The state whose pointer the client (or the collector) still uses is alive.
PtrIsStored == ptr # Null => state_vec[ptr] # Null

(***************************************************************************)
(* The two collection schemes exclude each other.  While slot 0 is still   *)
(* being handed from state to state, it is the only one in use and the     *)
(* mark-sweep collector, whose loop looks states up through                *)
(* FirstCacheStore::GetMutableState, is off; a lookup in that loop would   *)
(* otherwise overwrite slot 0.                                             *)
(***************************************************************************)
FirstSlotExclusive ==
  /\ gc_on => ~first_gc
  /\ gc.on => gc_on /\ ptr # Null
  /\ first_gc => \A slot \in Slots \ {0} : state_vec[slot] = Null
  /\ first_gc /\ state_vec[0] # Null => "Init" \in state_vec[0].flags

(***************************************************************************)
(* No state is cached twice, and slot 0 is in use exactly when it has an   *)
(* owner: the entry of first_id in the shifted part of the vector is       *)
(* empty.                                                                  *)
(***************************************************************************)
NoAlias ==
  /\ (first_id = NoStateId) = (state_vec[0] = Null)
  /\ first_id # NoStateId => state_vec[first_id + 1] = Null

(***************************************************************************)
(* The list that the collector walks names each cached state exactly once  *)
(* (cached states that are not in it could never be freed, and a stale     *)
(* entry would be a dangling pointer).                                     *)
(***************************************************************************)
ListMatchesVector ==
  Gc => /\ \A slot \in Slots : (state_vec[slot] # Null) = (slot \in Range(state_list))
        /\ IsInjective(state_list)

\* What an initialised state occupies, and the bytes of all of them: the
\* elements of Occupied are pairs of a slot and a byte of its state.
CountedBytes(state) ==
  IF state # Null /\ "Init" \in state.flags THEN Bytes(state) ELSE 0

Occupied(vec) == UNION {{slot} \X (1 .. CountedBytes(vec[slot])) : slot \in Slots}

(***************************************************************************)
(* cache_size_ is what the initialised states really occupy; it stays zero *)
(* as long as only slot 0 is in use.                                       *)
(***************************************************************************)
BookKeeping ==
  cache_size = IF first_gc THEN 0 ELSE Cardinality(Occupied(state_vec))

\* Whenever the client runs, the store is within its (possibly widened) limit.
WithinLimit == ~gc.on => cache_size <= cache_limit

(***************************************************************************)
(* The reference count protects a state: as long as it is positive, no     *)
(* step frees it, gives its memory to another state, or moves it.          *)
(***************************************************************************)
PinnedSurvives ==
  [][ \A s \in Ids :
        /\ Stored(s) /\ state_vec[SlotOf(s)].ref > 0
        /\ ~CopyStates
        => Stored(s)' /\ SlotOf(s)' = SlotOf(s) ]_storeVars

\* A collection that has started ends: the client gets control back.
GCTerminates == gc.on ~> ~gc.on

===============================================================================
