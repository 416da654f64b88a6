------------------------------ MODULE DelayedFst ------------------------------
(***************************************************************************)
(* A delayed FST: CacheBaseImpl (openfst/lib/cache.h) on top of the cache  *)
(* store, driven by the Start, Final, NumArcs, InitArcIterator and Expand  *)
(* of ComposeFstImplBase (openfst/lib/compose.h), which the other delayed  *)
(* FSTs repeat.  RefArcs, RefFinal and RefStart are what the operation     *)
(* computes for a state.                                                   *)
(*                                                                         *)
(* One thread runs the FST.  A call that has to fill the cache is a        *)
(* sequence of steps, because each call of the store's GetMutableState and *)
(* SetArcs may run a collection; op is what is left of the call.  Between  *)
(* calls the client opens and closes arc iterators, queries states, copies *)
(* the FST, and runs a state iterator.                                     *)
(***************************************************************************)
EXTENDS CacheStore

CONSTANTS
  RefStart,     \* ComputeStart()
  RefArcs,      \* the arcs that Expand(s) pushes
  RefFinal,     \* ComputeFinal(s)
  NextState,    \* arc -> its nextstate
  Iters,        \* arc iterators of the client
  StateIter     \* the arc iterator inside CacheStateIterator::Done

ASSUME DelayedConstants ==
  /\ RefStart \in Ids \cup {NoStateId}
  /\ RefArcs \in [Ids -> Seq(Arcs)]
  /\ RefFinal \in [Ids -> Weights]
  /\ NextState \in [Arcs -> Ids]
  /\ IsFiniteSet(Iters) /\ StateIter \notin Iters
  /\ Null \notin Iters \cup {StateIter}

AllIters == Iters \cup {StateIter}

VARIABLES
  has_start, cache_start,  \* CacheBaseImpl::has_start_, cache_start_
  nknown_states,           \* CacheBaseImpl::nknown_states_
  expanded_states,         \* CacheBaseImpl::expanded_states_
  min_unexpanded,          \* CacheBaseImpl::min_unexpanded_state_id_
  max_expanded,            \* CacheBaseImpl::max_expanded_state_id_
  op,                      \* the call in progress
  iters,                   \* arc iterator -> its state ID and slot
  siter,                   \* the CacheStateIterator
  answer                   \* what the query just made returned

implVars == <<has_start, cache_start, nknown_states, expanded_states,
              min_unexpanded, max_expanded>>
clientVars == <<iters, siter, answer>>
vars == <<storeVars, implVars, op, clientVars>>

NoOp == [name |-> "none"]
NoIter == [s |-> NoStateId, slot |-> Null]
NoSIter == [on |-> FALSE, s |-> 0, u |-> NoStateId]

NoAnswer == [query |-> "none"]

\* The client may call: nothing is in progress, not even inside Done().
Idle == op = NoOp /\ ~gc.on /\ siter.u = NoStateId

\* CacheBaseImpl::HasFinal and HasArcs, whose side effect is SetRecent.
HasAnyFlag(s, flag) == Stored(s) /\ state_vec[SlotOf(s)].flags # {}

HasFlag(s, flag) == Stored(s) /\ flag \in state_vec[SlotOf(s)].flags

IncrRefOf(slot, vec) == [vec EXCEPT ![slot].ref = @ + 1]

Recent(slot) == [state_vec EXCEPT ![slot].flags = @ \cup {"Recent"}]

\* A call that still has to run function f; stage get is its GetMutableState.
Call(name, s, it, f) == [name |-> name, s |-> s, it |-> it, f |-> f, stage |-> "get", i |-> 1]

\* The first function of Expand(s).
ExpandFrom(s) == IF RefArcs[s] = <<>> THEN "SetArcs" ELSE "PushArc"

(***************************************************************************)
(* CacheBaseImpl's own state.                                              *)
(***************************************************************************)
Known(s, n) == IF s >= n THEN s + 1 ELSE n

\* UpdateNumKnownStates for the next state of each arc
KnownArcsNone(arcs, n) == n

KnownArcs(arcs, n) == Max({n} \cup {NextState[arc] + 1 : arc \in Range(arcs)})

Tracking == Gc \/ GcLimit = 0

\* CacheBaseImpl::SetExpandedState
MarkExpanded(list, s) ==
  [i \in 1 .. IF Len(list) <= s THEN s + 1 ELSE Len(list) |->
     IF i = s + 1 THEN TRUE ELSE i <= Len(list) /\ list[i]]

SetExpandedUnmarked(s) ==
  /\ max_expanded' = IF s > max_expanded THEN s ELSE max_expanded
  /\ expanded_states' = [i \in 1 .. Max({s + 1, Len(expanded_states)}) |-> FALSE]
  /\ UNCHANGED min_unexpanded

SetExpandedState(s) ==
  /\ max_expanded' = IF s > max_expanded THEN s ELSE max_expanded
  /\ min_unexpanded' = IF s = min_unexpanded THEN min_unexpanded + 1 ELSE min_unexpanded
  /\ expanded_states' = IF s >= min_unexpanded /\ Tracking
                        THEN MarkExpanded(expanded_states, s) ELSE expanded_states

\* CacheBaseImpl::ExpandedState, for a store created by this object
ExpandedState(s) == IF Tracking THEN expanded_states[s + 1] ELSE Stored(s)

\* CacheBaseImpl::MinUnexpandedState
MinUnexpandedState ==
  CHOOSE u \in min_unexpanded .. Max({min_unexpanded, max_expanded + 1}) :
    /\ \A v \in min_unexpanded .. u - 1 : ExpandedState(v)
    /\ u > max_expanded \/ ~ExpandedState(u)

(***************************************************************************)
(* The calls of the client.                                                *)
(***************************************************************************)
FinalOf(s) == [query |-> "Final", s |-> s, weight |-> state_vec[SlotOf(s)].final]

NumArcsOf(s) == [query |-> "NumArcs", s |-> s, narcs |-> Len(state_vec[SlotOf(s)].arcs),
                 neps |-> state_vec[SlotOf(s)].neps]

\* ComposeFstImplBase::Start with CacheBaseImpl::SetStart
ForceStart ==
  IF has_start \/ RefStart = NoStateId
  THEN UNCHANGED <<has_start, cache_start, nknown_states>>
  ELSE /\ has_start' = TRUE
       /\ cache_start' = RefStart
       /\ nknown_states' = Known(RefStart, nknown_states)

Start ==
  /\ Idle /\ ForceStart
  /\ answer' = NoAnswer
  /\ UNCHANGED <<storeVars, expanded_states, min_unexpanded, max_expanded, op, iters, siter>>

StoreRest == <<state_list, first_gc, first_id, gc_on, cache_size, cache_limit, ptr, gc>>

Final(s) ==
  /\ Idle
  /\ IF HasFlag(s, "Final")
     THEN /\ state_vec' = Recent(SlotOf(s))
          /\ answer' = FinalOf(s)
          /\ UNCHANGED <<StoreRest, op>>
     ELSE /\ op' = Call("Final", s, Null, "SetFinal")
          /\ answer' = NoAnswer
          /\ UNCHANGED storeVars
  /\ UNCHANGED <<implVars, iters, siter>>

NumArcs(s) ==
  /\ Idle
  /\ IF HasFlag(s, "Arcs")
     THEN /\ state_vec' = Recent(SlotOf(s))
          /\ answer' = NumArcsOf(s)
          /\ UNCHANGED <<StoreRest, op>>
     ELSE /\ op' = Call("NumArcs", s, Null, ExpandFrom(s))
          /\ answer' = NoAnswer
          /\ UNCHANGED storeVars
  /\ UNCHANGED <<implVars, iters, siter>>

\* The generic arc iterator: expands if needed, then takes the reference.
InitArcIterator(it, s) ==
  /\ Idle /\ iters[it] = NoIter
  /\ IF HasFlag(s, "Arcs")
     THEN /\ state_vec' = IncrRefOf(SlotOf(s), Recent(SlotOf(s)))
          /\ iters' = [iters EXCEPT ![it] = [s |-> s, slot |-> SlotOf(s)]]
          /\ UNCHANGED <<StoreRest, op>>
     ELSE /\ op' = Call("InitArcIterator", s, it, ExpandFrom(s))
          /\ UNCHANGED <<storeVars, iters>>
  /\ answer' = NoAnswer
  /\ UNCHANGED <<implVars, siter>>

\* ArcIterator<ComposeFst>: takes the reference first, then expands if needed.
ArcIterator(it, s) ==
  /\ Idle /\ iters[it] = NoIter
  /\ op' = Call("ArcIterator", s, it, "Pin")
  /\ answer' = NoAnswer
  /\ UNCHANGED <<storeVars, implVars, iters, siter>>

\* The iterator is destroyed.
CloseIterLeaks(it) ==
  /\ Idle /\ iters[it] # NoIter
  /\ iters' = [iters EXCEPT ![it] = NoIter]
  /\ answer' = NoAnswer
  /\ UNCHANGED <<storeVars, implVars, op, siter>>

CloseIter(it) ==
  /\ Idle /\ iters[it] # NoIter
  /\ state_vec' = [state_vec EXCEPT ![iters[it].slot].ref = @ - 1]
  /\ iters' = [iters EXCEPT ![it] = NoIter]
  /\ answer' = NoAnswer
  /\ UNCHANGED <<StoreRest, implVars, op, siter>>

\* CacheBaseImpl(impl, preserve_cache = true): the client goes on with the copy.
CopyFst ==
  /\ Idle
  /\ CopyStates
  /\ iters' = [it \in AllIters |-> NoIter]
  /\ siter' = NoSIter
  /\ answer' = NoAnswer
  /\ UNCHANGED <<implVars, op>>

(***************************************************************************)
(* The steps of a call that fills the cache.                               *)
(***************************************************************************)
Acting(f) == op # NoOp /\ ~gc.on /\ op.f = f /\ op.stage = "act"

Lookup ==
  /\ op # NoOp /\ op.stage = "get"
  /\ GetMutableState(op.s)
  /\ op' = [op EXCEPT !.stage = "act"]
  /\ UNCHANGED <<implVars, clientVars>>

SetFinalUnflagged ==
  /\ Acting("SetFinal")
  /\ state_vec' = [state_vec EXCEPT ![ptr].final = RefFinal[op.s]]
  /\ op' = [op EXCEPT !.f = "Return"]
  /\ UNCHANGED <<StoreRest, implVars, clientVars>>

\* CacheBaseImpl::SetFinal after its lookup
SetFinal ==
  /\ Acting("SetFinal")
  /\ state_vec' = [state_vec EXCEPT ![ptr].final = RefFinal[op.s],
                                    ![ptr].flags = @ \cup {"Final", "Recent"}]
  /\ op' = [op EXCEPT !.f = "Return"]
  /\ UNCHANGED <<StoreRest, implVars, clientVars>>

\* The constructor of CacheArcIterator, and HasArcs
Pin ==
  /\ Acting("Pin")
  /\ LET has == "Arcs" \in state_vec[ptr].flags
     IN  /\ state_vec' = IncrRefOf(ptr, IF has THEN Recent(ptr) ELSE state_vec)
         /\ op' = IF has THEN NoOp ELSE Call(op.name, op.s, op.it, ExpandFrom(op.s))
  /\ iters' = [iters EXCEPT ![op.it] = [s |-> op.s, slot |-> ptr]]
  /\ UNCHANGED <<StoreRest, implVars, siter, answer>>

\* CacheBaseImpl::PushArc after its lookup; the last one is followed by SetArcs
PushArc ==
  /\ Acting("PushArc")
  /\ state_vec' = [state_vec EXCEPT ![ptr].arcs = Append(@, RefArcs[op.s][op.i])]
  /\ op' = IF op.i < Len(RefArcs[op.s])
           THEN [op EXCEPT !.stage = "get", !.i = @ + 1]
           ELSE [op EXCEPT !.stage = "get", !.f = "SetArcs"]
  /\ UNCHANGED <<StoreRest, implVars, clientVars>>

SetArcsUncounted ==
  /\ Acting("SetArcs")
  /\ state_vec' = [state_vec EXCEPT ![ptr].neps = @ + NumEps(state_vec[ptr].arcs)]
  /\ op' = [op EXCEPT !.f = "MarkArcs"]
  /\ UNCHANGED <<StoreRest, implVars, clientVars>>

\* GCCacheStore::SetArcs
SetArcs ==
  /\ Acting("SetArcs")
  /\ LET state == state_vec[ptr]
         size  == IF Counted(state)
                  THEN Wrap(cache_size + Len(state.arcs) * SizeofArc) ELSE cache_size
     IN  /\ state_vec' = [state_vec EXCEPT ![ptr].neps = @ + NumEps(state.arcs)]
         /\ cache_size' = size
         /\ gc' = IF Counted(state) THEN StartGC(size) ELSE gc
  /\ op' = [op EXCEPT !.f = "MarkArcs"]
  /\ UNCHANGED <<state_list, first_gc, first_id, gc_on, cache_limit, ptr,
                 implVars, clientVars>>

\* The rest of CacheBaseImpl::SetArcs
MarkArcs ==
  /\ Acting("MarkArcs")
  /\ nknown_states' = KnownArcs(state_vec[ptr].arcs, nknown_states)
  /\ SetExpandedState(op.s)
  /\ state_vec' = [state_vec EXCEPT ![ptr].flags = @ \cup {"Arcs", "Recent"}]
  /\ op' = IF op.name = "ArcIterator" THEN NoOp ELSE [op EXCEPT !.f = "Return"]
  /\ UNCHANGED <<StoreRest, has_start, cache_start, clientVars>>

\* The call looks the state up again (CacheBaseImpl::Final, NumArcs,
\* InitArcIterator) and returns.
ReturnAnswer ==
  /\ Acting("Return") /\ op.name \in {"Final", "NumArcs"}
  /\ answer' = IF op.name = "Final" THEN FinalOf(op.s) ELSE NumArcsOf(op.s)
  /\ op' = NoOp
  /\ UNCHANGED <<storeVars, implVars, iters, siter>>

ReturnIter ==
  /\ Acting("Return") /\ op.name = "InitArcIterator"
  /\ state_vec' = IncrRefOf(SlotOf(op.s), state_vec)
  /\ iters' = [iters EXCEPT ![op.it] = [s |-> op.s, slot |-> SlotOf(op.s)]]
  /\ op' = NoOp
  /\ UNCHANGED <<StoreRest, implVars, siter, answer>>

\* A step of the collection that a lookup or SetArcs has started
Collect == GCStep /\ UNCHANGED <<implVars, op, clientVars>>

CallStep ==
  \/ Lookup \/ SetFinal \/ Pin \/ PushArc \/ SetArcs \/ MarkArcs
  \/ ReturnAnswer \/ ReturnIter \/ Collect

(***************************************************************************)
(* CacheStateIterator.                                                     *)
(***************************************************************************)
NewStateIterator ==
  /\ Idle /\ ~siter.on
  /\ ForceStart
  /\ siter' = [on |-> TRUE, s |-> 0, u |-> NoStateId]
  /\ answer' = NoAnswer
  /\ UNCHANGED <<storeVars, expanded_states, min_unexpanded, max_expanded, op, iters>>

\* Done() is false at once: the loop body runs on Value(), then Next().
SIterNext ==
  /\ Idle /\ siter.on /\ siter.s < nknown_states
  /\ siter' = [siter EXCEPT !.s = @ + 1]
  /\ answer' = NoAnswer
  /\ UNCHANGED <<storeVars, implVars, op, iters>>

\* Done() expands the smallest state that was never expanded...
SIterExpand ==
  /\ Idle /\ siter.on /\ siter.s >= nknown_states
  /\ MinUnexpandedState < nknown_states
  /\ min_unexpanded' = MinUnexpandedState
  /\ siter' = [siter EXCEPT !.u = MinUnexpandedState]
  /\ op' = Call("ArcIterator", MinUnexpandedState, StateIter, "Pin")
  /\ answer' = NoAnswer
  /\ UNCHANGED <<storeVars, has_start, cache_start, nknown_states, expanded_states,
                 max_expanded, iters>>

\* ...and walks its arcs, then destroys its arc iterator.
SIterScan ==
  /\ op = NoOp /\ ~gc.on /\ siter.u # NoStateId
  /\ nknown_states' = KnownArcs(state_vec[iters[StateIter].slot].arcs, nknown_states)
  /\ SetExpandedState(siter.u)
  /\ state_vec' = [state_vec EXCEPT ![iters[StateIter].slot].ref = @ - 1]
  /\ iters' = [iters EXCEPT ![StateIter] = NoIter]
  /\ siter' = [siter EXCEPT !.u = NoStateId]
  /\ UNCHANGED <<StoreRest, has_start, cache_start, op, answer>>

\* Done() is true: every state was visited.
SIterDone ==
  /\ Idle /\ siter.on /\ siter.s >= nknown_states
  /\ MinUnexpandedState >= nknown_states
  /\ min_unexpanded' = MinUnexpandedState
  /\ siter' = NoSIter
  /\ answer' = NoAnswer
  /\ UNCHANGED <<storeVars, has_start, cache_start, nknown_states, expanded_states,
                 max_expanded, op, iters>>

SIterStep == SIterNext \/ SIterExpand \/ SIterScan \/ SIterDone

DelayedInit ==
  /\ StoreInit
  /\ has_start = FALSE /\ cache_start = NoStateId
  /\ nknown_states = 0 /\ expanded_states = <<>>
  /\ min_unexpanded = 0 /\ max_expanded = -1
  /\ op = NoOp
  /\ iters = [it \in AllIters |-> NoIter]
  /\ siter = NoSIter
  /\ answer = NoAnswer

\* A client asks about a state only if the FST has returned its ID or a larger
\* one (docs/conventions.md): from Start or as the next state of an arc.
KnownIds == 0 .. nknown_states - 1

ClientCall ==
  \/ Start
  \/ \E s \in KnownIds : Final(s) \/ NumArcs(s)
  \/ \E it \in Iters, s \in KnownIds : InitArcIterator(it, s) \/ ArcIterator(it, s)
  \/ \E it \in Iters : CloseIter(it)
  \/ CopyFst
  \/ NewStateIterator

DelayedNext == ClientCall \/ CallStep \/ SIterStep

(***************************************************************************)
(* A call that has begun runs to its end.  A loop over a state iterator    *)
(* goes on: the client's calls in its body return, and then the loop calls *)
(* Next() and Done() again; as other calls come in between, this is strong *)
(* fairness.                                                               *)
(***************************************************************************)
DelayedSpec ==
  /\ DelayedInit /\ [][DelayedNext]_vars
  /\ WF_vars(CallStep)
  /\ SF_vars(SIterStep)

(***************************************************************************)
(* Properties.                                                             *)
(***************************************************************************)
(***************************************************************************)
(* The reference count of a cached state is the number of iterators on it: *)
(* more would pin it for ever, fewer would let it be freed under an        *)
(* iterator.                                                               *)
(***************************************************************************)
RefsAreIterators ==
  \A slot \in Slots : state_vec[slot] # Null =>
    state_vec[slot].ref = Cardinality({it \in AllIters : iters[it].slot = slot})

(***************************************************************************)
(* A call that has filled the cache finds the state again when it returns: *)
(* the collection that ran in between has not freed it.                    *)
(***************************************************************************)
ReturnFinds ==
  op # NoOp /\ op.f = "Return" /\ ~gc.on =>
    HasFlag(op.s, IF op.name = "Final" THEN "Final" ELSE "Arcs")

\* PushArc delays the book-keeping: outside of Expand it is exact.
DelayedBookKeeping == op = NoOp /\ ~gc.on => BookKeeping

\* The states that a path from the start state leads to: those that are in every
\* set that has the start state and the next states of its members.
Closed(S) ==
  /\ {RefStart} \cap Ids \subseteq S
  /\ \A s \in S : \A arc \in Range(RefArcs[s]) : NextState[arc] \in S

Reachable == {s \in Ids : \A S \in SUBSET Ids : Closed(S) => s \in S}

\* A state iterator that is done has returned every reachable state.
IterationComplete ==
  [][ SIterDone => Reachable \subseteq 0 .. siter.s - 1 ]_vars

\* A state iteration ends, also when the states it expanded are freed again.
IterationEnds == siter.on ~> ~siter.on

(***************************************************************************)
(* The FST as its client sees it: an iterator counts as open from the      *)
(* return of the call that opens it, and shows the arcs found in memory.   *)
(***************************************************************************)
Ready(it) == /\ iters[it].slot # Null
             /\ op = NoOp \/ op.it # it
             /\ it # StateIter

Plain == INSTANCE PlainFst WITH
  States <- Ids, None <- NoStateId, Iterators <- Iters,
  ArcsOf <- RefArcs, WeightOf <- RefFinal,
  EpsOf <- [s \in Ids |-> NumEps(RefArcs[s])],
  open <- [it \in Iters |-> IF Ready(it) THEN iters[it].s ELSE NoStateId],
  seen <- [it \in Iters |-> IF Ready(it) /\ state_vec[iters[it].slot] # Null
                            THEN state_vec[iters[it].slot].arcs ELSE <<>>]

\* The delayed FST implements the FST that the operation defines.
ImplementsPlain == Plain!PlainSpec
===============================================================================
