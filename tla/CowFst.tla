------------------------------- MODULE CowFst -------------------------------
(***************************************************************************)
(* Copy-on-write: ImplToFst and ImplToMutableFst (impl-to-fst.h,           *)
(* mutable-fst.h) as VectorFst uses them.  Copying an FST object copies    *)
(* its pointer to the implementation; a mutator first makes sure that no   *)
(* other object shares the implementation (MutateCheck).                   *)
(*                                                                         *)
(* VectorFst is thread-compatible: each object (a handle) is used by one   *)
(* thread at a time, so a handle runs at most one call, but calls on       *)
(* different handles interleave, also while they share an implementation.  *)
(* A call is a sequence of steps; pc names the next one.                   *)
(*                                                                         *)
(* A machine is an opaque value here.  Truth gives the facts true of it;   *)
(* that a mutator leaves only true bits behind is what VectorFst is about. *)
(***************************************************************************)
CONSTANTS
    Handles,         \* VectorFst objects
    Impls,           \* addresses of VectorFstImpl objects
    Values,          \* machines
    Empty,           \* the machine without states
    Facts,           \* property bits other than kError
    Truth,           \* machine -> the facts true of it
    None,            \* nullptr
    IterAcrossCopy   \* may an FST be copied while a mutable iterator is open?

ASSUME CowConstants ==
    /\ Empty \in Values
    /\ Truth \in [Values -> SUBSET Facts]
    /\ "Error" \notin Facts
    /\ None \notin Impls /\ None \notin Values
    /\ IterAcrossCopy \in BOOLEAN

kError == {"Error"}
Props == Facts \cup kError

Masks == {kError, Facts, Props}

\* A mutator call: the new machine, or the bits and mask of SetProperties.
Calls ==
    [op : {"Set"}, value : Values] \cup [op : {"Delete", "Iter"}]
        \cup {c \in [op : {"Props"}, props : SUBSET Props, mask : Masks] :
                 c.props \subseteq c.mask}

NoCall == [op |-> "none"]

Steps == { "idle", "check", "clone", "copybits", "setimpl", "fresh", "setfresh",
           "apply", "store", "load", "save", "update", "iterstore" }

VARIABLES
    impl,      \* handle -> ImplToFst::impl_, None before it is constructed
    content,   \* implementation -> its machine
    bits,      \* implementation -> FstImplBase::properties_
    pc,        \* handle -> the next step of its call
    call,      \* handle -> the call it runs
    new,       \* handle -> the implementation that make_shared builds
    temp,      \* handle -> property word in a register
    iter       \* handle -> what its mutable arc iterator points into

vars == <<impl, content, bits, pc, call, new, temp, iter>>

Idle(h) == pc[h] = "idle"
Alive(h) == Idle(h) /\ impl[h] # None

Goto(h, step) == pc' = [pc EXCEPT ![h] = step]

\* The call of h is over.
Return(h) ==
    /\ Goto(h, "idle")
    /\ call' = [call EXCEPT ![h] = NoCall]
    /\ temp' = [temp EXCEPT ![h] = {}]

\* No shared_ptr refers to i: an allocation may return it.
Free(i) == \A g \in Handles : impl[g] # i /\ new[g] # i

\* impl_.use_count() == 1
Unique(h) == \A g \in Handles \ {h} : impl[g] # impl[h]

\* h drops its shared_ptr: the last one destroys the implementation.
Release(h) ==
    IF Unique(h)
    THEN /\ content' = [content EXCEPT ![impl[h]] = Empty]
         /\ bits' = [bits EXCEPT ![impl[h]] = {}]
    ELSE UNCHANGED <<content, bits>>

-----------------------------------------------------------------------------
(* Construction, destruction, copies and moves.                            *)

Init ==
    /\ impl = [h \in Handles |-> None]
    /\ content = [i \in Impls |-> Empty]
    /\ bits = [i \in Impls |-> {}]
    /\ pc = [h \in Handles |-> "idle"]
    /\ call = [h \in Handles |-> NoCall]
    /\ new = [h \in Handles |-> None]
    /\ temp = [h \in Handles |-> {}]
    /\ iter = [h \in Handles |-> None]

\* VectorFstImpl(): the empty machine and the bits that hold of it.
MakeEmpty(i) ==
    /\ i \in Impls /\ Free(i)
    /\ content' = [content EXCEPT ![i] = Empty]
    /\ bits' = [bits EXCEPT ![i] = Truth[Empty]]

Create(h) ==
    /\ Idle(h) /\ impl[h] = None
    /\ \E i \in Impls : MakeEmpty(i) /\ impl' = [impl EXCEPT ![h] = i]
    /\ UNCHANGED <<pc, call, new, temp, iter>>

Destroy(h) ==
    /\ Alive(h) /\ iter[h] = None
    /\ Release(h)
    /\ impl' = [impl EXCEPT ![h] = None]
    /\ UNCHANGED <<pc, call, new, temp, iter>>

\* The copy constructor, which ignores safe: the thread of g runs it and then
\* hands h over.  An assignment is a destruction and a copy.
Copy(g, h) ==
    /\ Alive(g) /\ Idle(h) /\ impl[h] = None
    /\ IterAcrossCopy \/ iter[g] = None
    /\ impl' = [impl EXCEPT ![h] = impl[g]]
    /\ UNCHANGED <<content, bits, pc, call, new, temp, iter>>

\* The move constructor leaves a new implementation behind.
Move(g, h) ==
    /\ Alive(g) /\ Idle(h) /\ impl[h] = None /\ iter[g] = None
    /\ \E i \in Impls : MakeEmpty(i) /\ impl' = [impl EXCEPT ![g] = i, ![h] = impl[g]]
    /\ UNCHANGED <<pc, call, new, temp, iter>>

-----------------------------------------------------------------------------
(* Mutators.  Each begins with MutateCheck, except that SetProperties      *)
(* skips it when the error bit does not change, and that DeleteStates()    *)
(* replaces a shared implementation by a new one instead of cloning it.    *)

\* Bits that a client sets are true of its machine.
Honest(h, c) == c.op = "Props" => c.props \ kError \subseteq Truth[content[impl[h]]]

\* Does SetProperties find the extrinsic bits as they shall be?
Unchanged(h, c) == bits[impl[h]] \cap kError \cap c.mask = c.props \cap kError \cap c.mask

\* The mutation SkipsAlways lets an error reach the other handles.
SkipsAlways(h, c) == c.op = "Props"

\* Is this a call that needs no MutateCheck?
Skips(h, c) == c.op = "Props" /\ Unchanged(h, c)

Begin(h, c) ==
    /\ Alive(h) /\ Honest(h, c)
    /\ c.op \in {"Delete", "Iter"} => iter[h] = None
    /\ call' = [call EXCEPT ![h] = c]
    /\ Goto(h, IF Skips(h, c) THEN "load" ELSE "check")
    /\ UNCHANGED <<impl, content, bits, new, temp, iter>>

Check(h) ==
    /\ pc[h] = "check"
    /\ Goto(h, CASE Unique(h) -> "apply"
                 [] ~ Unique(h) /\ call[h].op = "Delete" -> "fresh"
                 [] OTHER -> "clone")
    /\ UNCHANGED <<impl, content, bits, call, new, temp, iter>>

\* make_shared<Impl>(*this) copies the states, then the bits.
Clone(h) ==
    /\ pc[h] = "clone"
    /\ \E i \in Impls :
          /\ Free(i)
          /\ new' = [new EXCEPT ![h] = i]
          /\ content' = [content EXCEPT ![i] = content[impl[h]]]
          /\ bits' = [bits EXCEPT ![i] = {}]
    /\ Goto(h, "copybits")
    /\ UNCHANGED <<impl, call, temp, iter>>

CloneBits(h) ==
    /\ pc[h] = "copybits"
    /\ bits' = [bits EXCEPT ![new[h]] = bits[impl[h]]]
    /\ Goto(h, "setimpl")
    /\ UNCHANGED <<impl, content, call, new, temp, iter>>

\* DeleteStates() on a shared implementation
Fresh(h) ==
    /\ pc[h] = "fresh"
    /\ \E i \in Impls : MakeEmpty(i) /\ new' = [new EXCEPT ![h] = i]
    /\ Goto(h, "setfresh")
    /\ UNCHANGED <<impl, call, temp, iter>>

\* The mutation SetImplKeeps holds on to the temporary shared_ptr.
SetImplKeeps(h) ==
    /\ pc[h] \in {"setimpl", "setfresh"}
    /\ Release(h)
    /\ impl' = [impl EXCEPT ![h] = new[h]]
    /\ IF pc[h] = "setfresh" THEN Return(h)
       ELSE Goto(h, "apply") /\ UNCHANGED <<call, temp>>
    /\ UNCHANGED <<new, iter>>

SetImpl(h) ==
    /\ pc[h] \in {"setimpl", "setfresh"}
    /\ Release(h)
    /\ impl' = [impl EXCEPT ![h] = new[h]]
    /\ new' = [new EXCEPT ![h] = None]
    /\ IF pc[h] = "setfresh" THEN Return(h)
       ELSE Goto(h, "apply") /\ UNCHANGED <<call, temp>>
    /\ UNCHANGED iter

StoreMasked(stored, props, mask) ==
    (stored \ (mask \ kError)) \cup (props \cap mask)

\* GetMutableImpl()->...: the machine changes first, its bits in the next step.
Apply(h) ==
    /\ pc[h] = "apply" /\ call[h].op \in {"Set", "Delete"}
    /\ content' = [content EXCEPT ![impl[h]] =
                      IF call[h].op = "Set" THEN call[h].value ELSE Empty]
    /\ Goto(h, "store")
    /\ UNCHANGED <<impl, bits, call, new, temp, iter>>

ApplyProps(h) ==
    /\ pc[h] = "apply" /\ call[h].op = "Props"
    /\ bits' = [bits EXCEPT ![impl[h]] = StoreMasked(@, call[h].props, call[h].mask)]
    /\ Return(h)
    /\ UNCHANGED <<impl, content, new, iter>>

OpenIter(h) ==
    /\ pc[h] = "apply" /\ call[h].op = "Iter"
    /\ iter' = [iter EXCEPT ![h] = impl[h]]
    /\ Return(h)
    /\ UNCHANGED <<impl, content, bits, new>>

\* SetProperties(props) of the implementation; kError is not cleared.
Store(h) ==
    /\ pc[h] = "store"
    /\ \E known \in SUBSET Truth[content[impl[h]]] :
          bits' = [bits EXCEPT ![impl[h]] = (@ \cap kError) \cup known]
    /\ Return(h)
    /\ UNCHANGED <<impl, content, new, iter>>

\* SetProperties(props, mask) without MutateCheck: a load, then a store, on an
\* implementation that may be shared.
Load(h) ==
    /\ pc[h] = "load"
    /\ temp' = [temp EXCEPT ![h] = bits[impl[h]]]
    /\ Goto(h, "save")
    /\ UNCHANGED <<impl, content, bits, call, new, iter>>

Save(h) ==
    /\ pc[h] = "save"
    /\ bits' = [bits EXCEPT ![impl[h]] = StoreMasked(temp[h], call[h].props, call[h].mask)]
    /\ Return(h)
    /\ UNCHANGED <<impl, content, new, iter>>

-----------------------------------------------------------------------------
(* Property tests and mutable arc iterators.                               *)

\* Properties(mask, true) computes bits of the machine...
Test(h) ==
    /\ Alive(h)
    /\ \E known \in SUBSET Truth[content[impl[h]]] : temp' = [temp EXCEPT ![h] = known]
    /\ Goto(h, "update")
    /\ UNCHANGED <<impl, content, bits, call, new, iter>>

\* ...and UpdateProperties ors them in, atomically.
Update(h) ==
    /\ pc[h] = "update"
    /\ bits' = [bits EXCEPT ![impl[h]] = @ \cup temp[h]]
    /\ Return(h)
    /\ UNCHANGED <<impl, content, new, iter>>

\* MutableArcIterator::SetValue writes where the iterator points, unchecked.
IterSet(h) ==
    /\ Idle(h) /\ iter[h] # None
    /\ \E v \in Values : content' = [content EXCEPT ![iter[h]] = v]
    /\ temp' = [temp EXCEPT ![h] = bits[iter[h]]]
    /\ Goto(h, "iterstore")
    /\ UNCHANGED <<impl, bits, call, new, iter>>

\* The mutation IterStoreAll keeps the bits of the old arc.
IterStoreAll(h) ==
    /\ pc[h] = "iterstore"
    /\ bits' = [bits EXCEPT ![iter[h]] = temp[h]]
    /\ Return(h)
    /\ UNCHANGED <<impl, content, new, iter>>

IterStore(h) ==
    /\ pc[h] = "iterstore"
    /\ \E known \in SUBSET Truth[content[iter[h]]] :
          bits' = [bits EXCEPT ![iter[h]] = (temp[h] \cap kError) \cup known]
    /\ Return(h)
    /\ UNCHANGED <<impl, content, new, iter>>

CloseIter(h) ==
    /\ Idle(h) /\ iter[h] # None
    /\ iter' = [iter EXCEPT ![h] = None]
    /\ UNCHANGED <<impl, content, bits, pc, call, new, temp>>

Step(h) ==
    \/ Create(h) \/ Destroy(h) \/ Check(h) \/ Clone(h) \/ CloneBits(h)
    \/ Fresh(h) \/ SetImpl(h) \/ Apply(h) \/ ApplyProps(h) \/ OpenIter(h)
    \/ Store(h) \/ Load(h) \/ Save(h) \/ Test(h)
    \/ Update(h) \/ IterSet(h) \/ IterStore(h) \/ CloseIter(h)

Next ==
    \/ \E h \in Handles : Step(h) \/ \E c \in Calls : Begin(h, c)
    \/ \E g, h \in Handles : Copy(g, h) \/ Move(g, h)

Spec == Init /\ [][Next]_vars

-----------------------------------------------------------------------------
(* Properties.                                                             *)

\* The type invariant; an implementation under construction belongs to a call.
CowTypeOK ==
    /\ impl \in [Handles -> Impls \cup {None}]
    /\ content \in [Impls -> Values]
    /\ bits \in [Impls -> SUBSET Props]
    /\ pc \in [Handles -> Steps]
    /\ call \in [Handles -> Calls \cup {NoCall}]
    /\ new \in [Handles -> Impls \cup {None}]
    /\ temp \in [Handles -> SUBSET Props]
    /\ iter \in [Handles -> Impls \cup {None}]
    /\ \A h \in Handles :
          (new[h] # None) = (pc[h] \in {"copybits", "setimpl", "setfresh"})

\* The bits of an implementation are true of its machine, although handles that
\* share it set and update them concurrently, except between the two halves of a
\* mutation (FstImplBase::SetProperties and UpdateProperties of fst.h).
BitsSound ==
    \A h \in Handles :
        impl[h] # None /\ pc[h] \notin {"store", "iterstore"} =>
            bits[impl[h]] \ kError \subseteq Truth[content[impl[h]]]

-----------------------------------------------------------------------------
(* The inductive invariant.                                                *)

\* h writes to its implementation, or may do so without another check.
Owning(h) == pc[h] \in {"apply", "store", "iterstore"} \/ iter[h] # None

\* Whoever may write is alone: between MutateCheck and the write nobody else can
\* get hold of the implementation, because only the thread of h copies h.
OwnersAlone ==
    \A h \in Handles :
        /\ Owning(h) => Unique(h)
        /\ pc[h] # "idle" \/ iter[h] # None => impl[h] # None
        /\ iter[h] # None => iter[h] = impl[h]
        /\ pc[h] = "iterstore" => iter[h] # None
        /\ pc[h] \in {"clone", "copybits", "setimpl", "fresh", "setfresh"} => iter[h] = None
        /\ pc[h] \notin {"idle", "update", "iterstore"} => call[h] \in Calls

\* An implementation under construction is nobody else's.
NewPrivate ==
    \A h \in Handles :
        new[h] # None => \A g \in Handles : /\ impl[g] # new[h]
                                            /\ g # h => new[g] # new[h]

\* A clone is exact although it is read while others use the original.
CloneExact ==
    \A h \in Handles :
        /\ pc[h] \in {"copybits", "setimpl"} => content[new[h]] = content[impl[h]]
        /\ pc[h] = "setimpl" =>
              /\ bits[new[h]] \ kError \subseteq Truth[content[new[h]]]
              /\ "Error" \in bits[new[h]] <=> "Error" \in bits[impl[h]]
        /\ pc[h] = "setfresh" => /\ content[new[h]] = Empty
                                 /\ bits[new[h]] = Truth[Empty]

\* What a call carries from one step to the next is still true when it is used.
CallsTrue ==
    \A h \in Handles :
        /\ /\ pc[h] \in {"check", "clone", "copybits", "setimpl", "apply", "load", "save"}
           /\ call[h].op = "Props"
           => call[h].props \ kError \subseteq Truth[content[impl[h]]]
        /\ pc[h] \in {"load", "save"} =>
              /\ call[h].op = "Props"
              /\ "Error" \in call[h].props => "Error" \in bits[impl[h]]
        /\ pc[h] \in {"fresh", "setfresh"} => call[h].op = "Delete"
        /\ pc[h] \in {"save", "update"} => temp[h] \ kError \subseteq Truth[content[impl[h]]]
        /\ pc[h] \in {"save", "iterstore"} =>
              ("Error" \in temp[h] <=> "Error" \in bits[impl[h]])
        /\ pc[h] = "update" => "Error" \notin temp[h]

CowInv ==
    CowTypeOK /\ BitsSound /\ OwnersAlone /\ NewPrivate /\ CloneExact /\ CallsTrue

-----------------------------------------------------------------------------
\* What a client sees through each handle.
machine == [h \in Handles |-> IF impl[h] = None THEN None ELSE content[impl[h]]]
error == [h \in Handles |-> impl[h] # None /\ "Error" \in bits[impl[h]]]

Val == INSTANCE ValueFst WITH val <- machine, err <- error

\* Handles behave as separate values: a mutation of one is never seen through
\* another, although they share an implementation until then (item (3) of the
\* comment on Fst::Copy in fst.h).
ImplementsValues == Val!ValueSpec
=============================================================================
