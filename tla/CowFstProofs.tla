---------------------------- MODULE CowFstProofs ----------------------------
(***************************************************************************)
(* Proofs about CowFst, for any sets of objects, implementations, machines *)
(* and facts: CowInv is inductive, and copy-on-write implements ValueFst.  *)
(* An FST is not copied while a mutable iterator on it is open: otherwise  *)
(* OwnersAlone fails, and so does the refinement.                          *)
(***************************************************************************)
EXTENDS CowFst, TLAPS

\* What a mutator call carries.
LEMMA CallFields ==
    ASSUME NEW c \in Calls
    PROVE  /\ c # NoCall
           /\ c.op \in {"Set", "Delete", "Iter", "Props"}
           /\ c.op = "Set" => c.value \in Values
           /\ c.op = "Props" => /\ c.props \subseteq Props /\ c.mask \subseteq Props
                                /\ c.props \subseteq c.mask
BY DEF Calls, NoCall, Masks, Props, kError

\* The initial states.
LEMMA InitInv == Init => CowInv
BY CowConstants DEF Init, CowInv, CowTypeOK, BitsSound, OwnersAlone, NewPrivate,
   CloneExact, CallsTrue, Steps, Owning

\* Each action keeps the invariant.
LEMMA CreateStep ==
    ASSUME CowInv, NEW h \in Handles, Create(h)
    PROVE  CowInv'
<1>1. CowTypeOK'
  BY CowConstants DEF CowInv, CowTypeOK, Create, MakeEmpty, Props
<1>2. BitsSound'
  BY DEF CowInv, CowTypeOK, BitsSound, Create, MakeEmpty
<1>3. OwnersAlone'
  BY DEF CowInv, OwnersAlone, Create, MakeEmpty, Free, Owning, Unique
<1>4. NewPrivate'
  BY DEF CowInv, NewPrivate, Create, MakeEmpty, Free
<1>5. CloneExact'
  BY DEF CowInv, CloneExact, Create, MakeEmpty, Free, Idle
<1>6. CallsTrue'
  BY DEF CowInv, CallsTrue, Create, MakeEmpty, Free, Idle
<1> QED  BY <1>1, <1>2, <1>3, <1>4, <1>5, <1>6 DEF CowInv

\* The last owner alone destroys what it shared with nobody.
LEMMA DestroyStep ==
    ASSUME CowInv, NEW h \in Handles, Destroy(h)
    PROVE  CowInv'
<1>1. CowTypeOK'
  BY CowConstants DEF CowInv, CowTypeOK, Destroy, Release
<1>2. BitsSound'
  BY DEF CowInv, CowTypeOK, BitsSound, Destroy, Release
<1>3. OwnersAlone'
  BY DEF CowInv, OwnersAlone, Destroy, Alive, Idle, Owning, Unique
<1>4. NewPrivate'
  BY DEF CowInv, NewPrivate, Destroy
<1>5. CloneExact'
  BY DEF CowInv, CowTypeOK, OwnersAlone, NewPrivate, CloneExact, Destroy, Release,
     Alive, Idle, Unique
<1>6. CallsTrue'
  BY DEF CowInv, CowTypeOK, OwnersAlone, CallsTrue, Destroy, Release, Alive, Idle,
     Unique
<1> QED  BY <1>1, <1>2, <1>3, <1>4, <1>5, <1>6 DEF CowInv

\* Nobody can join an owner who found itself alone: only its own thread copies it.
LEMMA CheckStep ==
    ASSUME CowInv, NEW h \in Handles, Check(h)
    PROVE  CowInv'
<1>1. CowTypeOK'
  BY DEF CowInv, CowTypeOK, Check, Goto, Steps
<1>2. BitsSound'
  BY DEF CowInv, BitsSound, Check, Goto
<1>3. OwnersAlone'
  BY DEF CowInv, OwnersAlone, Check, Goto, Owning, Unique
<1>4. NewPrivate'
  BY DEF CowInv, NewPrivate, Check
<1>5. CloneExact'
  BY DEF CowInv, CloneExact, Check, Goto
<1>6. CallsTrue'
  BY DEF CowInv, CallsTrue, Check, Goto
<1> QED  BY <1>1, <1>2, <1>3, <1>4, <1>5, <1>6 DEF CowInv

\* The memory of the clone was free.
LEMMA CloneStep ==
    ASSUME CowInv, NEW h \in Handles, Clone(h)
    PROVE  CowInv'
<1>1. CowTypeOK'
  BY DEF CowInv, CowTypeOK, OwnersAlone, Clone, Free, Goto, Steps
<1>2. BitsSound'
  BY DEF CowInv, BitsSound, Clone, Free, Goto
<1>3. OwnersAlone'
  BY DEF CowInv, OwnersAlone, Clone, Goto, Owning, Unique
<1>4. NewPrivate'
  BY DEF CowInv, NewPrivate, Clone, Free
<1>5. CloneExact'
  BY DEF CowInv, CowTypeOK, CloneExact, Clone, Free, Goto
<1>6. CallsTrue'
  BY DEF CowInv, CallsTrue, Clone, Free, Goto
<1> QED  BY <1>1, <1>2, <1>3, <1>4, <1>5, <1>6 DEF CowInv

\* The original may gain true bits meanwhile; so may the clone.
LEMMA CloneBitsStep ==
    ASSUME CowInv, NEW h \in Handles, CloneBits(h)
    PROVE  CowInv'
<1>1. CowTypeOK'
  BY DEF CowInv, CowTypeOK, OwnersAlone, CloneBits, Goto, Steps
<1>2. BitsSound'
  BY DEF CowInv, BitsSound, NewPrivate, CloneBits, Goto
<1>3. OwnersAlone'
  BY DEF CowInv, OwnersAlone, CloneBits, Goto, Owning, Unique
<1>4. NewPrivate'
  BY DEF CowInv, NewPrivate, CloneBits
<1>5. CloneExact'
  BY DEF CowInv, CowTypeOK, BitsSound, OwnersAlone, NewPrivate, CloneExact, CloneBits,
     Goto
<1>6. CallsTrue'
  BY DEF CowInv, CowTypeOK, NewPrivate, CallsTrue, CloneBits, Goto
<1> QED  BY <1>1, <1>2, <1>3, <1>4, <1>5, <1>6 DEF CowInv

\* DeleteStates() on a shared implementation.
LEMMA FreshStep ==
    ASSUME CowInv, NEW h \in Handles, Fresh(h)
    PROVE  CowInv'
<1>1. CowTypeOK'
  BY CowConstants DEF CowInv, CowTypeOK, Fresh, MakeEmpty, Goto, Props, Steps
<1>2. BitsSound'
  BY DEF CowInv, BitsSound, Fresh, MakeEmpty, Free, Goto
<1>3. OwnersAlone'
  BY DEF CowInv, OwnersAlone, Fresh, Goto, Owning, Unique
<1>4. NewPrivate'
  BY DEF CowInv, NewPrivate, Fresh, MakeEmpty, Free
<1>5. CloneExact'
  BY DEF CowInv, CowTypeOK, CloneExact, Fresh, MakeEmpty, Free, Goto
<1>6. CallsTrue'
  BY DEF CowInv, CallsTrue, Fresh, MakeEmpty, Free, Goto
<1> QED  BY <1>1, <1>2, <1>3, <1>4, <1>5, <1>6 DEF CowInv

\* The clone becomes the implementation of the caller alone.
LEMMA SetImplStep ==
    ASSUME CowInv, NEW h \in Handles, SetImpl(h)
    PROVE  CowInv'
<1>1. CowTypeOK'
  BY CowConstants DEF CowInv, CowTypeOK, SetImpl, Release, Goto, Return, Steps
<1>2. BitsSound'
  BY DEF CowInv, CowTypeOK, BitsSound, CloneExact, SetImpl, Release, Goto, Return
<1>3. OwnersAlone'
  BY DEF CowInv, CowTypeOK, OwnersAlone, NewPrivate, SetImpl, Goto, Return, Owning,
     Unique
<1>4. NewPrivate'
  BY DEF CowInv, CowTypeOK, NewPrivate, SetImpl
<1>5. CloneExact'
  BY DEF CowInv, CowTypeOK, OwnersAlone, NewPrivate, CloneExact, SetImpl, Release, Goto,
     Return, Unique
<1>6. CallsTrue'
  BY DEF CowInv, CowTypeOK, OwnersAlone, NewPrivate, CloneExact, CallsTrue, SetImpl,
     Release, Goto, Return, Unique
<1> QED  BY <1>1, <1>2, <1>3, <1>4, <1>5, <1>6 DEF CowInv

\* The mutation itself: the caller is alone.
LEMMA ApplyStep ==
    ASSUME CowInv, NEW h \in Handles, Apply(h)
    PROVE  CowInv'
<1>1. CowTypeOK'
  BY CowConstants, CallFields DEF CowInv, CowTypeOK, OwnersAlone, Apply, Goto, Steps
<1>2. BitsSound'
  BY DEF CowInv, CowTypeOK, BitsSound, OwnersAlone, Apply, Goto, Owning, Unique
<1>3. OwnersAlone'
  BY DEF CowInv, OwnersAlone, Apply, Goto, Owning, Unique
<1>4. NewPrivate'
  BY DEF CowInv, NewPrivate, Apply
<1>5. CloneExact'
  BY DEF CowInv, OwnersAlone, NewPrivate, CloneExact, Apply, Goto, Owning, Unique
<1>6. CallsTrue'
  BY DEF CowInv, OwnersAlone, CallsTrue, Apply, Goto, Owning, Unique
<1> QED  BY <1>1, <1>2, <1>3, <1>4, <1>5, <1>6 DEF CowInv

\* SetProperties after a check.
LEMMA ApplyPropsStep ==
    ASSUME CowInv, NEW h \in Handles, ApplyProps(h)
    PROVE  CowInv'
<1>1. CowTypeOK'
  BY CallFields DEF CowInv, CowTypeOK, OwnersAlone, ApplyProps, Return, Goto,
     StoreMasked, Steps
<1>2. BitsSound'
  BY DEF CowInv, BitsSound, CallsTrue, ApplyProps, Return, Goto, StoreMasked
<1>3. OwnersAlone'
  BY DEF CowInv, CowTypeOK, OwnersAlone, ApplyProps, Return, Goto, Owning, Unique
<1>4. NewPrivate'
  BY DEF CowInv, NewPrivate, ApplyProps
<1>5. CloneExact'
  BY DEF CowInv, OwnersAlone, NewPrivate, CloneExact, ApplyProps, Return, Goto, Owning,
     Unique
<1>6. CallsTrue'
  BY DEF CowInv, CowTypeOK, OwnersAlone, CallsTrue, ApplyProps, Return, Goto, Owning,
     Unique
<1> QED  BY <1>1, <1>2, <1>3, <1>4, <1>5, <1>6 DEF CowInv

\* A mutable iterator is opened after the check.
LEMMA OpenIterStep ==
    ASSUME CowInv, NEW h \in Handles, OpenIter(h)
    PROVE  CowInv'
<1>1. CowTypeOK'
  BY DEF CowInv, CowTypeOK, OpenIter, Return, Goto, Steps
<1>2. BitsSound'
  BY DEF CowInv, BitsSound, OpenIter, Return, Goto
<1>3. OwnersAlone'
  BY DEF CowInv, CowTypeOK, OwnersAlone, OpenIter, Return, Goto, Owning, Unique
<1>4. NewPrivate'
  BY DEF CowInv, NewPrivate, OpenIter
<1>5. CloneExact'
  BY DEF CowInv, CloneExact, OpenIter, Return, Goto
<1>6. CallsTrue'
  BY DEF CowInv, CowTypeOK, CallsTrue, OpenIter, Return, Goto
<1> QED  BY <1>1, <1>2, <1>3, <1>4, <1>5, <1>6 DEF CowInv

\* The bits of a mutation.
LEMMA StoreStep ==
    ASSUME CowInv, NEW h \in Handles, Store(h)
    PROVE  CowInv'
<1>1. CowTypeOK'
  BY CowConstants DEF CowInv, CowTypeOK, OwnersAlone, Store, Return, Goto, Props, Steps
<1>2. BitsSound'
  BY DEF CowInv, CowTypeOK, BitsSound, Store, Return, Goto
<1>3. OwnersAlone'
  BY DEF CowInv, CowTypeOK, OwnersAlone, Store, Return, Goto, Owning, Unique
<1>4. NewPrivate'
  BY DEF CowInv, NewPrivate, Store
<1>5. CloneExact'
  BY CowConstants DEF CowInv, CowTypeOK, NewPrivate, CloneExact, Store, Return, Goto
<1>6. CallsTrue'
  BY CowConstants DEF CowInv, CowTypeOK, CallsTrue, Store, Return, Goto, kError
<1> QED  BY <1>1, <1>2, <1>3, <1>4, <1>5, <1>6 DEF CowInv

\* SetProperties without a check: the load.
LEMMA LoadStep ==
    ASSUME CowInv, NEW h \in Handles, Load(h)
    PROVE  CowInv'
<1>1. CowTypeOK'
  BY DEF CowInv, CowTypeOK, OwnersAlone, Load, Goto, Steps
<1>2. BitsSound'
  BY DEF CowInv, BitsSound, Load, Goto
<1>3. OwnersAlone'
  BY DEF CowInv, OwnersAlone, Load, Goto, Owning, Unique
<1>4. NewPrivate'
  BY DEF CowInv, NewPrivate, Load
<1>5. CloneExact'
  BY DEF CowInv, CloneExact, Load, Goto
<1>6. CallsTrue'
  BY DEF CowInv, CowTypeOK, BitsSound, OwnersAlone, CallsTrue, Load, Goto
<1> QED  BY <1>1, <1>2, <1>3, <1>4, <1>5, <1>6 DEF CowInv

\* SetProperties without a check: the store.
LEMMA SaveStep ==
    ASSUME CowInv, NEW h \in Handles, Save(h)
    PROVE  CowInv'
<1>1. CowTypeOK'
  BY CallFields DEF CowInv, CowTypeOK, OwnersAlone, CallsTrue, Save, Return, Goto,
     StoreMasked, Steps
<1>2. BitsSound'
  BY DEF CowInv, BitsSound, CallsTrue, Save, Return, Goto, StoreMasked
<1>3. OwnersAlone'
  BY DEF CowInv, CowTypeOK, OwnersAlone, Save, Return, Goto, Owning, Unique
<1>4. NewPrivate'
  BY DEF CowInv, NewPrivate, Save
<1>5. CloneExact'
  BY DEF CowInv, CowTypeOK, NewPrivate, CloneExact, CallsTrue, Save, Return, Goto,
     StoreMasked, kError
<1>6. CallsTrue'
  BY DEF CowInv, CowTypeOK, CallsTrue, Save, Return, Goto, StoreMasked, kError
<1> QED  BY <1>1, <1>2, <1>3, <1>4, <1>5, <1>6 DEF CowInv

\* A property test, on a machine that may be shared.
LEMMA TestStep ==
    ASSUME CowInv, NEW h \in Handles, Test(h)
    PROVE  CowInv'
<1>1. CowTypeOK'
  BY CowConstants DEF CowInv, CowTypeOK, Test, Alive, Idle, Goto, Props, Steps
<1>2. BitsSound'
  BY DEF CowInv, BitsSound, Test, Alive, Idle, Goto
<1>3. OwnersAlone'
  BY DEF CowInv, OwnersAlone, Test, Alive, Goto, Owning, Unique
<1>4. NewPrivate'
  BY DEF CowInv, NewPrivate, Test
<1>5. CloneExact'
  BY DEF CowInv, CloneExact, Test, Goto
<1>6. CallsTrue'
  BY CowConstants DEF CowInv, CowTypeOK, CallsTrue, Test, Alive, Goto
<1> QED  BY <1>1, <1>2, <1>3, <1>4, <1>5, <1>6 DEF CowInv

\* The result of a test is ored in.
LEMMA UpdateStep ==
    ASSUME CowInv, NEW h \in Handles, Update(h)
    PROVE  CowInv'
<1>1. CowTypeOK'
  BY DEF CowInv, CowTypeOK, OwnersAlone, Update, Return, Goto, Steps
<1>2. BitsSound'
  BY DEF CowInv, BitsSound, CallsTrue, Update, Return, Goto
<1>3. OwnersAlone'
  BY DEF CowInv, OwnersAlone, Update, Return, Goto, Owning, Unique
<1>4. NewPrivate'
  BY DEF CowInv, NewPrivate, Update
<1>5. CloneExact'
  BY DEF CowInv, CowTypeOK, NewPrivate, CloneExact, CallsTrue, Update, Return, Goto
<1>6. CallsTrue'
  BY DEF CowInv, CallsTrue, Update, Return, Goto
<1> QED  BY <1>1, <1>2, <1>3, <1>4, <1>5, <1>6 DEF CowInv

\* SetValue of a mutable iterator.
LEMMA IterSetStep ==
    ASSUME CowInv, NEW h \in Handles, IterSet(h)
    PROVE  CowInv'
<1>1. CowTypeOK'
  BY DEF CowInv, CowTypeOK, IterSet, Idle, Goto, Steps
<1>2. BitsSound'
  BY DEF CowInv, CowTypeOK, BitsSound, OwnersAlone, IterSet, Goto, Owning, Unique
<1>3. OwnersAlone'
  BY DEF CowInv, OwnersAlone, IterSet, Goto, Owning, Unique
<1>4. NewPrivate'
  BY DEF CowInv, NewPrivate, IterSet
<1>5. CloneExact'
  BY DEF CowInv, OwnersAlone, NewPrivate, CloneExact, IterSet, Goto, Owning, Unique
<1>6. CallsTrue'
  BY DEF CowInv, CowTypeOK, OwnersAlone, CallsTrue, IterSet, Goto, Owning, Unique
<1> QED  BY <1>1, <1>2, <1>3, <1>4, <1>5, <1>6 DEF CowInv

\* The bits that SetValue stores.
LEMMA IterStoreStep ==
    ASSUME CowInv, NEW h \in Handles, IterStore(h)
    PROVE  CowInv'
<1>1. CowTypeOK'
  BY CowConstants DEF CowInv, CowTypeOK, OwnersAlone, IterStore, Return, Goto, Props,
     Steps
<1>2. BitsSound'
  BY DEF CowInv, CowTypeOK, BitsSound, OwnersAlone, IterStore, Return, Goto
<1>3. OwnersAlone'
  BY DEF CowInv, OwnersAlone, IterStore, Return, Goto, Owning, Unique
<1>4. NewPrivate'
  BY DEF CowInv, NewPrivate, IterStore
<1>5. CloneExact'
  BY DEF CowInv, OwnersAlone, NewPrivate, CloneExact, IterStore, Return, Goto, Owning,
     Unique
<1>6. CallsTrue'
  BY DEF CowInv, CowTypeOK, OwnersAlone, CallsTrue, IterStore, Return, Goto, Owning,
     Unique
<1> QED  BY <1>1, <1>2, <1>3, <1>4, <1>5, <1>6 DEF CowInv

\* A mutable iterator is closed.
LEMMA CloseIterStep ==
    ASSUME CowInv, NEW h \in Handles, CloseIter(h)
    PROVE  CowInv'
<1>1. CowTypeOK'
  BY DEF CowInv, CowTypeOK, CloseIter
<1>2. BitsSound'
  BY DEF CowInv, BitsSound, CloseIter
<1>3. OwnersAlone'
  BY DEF CowInv, OwnersAlone, CloseIter, Idle, Owning, Unique
<1>4. NewPrivate'
  BY DEF CowInv, NewPrivate, CloseIter
<1>5. CloneExact'
  BY DEF CowInv, CloneExact, CloseIter
<1>6. CallsTrue'
  BY DEF CowInv, CallsTrue, CloseIter
<1> QED  BY <1>1, <1>2, <1>3, <1>4, <1>5, <1>6 DEF CowInv

\* A mutator is called.
LEMMA BeginStep ==
    ASSUME CowInv, NEW h \in Handles, NEW c \in Calls, Begin(h, c)
    PROVE  CowInv'
<1>1. CowTypeOK'
  BY DEF CowInv, CowTypeOK, Begin, Alive, Idle, Goto, Steps
<1>2. BitsSound'
  BY DEF CowInv, BitsSound, Begin, Alive, Idle, Goto
<1>3. OwnersAlone'
  BY DEF CowInv, CowTypeOK, OwnersAlone, Begin, Alive, Goto, Owning, Unique
<1>4. NewPrivate'
  BY DEF CowInv, NewPrivate, Begin
<1>5. CloneExact'
  BY DEF CowInv, CloneExact, Begin, Goto
<1>6. CallsTrue'
  BY CallFields DEF CowInv, CowTypeOK, CallsTrue, Begin, Honest, Goto, Skips, Unchanged,
     kError
<1> QED  BY <1>1, <1>2, <1>3, <1>4, <1>5, <1>6 DEF CowInv

\* A copy; no mutable iterator is open on the original.
LEMMA CopyStep ==
    ASSUME CowInv, ~ IterAcrossCopy, NEW g \in Handles, NEW h \in Handles, Copy(g, h)
    PROVE  CowInv'
<1>1. CowTypeOK'
  BY DEF CowInv, CowTypeOK, Copy
<1>2. BitsSound'
  BY DEF CowInv, BitsSound, Copy, Alive, Idle
<1>3. OwnersAlone'
  BY DEF CowInv, OwnersAlone, Copy, Alive, Idle, Owning, Unique
<1>4. NewPrivate'
  BY DEF CowInv, NewPrivate, Copy
<1>5. CloneExact'
  BY DEF CowInv, CloneExact, Copy, Idle
<1>6. CallsTrue'
  BY DEF CowInv, CallsTrue, Copy, Idle
<1> QED  BY <1>1, <1>2, <1>3, <1>4, <1>5, <1>6 DEF CowInv

\* A move leaves a new implementation behind.
LEMMA MoveStep ==
    ASSUME CowInv, NEW g \in Handles, NEW h \in Handles, Move(g, h)
    PROVE  CowInv'
<1>1. CowTypeOK'
  BY CowConstants DEF CowInv, CowTypeOK, Move, MakeEmpty, Props
<1>2. BitsSound'
  BY DEF CowInv, CowTypeOK, BitsSound, Move, MakeEmpty, Alive, Idle
<1>3. OwnersAlone'
  BY DEF CowInv, CowTypeOK, OwnersAlone, Move, MakeEmpty, Free, Owning, Unique
<1>4. NewPrivate'
  BY DEF CowInv, CowTypeOK, NewPrivate, Move, MakeEmpty, Free
<1>5. CloneExact'
  BY DEF CowInv, CowTypeOK, CloneExact, Move, MakeEmpty, Free, Alive, Idle
<1>6. CallsTrue'
  BY DEF CowInv, CowTypeOK, CallsTrue, Move, MakeEmpty, Free, Alive, Idle
<1> QED  BY <1>1, <1>2, <1>3, <1>4, <1>5, <1>6 DEF CowInv

\* The error bit is not a fact about a machine.
LEMMA EmptyIsNoError == "Error" \notin Truth[Empty]
BY CowConstants

\* A step of the abstract specification, handle by handle.
LEMMA BecomesPointwise ==
    ASSUME NEW h \in Handles, NEW v, NEW e,
           \A k \in Handles : machine'[k] = IF k = h THEN v ELSE machine[k],
           error'[h] = e, \A k \in Handles \ {h} : error'[k] = error[k]
    PROVE  Val!Becomes(h, v, e)
<1>1. machine' = [machine EXCEPT ![h] = v]
  BY DEF machine
<1>2. error' = [error EXCEPT ![h] = e]
  BY DEF error
<1> QED  BY <1>1, <1>2 DEF Val!Becomes

\* The actions that a client sees.
LEMMA CreateMaps ==
    ASSUME CowInv, NEW h \in Handles, Create(h)
    PROVE  Val!New(h)
<1>1. \A k \in Handles : machine'[k] = IF k = h THEN Empty ELSE machine[k]
  BY CowConstants DEF CowInv, CowTypeOK, Create, MakeEmpty, Free, machine
<1>2. error'[h] = FALSE /\ \A k \in Handles \ {h} : error'[k] = error[k]
  <2>1. "Error" \notin bits'[impl'[h]]
    BY EmptyIsNoError DEF CowInv, CowTypeOK, Create, MakeEmpty
  <2>2. error'[h] = FALSE
    BY <2>1 DEF error
  <2>3. \A k \in Handles \ {h} : error'[k] = error[k]
    BY CowConstants DEF CowInv, CowTypeOK, Create, MakeEmpty, Free, error
  <2> QED  BY <2>2, <2>3
<1>3. machine[h] = None
  BY DEF Create, machine
<1> QED  BY <1>1, <1>2, <1>3, BecomesPointwise DEF Val!New

\* A destroyed object is gone, the others keep what they share.
LEMMA DestroyMaps ==
    ASSUME CowInv, NEW h \in Handles, Destroy(h)
    PROVE  Val!Drop(h)
<1>1. \A k \in Handles : machine'[k] = IF k = h THEN None ELSE machine[k]
  BY DEF CowInv, CowTypeOK, Destroy, Release, Unique, Alive, machine
<1>2. error'[h] = FALSE /\ \A k \in Handles \ {h} : error'[k] = error[k]
  BY DEF CowInv, CowTypeOK, Destroy, Release, Unique, Alive, error
<1> QED  BY <1>1, <1>2, BecomesPointwise DEF Val!Drop

\* A copy has the machine and the error bit of the original.
LEMMA CopyMaps ==
    ASSUME CowInv, NEW g \in Handles, NEW h \in Handles, Copy(g, h)
    PROVE  Val!Take(g, h)
<1>1. \A k \in Handles : machine'[k] = IF k = h THEN machine[g] ELSE machine[k]
  BY DEF CowInv, CowTypeOK, Copy, Alive, machine
<1>2. error'[h] = error[g] /\ \A k \in Handles \ {h} : error'[k] = error[k]
  BY DEF CowInv, CowTypeOK, Copy, Alive, error
<1>3. machine[g] # None
  BY CowConstants DEF CowInv, CowTypeOK, Copy, Alive, machine
<1> QED  BY <1>1, <1>2, <1>3, BecomesPointwise DEF Val!Take

\* A move takes the machine along and leaves the empty one.
LEMMA MoveMaps ==
    ASSUME CowInv, NEW g \in Handles, NEW h \in Handles, Move(g, h)
    PROVE  Val!Move(g, h)
<1> DEFINE m == [machine EXCEPT ![g] = Empty, ![h] = machine[g]]
           e == [error EXCEPT ![g] = FALSE, ![h] = error[g]]
<1>0. g # h /\ machine[g] # None
  BY CowConstants DEF CowInv, CowTypeOK, Move, Alive, machine
<1>1. PICK i \in Impls : MakeEmpty(i) /\ impl' = [impl EXCEPT ![g] = i, ![h] = impl[g]]
  BY DEF Move
<1>2. /\ impl'[g] = i /\ impl'[h] = impl[g] /\ i # None
      /\ \A k \in Handles \ {g, h} : impl'[k] = impl[k]
      /\ content'[i] = Empty /\ bits'[i] = Truth[Empty]
      /\ \A j \in Impls \ {i} : content'[j] = content[j] /\ bits'[j] = bits[j]
      /\ \A k \in Handles : impl[k] # i /\ impl[k] \in Impls \cup {None}
      /\ "Error" \notin Truth[Empty]
  <2>1. /\ impl \in [Handles -> Impls \cup {None}] /\ None \notin Impls
        /\ DOMAIN content = Impls /\ DOMAIN bits = Impls /\ "Error" \notin Truth[Empty]
    BY CowConstants DEF CowInv, CowTypeOK
  <2>2. /\ impl'[g] = i /\ impl'[h] = impl[g] /\ i # None
        /\ \A k \in Handles \ {g, h} : impl'[k] = impl[k]
    BY <1>0, <1>1, <2>1
  <2>3. /\ content' = [content EXCEPT ![i] = Empty]
        /\ bits' = [bits EXCEPT ![i] = Truth[Empty]]
        /\ \A k \in Handles : impl[k] # i
    BY <1>1 DEF MakeEmpty, Free
  <2> QED BY <2>1, <2>2, <2>3
<1>3. machine' = m
  <2>1. machine'[g] = Empty /\ machine'[h] = machine[g]
    BY <1>0, <1>2 DEF machine, Move, Alive
  <2>2. \A k \in Handles \ {g, h} : machine'[k] = machine[k]
    BY <1>2 DEF machine
  <2> QED  BY <1>0, <2>1, <2>2 DEF machine
<1>4. error'[g] = FALSE /\ error'[h] = error[g]
  <2>1. impl[g] # None
    BY DEF Move, Alive
  <2>2. impl[g] \in Impls /\ bits'[impl[g]] = bits[impl[g]]
    BY <1>2, <2>1
  <2>3. error'[g] = FALSE
    BY <1>2 DEF error
  <2>4. error'[h] = error[g]
    BY <1>2, <2>1, <2>2 DEF error
  <2> QED BY <2>3, <2>4
<1>5. \A k \in Handles \ {g, h} : error'[k] = error[k]
  BY <1>2 DEF error
<1>6. error' = e
  BY <1>0, <1>4, <1>5 DEF error
<1> QED  BY <1>0, <1>3, <1>6 DEF Val!Move

\* Only the handle that mutates sees the new machine: it is alone.
LEMMA ApplyMaps ==
    ASSUME CowInv, NEW h \in Handles, Apply(h)
    PROVE  Val!Clear(h) \/ \E v \in Values : Val!Mutate(h, v)
<1> DEFINE v == IF call[h].op = "Set" THEN call[h].value ELSE Empty
<1>1. v \in Values
  BY CowConstants, CallFields DEF CowInv, OwnersAlone, Apply
<1>2. \A k \in Handles : machine'[k] = IF k = h THEN v ELSE machine[k]
  BY CowConstants DEF CowInv, CowTypeOK, OwnersAlone, Owning, Unique, Apply, machine
<1>3. error'[h] = error[h] /\ \A k \in Handles \ {h} : error'[k] = error[k]
  BY DEF Apply, error
<1>4. machine[h] # None
  BY CowConstants DEF CowInv, CowTypeOK, OwnersAlone, Apply, machine
<1>5. Val!Becomes(h, v, error[h])
  BY <1>2, <1>3, BecomesPointwise
<1> QED  BY <1>1, <1>4, <1>5 DEF Val!Mutate

\* SetValue of a mutable iterator is a mutation of its own FST only.
LEMMA IterSetMaps ==
    ASSUME CowInv, NEW h \in Handles, IterSet(h)
    PROVE  \E v \in Values : Val!Mutate(h, v)
<1>1. PICK v \in Values : content' = [content EXCEPT ![iter[h]] = v]
  BY DEF IterSet
<1>2. \A k \in Handles : machine'[k] = IF k = h THEN v ELSE machine[k]
  BY <1>1, CowConstants DEF CowInv, CowTypeOK, OwnersAlone, Owning, Unique, IterSet,
     machine
<1>3. error'[h] = error[h] /\ \A k \in Handles \ {h} : error'[k] = error[k]
  BY DEF IterSet, error
<1>4. machine[h] # None
  BY CowConstants DEF CowInv, CowTypeOK, OwnersAlone, IterSet, machine
<1> QED  BY <1>2, <1>3, <1>4, BecomesPointwise DEF Val!Mutate

\* SetProperties changes the error bit of an implementation that nobody shares.
LEMMA ApplyPropsMaps ==
    ASSUME CowInv, NEW h \in Handles, ApplyProps(h)
    PROVE  Val!Fail(h) \/ UNCHANGED Val!valueVars
<1>1. machine' = machine /\ machine[h] # None
  BY CowConstants DEF CowInv, CowTypeOK, OwnersAlone, ApplyProps, machine
<1>2. CASE "Error" \in call[h].props \cap call[h].mask
  <2>1. error'[h] = TRUE /\ \A k \in Handles \ {h} : error'[k] = error[k]
    BY <1>2 DEF CowInv, CowTypeOK, OwnersAlone, Owning, Unique, ApplyProps, StoreMasked,
       error
  <2>2. \A k \in Handles : machine'[k] = IF k = h THEN machine[h] ELSE machine[k]
    BY <1>1
  <2> QED  BY <1>1, <2>1, <2>2, BecomesPointwise DEF Val!Fail
<1>3. CASE "Error" \notin call[h].props \cap call[h].mask
  <2>1. \A k \in Handles : error'[k] = error[k]
    BY <1>3 DEF CowInv, CowTypeOK, OwnersAlone, Owning, Unique, ApplyProps, StoreMasked,
       kError, error
  <2>2. error' = error
    BY <2>1 DEF error
  <2> QED  BY <1>1, <2>2 DEF Val!valueVars
<1> QED  BY <1>2, <1>3

\* A clone is not seen; a fresh implementation is the empty machine.
LEMMA SetImplMaps ==
    ASSUME CowInv, NEW h \in Handles, SetImpl(h)
    PROVE  Val!Clear(h) \/ UNCHANGED Val!valueVars
<1>1. CASE pc[h] = "setfresh"
  <2>1. \A k \in Handles : machine'[k] = IF k = h THEN Empty ELSE machine[k]
    BY <1>1, CowConstants DEF CowInv, CowTypeOK, OwnersAlone, NewPrivate, CloneExact,
       SetImpl, Release, Unique, machine
  <2>2. error'[h] = FALSE /\ \A k \in Handles \ {h} : error'[k] = error[k]
    <3>1. "Error" \notin bits'[impl'[h]]
      BY <1>1, EmptyIsNoError DEF CowInv, CowTypeOK, NewPrivate, CloneExact, SetImpl,
         Release
    <3>2. error'[h] = FALSE
      BY <3>1 DEF error
    <3>3. \A k \in Handles \ {h} : error'[k] = error[k]
      BY <1>1 DEF CowInv, CowTypeOK, NewPrivate, SetImpl, Release, Unique, error
    <3> QED  BY <3>2, <3>3
  <2>3. machine[h] # None
    BY <1>1, CowConstants DEF CowInv, CowTypeOK, OwnersAlone, machine
  <2> QED  BY <2>1, <2>2, <2>3, BecomesPointwise DEF Val!Clear
<1>2. CASE pc[h] = "setimpl"
  <2>1. \A k \in Handles : machine'[k] = machine[k]
    BY <1>2, CowConstants DEF CowInv, CowTypeOK, OwnersAlone, NewPrivate, CloneExact,
       SetImpl, Release, Unique, machine
  <2>2. \A k \in Handles : error'[k] = error[k]
    BY <1>2, CowConstants DEF CowInv, CowTypeOK, OwnersAlone, NewPrivate, CloneExact,
       SetImpl, Release, Unique, error
  <2>3. machine' = machine /\ error' = error
    BY <2>1, <2>2 DEF machine, error
  <2> QED  BY <2>3 DEF Val!valueVars
<1> QED  BY <1>1, <1>2 DEF SetImpl

\* The steps that no client sees.
LEMMA CheckMaps ==
    ASSUME CowInv, NEW h \in Handles, Check(h)
    PROVE  UNCHANGED Val!valueVars
BY DEF CowInv, Check, machine, error, Val!valueVars

LEMMA CloneMaps ==
    ASSUME CowInv, NEW h \in Handles, Clone(h)
    PROVE  UNCHANGED Val!valueVars
BY DEF CowInv, Clone, Free, machine, error, Val!valueVars

LEMMA CloneBitsMaps ==
    ASSUME CowInv, NEW h \in Handles, CloneBits(h)
    PROVE  UNCHANGED Val!valueVars
BY DEF CowInv, NewPrivate, CloneBits, machine, error, Val!valueVars

LEMMA FreshMaps ==
    ASSUME CowInv, NEW h \in Handles, Fresh(h)
    PROVE  UNCHANGED Val!valueVars
BY DEF CowInv, Fresh, MakeEmpty, Free, machine, error, Val!valueVars

LEMMA OpenIterMaps ==
    ASSUME CowInv, NEW h \in Handles, OpenIter(h)
    PROVE  UNCHANGED Val!valueVars
BY DEF CowInv, OpenIter, machine, error, Val!valueVars

LEMMA StoreMaps ==
    ASSUME CowInv, NEW h \in Handles, Store(h)
    PROVE  UNCHANGED Val!valueVars
BY CowConstants DEF CowInv, CowTypeOK, OwnersAlone, Store, kError, machine, error, Val!valueVars

LEMMA LoadMaps ==
    ASSUME CowInv, NEW h \in Handles, Load(h)
    PROVE  UNCHANGED Val!valueVars
BY DEF Load, machine, error, Val!valueVars

LEMMA SaveMaps ==
    ASSUME CowInv, NEW h \in Handles, Save(h)
    PROVE  UNCHANGED Val!valueVars
BY CowConstants DEF CowInv, CowTypeOK, OwnersAlone, CallsTrue, Save, StoreMasked, kError,
   machine, error, Val!valueVars

LEMMA TestMaps ==
    ASSUME CowInv, NEW h \in Handles, Test(h)
    PROVE  UNCHANGED Val!valueVars
BY DEF Test, machine, error, Val!valueVars

LEMMA UpdateMaps ==
    ASSUME CowInv, NEW h \in Handles, Update(h)
    PROVE  UNCHANGED Val!valueVars
BY DEF CowInv, CowTypeOK, CallsTrue, Update, machine, error, Val!valueVars

LEMMA IterStoreMaps ==
    ASSUME CowInv, NEW h \in Handles, IterStore(h)
    PROVE  UNCHANGED Val!valueVars
BY CowConstants DEF CowInv, CowTypeOK, OwnersAlone, CallsTrue, IterStore, kError, machine,
   error, Val!valueVars

LEMMA CloseIterMaps ==
    ASSUME CowInv, NEW h \in Handles, CloseIter(h)
    PROVE  UNCHANGED Val!valueVars
BY DEF CloseIter, machine, error, Val!valueVars

LEMMA BeginMaps ==
    ASSUME CowInv, NEW h \in Handles, NEW c \in Calls, Begin(h, c)
    PROVE  UNCHANGED Val!valueVars
BY DEF Begin, machine, error, Val!valueVars

\* Every step keeps the invariant.
LEMMA StepInv ==
    ASSUME ~ IterAcrossCopy, CowInv, [Next]_vars
    PROVE  CowInv'
<1>1. ASSUME NEW h \in Handles, Step(h) PROVE CowInv'
  BY <1>1, CreateStep, DestroyStep, CheckStep, CloneStep, CloneBitsStep, FreshStep,
     SetImplStep, ApplyStep, ApplyPropsStep, OpenIterStep, StoreStep, LoadStep, SaveStep,
     TestStep, UpdateStep, IterSetStep, IterStoreStep, CloseIterStep DEF Step
<1>2. CASE UNCHANGED vars
  BY <1>2 DEF vars, CowInv, CowTypeOK, BitsSound, OwnersAlone, NewPrivate, CloneExact,
              CallsTrue, Owning, Unique
<1> QED  BY <1>1, <1>2, BeginStep, CopyStep, MoveStep DEF Next

\* Every step is a step of ValueFst or a stutter.
LEMMA StepMaps ==
    ASSUME CowInv, [Next]_vars
    PROVE  [Val!ValueNext]_(Val!valueVars)
<1>1. ASSUME NEW h \in Handles, Step(h) PROVE [Val!ValueNext]_(Val!valueVars)
  BY <1>1, CreateMaps, DestroyMaps, CheckMaps, CloneMaps, CloneBitsMaps, FreshMaps,
     SetImplMaps, ApplyMaps, ApplyPropsMaps, OpenIterMaps, StoreMaps, LoadMaps, SaveMaps,
     TestMaps, UpdateMaps, IterSetMaps, IterStoreMaps, CloseIterMaps DEF Step, Val!ValueNext
<1>2. CASE UNCHANGED vars
  BY <1>2 DEF vars, machine, error, Val!valueVars
<1> QED  BY <1>1, <1>2, BeginMaps, CopyMaps, MoveMaps DEF Next, Val!ValueNext

\* No object exists at first.
LEMMA InitMaps == Init => Val!ValueInit
BY DEF Init, machine, error, Val!ValueInit

\* CowInv holds in every reachable state.
LEMMA Invariance == ~ IterAcrossCopy /\ Spec => []CowInv
<1> SUFFICES ASSUME ~ IterAcrossCopy PROVE Spec => []CowInv
  OBVIOUS
<1>1. Init => CowInv
  BY InitInv
<1>2. CowInv /\ [Next]_vars => CowInv'
  BY StepInv
<1> QED  BY <1>1, <1>2, PTL DEF Spec

\* The type invariant, with the private implementation of every clone
\* (impl-to-fst.h, mutable-fst.h).
THEOREM CowTypeCorrect == ~ IterAcrossCopy /\ Spec => []CowTypeOK
<1>1. CowInv => CowTypeOK
  BY DEF CowInv
<1> QED  BY <1>1, Invariance, PTL

\* The bits of shared implementations stay true, although tests or them in and
\* SetProperties stores them without a lock (fst.h).
THEOREM BitsStaySound == ~ IterAcrossCopy /\ Spec => []BitsSound
<1>1. CowInv => BitsSound
  BY DEF CowInv
<1> QED  BY <1>1, Invariance, PTL

\* An FST object that was copied never sees a mutation of another one: item (3)
\* of the comment on Fst::Copy in fst.h, for MutateCheck of mutable-fst.h.
THEOREM CopiesAreValues == ~ IterAcrossCopy /\ Spec => ImplementsValues
<1>1. Init => Val!ValueInit
  BY InitMaps
<1>2. CowInv /\ [Next]_vars => [Val!ValueNext]_(Val!valueVars)
  BY StepMaps
<1> QED  BY <1>1, <1>2, Invariance, PTL DEF Spec, ImplementsValues, Val!ValueSpec

=============================================================================
