# A TLA+ verification of OpenFst

OpenFst is a C++ library for weighted finite-state transducers (FSTs): automata whose
arcs carry an input label, an output label and a weight. This project models the library
under `openfst/lib`: how an FST is stored, shared, mutated, computed on demand and cached,
what it claims about itself in its property bits, symbol tables, the weights, and the
algorithms from shortest distance to replacement. TLC checks the models on small
instances. TLAPS proves the central invariants and the refinements of the cache, of delayed
FSTs, of the mutable FST and its property bits, of copy-on-write, of symbol tables and of relaxation for every value of
the constants.

`PROJECT.json` lists the components, the runs, the mutants that show that each property
can fail, the map from definitions to source lines, the findings, the hazards and the
theorems. `tlc -config X.cfg MCModule` repeats a run; `tlapm Module.tla` checks proofs.

## 1. The system

| Component | State | Operations | Interacts with |
| --- | --- | --- | --- |
| Mutable FST (`vector-fst.h`) | start state, states with arcs, final weights and epsilon counters, property word | `SetStart`, `SetFinal`, `AddState(s)`, `AddArc`, `DeleteStates`, `DeleteArcs`, mutable arc iterator | property functions, copy-on-write |
| Property bits (`properties.h`, `properties.cc`, `test-properties.h`, `fst.h`) | an atomic 64-bit word per implementation | set, masked set, update by a test, compute | every mutator and every operation derives new bits from old ones; algorithms branch on them |
| Copy-on-write (`impl-to-fst.h`, `mutable-fst.h`) | a `shared_ptr` per FST object | copy, move, destroy, `MutateCheck` | all mutators; used by several threads |
| Cache store (`cache.h`) | vector and list of cached states, size and limit, slot 0 | `GetMutableState`, `AddArc`, `SetArcs`, `DeleteArcs`, `Delete`, `Clear`, copy, mark-sweep collection | the caching implementation; reference counts held by iterators |
| Caching implementation (`cache.h`, `compose.h`) | start, known and expanded states, open iterators | `Start`, `Final`, `NumArcs`, arc iterators, state iterator, `Expand` | fills the store, which may collect in the middle of a call |
| In-place operations (`union.h`, `concat.h`, `closure.h`, `arc-map.h`, `arcsort.h`, `statesort.h`, `topsort.h`, `connect.h`, `reverse.h`) | none of their own | one function each | mutators, stored bits, property functions |
| Symbol tables (`symbol-table.*`, `symbol-table-ops.*`) | symbols in buckets, dense and sparse keys, cached checksums under a mutex | add, remove, find, merge, compact, prune, write, read, checksum | shared copy-on-write by objects of several threads |
| Queues and heap (`queue.h`, `heap.h`) | queue contents | enqueue, dequeue, update, the choice of `AutoQueue` | shortest distance, pruning |
| Visits (`dfs-visit.h`, `connect.h`, `topsort.h`) | stack, colours, components | visitor callbacks | queues, property tests, Connect, TopSort |
| Shortest distance and path (`shortest-distance.h`, `shortest-path.h`, `prune.h`) | distances, queue, parents | relaxation, single and n best paths | queues, epsilon removal, pushing |
| Composition (`compose.h`, `compose-filter.h`, `matcher.h`) | filter state | `Expand` of a pair of states | caching implementation |
| Rational and replacement FSTs (`replace.h`, `replace-util.h`, `rational.h`) | call stack per state | `Expand`, changes of a rational FST | caching implementation |
| Epsilon removal, determinization, pushing, encoding, minimization | weighted subsets, residuals, partitions | algorithms | shortest distance, caching |
| Weights (`*-weight.h`) | values | Plus, Times, Divide, Reverse, Hash, adders, binary form | everything |
| Edit overlay, look-ahead, files, registers, archives, PDTs, scripting, bindings | see `PROJECT.json` | | |

Where the difficulty lies:

* **State used across a call that can change it.** A collection runs inside
  `GetMutableState` and `SetArcs`, while the caller holds a `State*` and iterators hold
  pointers into the cache. A mutable arc iterator keeps raw pointers for its lifetime.
* **Long sequences of legal calls.** Property bits are derived from property bits: a
  mistake in one of some thirty functions is carried along by all others. Two collection
  schemes follow each other in the life of one cache store. Removals leave a symbol table
  with dense and sparse keys that later calls must keep in step.
* **Counters.** The cache size and the epsilon counters are unsigned and are
  adjusted in many places.
* **Sharing between threads.** FST and table objects are thread-compatible, their
  implementations are shared: `MutateCheck`, property tests, `SetProperties` and checksums of
  two objects interleave.
* **Progress.** Collections widen the limit in a loop; `Done()` of a state iterator
  expands states in a loop; a search goes on until its queue is empty.
* **Options that change an algorithm.** Queue disciplines, filters, thresholds and label types
  multiply; results are hard to predict by hand and tests compare few of them with a definition.

Nothing is persisted and no messages are sent, so crashes, recovery and lost messages do not arise.

What makes each component correct, in short: a delayed FST cannot be told from the FST
its operation defines; a cached state that somebody refers to stays; sizes and counters
are exact; collections and iterations end; every stored bit is true; an error is never
lost; an operation computes the relation it stands for; an object is a value of its own;
a search ends with the least distances whatever its queue; weights are semirings.

## 2. The modules

| Module | Models | State and actions |
| --- | --- | --- |
| `CacheStore` | `GCCacheStore<FirstCacheStore<VectorCacheStore>>`, the default store | `state_vec`, `state_list`, `first_*`, `gc_on`, `cache_size`, `cache_limit` are the members of the same names; `ptr` is the `State*` that the client got last; `gc` is the position of a running collection. One action per operation; `Sweep`, `SweepRecent`, `Widen` and `EndGC` are the steps of `GC`. |
| `DelayedFst` (extends `CacheStore`) | `CacheBaseImpl`, arc iterators and state iterator, driven as in `ComposeFstImplBase` | a call is a record `op` with the function that is left to run; `Lookup` is the `GetMutableState` at its beginning and may start a collection (`Collect`). `ClientCall` starts calls, `CallStep` continues them, `SIterStep` is the loop of a state iterator. |
| `PlainFst` | what a delayed FST promises | abstract: queries are answered from the reference machine, an open iterator shows the arcs of its state |
| `FstProps` | bits, masks and property functions | pure definitions; a property word is a set of names |
| `VectorFst` (extends `FstProps`) | `VectorState`, `VectorFstImpl`, `MutableArcIterator`, `ComputeProperties`, `TestProperties` | one variable, `fst`: start, states, bits; one operator per mutator and an action `Do...` that calls it |
| `FstOps` (extends `VectorFst`) | the in-place operations and Reverse | operators that build the result with the mutators, and one action each |
| `FstRelation` (extends `FstOps`) | the meaning of the operations | the relation of input and output strings of a machine up to a length, and the set operations it is compared with |
| `CowFst` | `ImplToFst`, `ImplToMutableFst`, `MutableArcIterator` between threads | `impl` is the shared pointer of each object, `content` and `bits` are what it points to; a call is a sequence of steps with program counter `pc` |
| `ValueFst` | what `Fst::Copy` promises | abstract: every object has its own machine and error bit |
| `SymbolTable` | `DenseSymbolMap`, `SymbolTableImpl`, `SymbolTable`, `symbol-table-ops.cc` | `impl` is `impl_` of each object, `store` the implementations, `pc` the step of a checksum call, `merge` the output of `MergeSymbolTable` just returned; one action per operation, and `Look`, `Lock`, `Sum`, `Finalize`, `Return` for `MaybeRecomputeCheckSum` |
| `SymbolMap` | what a symbol table promises | abstract: every object is a list of symbols with keys |
| `Heap`, `StateQueue` | `Heap` with its position table; all queue disciplines, `AutoQueue` and the SCC queue | pure operators on records, used by the searches |
| `DfsVisit` | `DfsVisit` with `SccVisitor` and `TopOrderVisitor` | pure operators, in the order of the callbacks |
| `ShortestDistance` | `ShortestDistanceState`, `SingleShortestPath` | `sd` holds the distances, adders and flags over two calls, `queue` the queue, `path` the parents of the best path, `pc` the position in the loops: `ExpandState`, `RelaxArc`, `EndCall` and the same for the path |
| `Relaxation` | what a search promises, whatever its queue | abstract: states wait, their arcs are relaxed one by one, distances never rise |
| `Wfst` | machines with weights, and definitions over them | labelled paths, distances, languages, `Connect` |
| `Compose`, `ShortestPath`, `RmEpsilon`, `Determinize`, `Minimize`, `Replace`, `Rational` | the algorithms on whole machines | operators with the names of the functions they model |
| `Algorithms` | calls of the algorithms | `task` holds an operation and its arguments, `result` what it returned: an action per algorithm, for a rational FST an action per call |
| `Weights` | the weight classes | `kind` is the class, `w` a weight, `adder` the adder that has summed it; `DoPlus`, `DoTimes`, `DoReverse`, `DoSetValue` compute further weights |
| `CacheStoreProofs`, `DelayedFstProofs`, `VectorFstProofs`, `FstOpsProofs`, `CowFstProofs`, `SymbolTableProofs`, `SymbolMapProofs`, `RelaxationProofs` | | theorems |
| `MC*` | | operands and small machines for TLC |

What is abstracted:

* Arcs, weights and labels are as fine as the properties need: in the cache an arc is a
  model value that is or is not an epsilon; for the bits a weight is Zero, One or other, and
  labels are small numbers with 0 for epsilon; the algorithms use tropical weights with
  integers, and powers of two where paths have to be told apart by their cost.
* A delayed operation is a parameter of `DelayedFst` (`RefArcs`, `RefFinal`, `RefStart`).
* In `CowFst` a machine is an opaque value together with the facts that are true of it.
  That a mutator leaves only true bits is the subject of `VectorFst`. A client that sets
  bits by itself sets true ones.
* Of a checksum the model keeps whether it is that of the present contents.
* Property tests and Connect take the result of the depth-first search (components,
  accessibility, cycles) from its specification; that the search computes it is `VisitsRight` of
  `ShortestDistance`. Without a start state it visits nothing: what is then read is modelled as it is
  (`DfsFacts`, and an arbitrary choice where an empty vector is read).
* `docs/conventions.md` asks that only the empty machine has no start state (item 4).
  Before `SetStart` the models neither test a machine nor pass it on
  (`Conventional`); nor is an arc added to a state that does not exist yet. A client asks
  a delayed FST only about state IDs it may know of (item 3, `KnownIds`).
* The store, the caching implementation and `VectorFst` are used by one thread, as the
  library asks; `CowFst` and `SymbolTable` have one thread per object and sequentially
  consistent memory.
* State IDs of the algorithms are tuples where the code numbers tuples in a state table; results are
  compared up to that numbering.
* Floating point is replaced by exact numbers.

Bounds are named constants in the guards: `MaxArcs`, `MaxRefs`, `MaxExcess` for the
store, `MaxStates` and `MaxArcs` for machines, `MaxLen` for strings, `MaxKey`, `MaxSymbols`, `MaxBoth` and
`MaxSummed` for tables, `MaxCalls` and `MaxSteps` for calls, `MaxSize` for weights. `cache_size_` is kept modulo
`SizeMod`, so that a wrong decrement wraps as it does for `size_t`. `kMinCacheLimit`
and the sizes of states and arcs are constants, because with the real ones no small
instance would ever collect.

## 3. The runs

* **cache_gc** (`CacheStore.cfg`). Three states, arcs of one byte, states of two, a `gc_limit` of zero, so that
  the store begins with one slot and switches to mark-sweep, and a least limit of eight: two states with arcs fill it, a third one triggers a collection, and
  referenced states force the second pass and the doubling of the limit. Shows that list and vector name the same
  states (`ListMatchesVector`), the size is exact (`BookKeeping`), the store is within its
  limit whenever the client runs (`WithinLimit`), a referenced state is neither freed nor
  moved (`PinnedSurvives`) and every collection ends (`GCTerminates`).
* **delayed_gc** (`DelayedGC.cfg`). A delayed FST of three states with one arc iterator and one
  state iterator, under a limit smaller than the FST. Shows that it implements `PlainFst`
  (`ImplementsPlain`), that reference counts equal open iterators (`RefsAreIterators`),
  that a call finds the state it has just filled (`ReturnFinds`), and that the size is exact
  again after the arcs pushed without being counted (`DelayedBookKeeping`).
* **delayed_first** (`DelayedFirst.cfg`). `gc_limit = 0`: slot 0 is handed from state
  to state until an iterator pins it, and the store switches to mark-sweep. Two
  iterators, so that the switch happens under one of them. Adds `FirstSlotExclusive`,
  `NoAlias`, and for the state iterator that it returns all reachable states
  (`IterationComplete`) and ends (`IterationEnds`).
* **delayed_miss** (`DelayedMiss.cfg`, violation). See section 6.
* **vector** (`FstOps.cfg`). Two clients: one calls all mutators, the mutable iterator and tests in any
  order on machines of two states and two arcs, where three kinds of arcs tell all the bits
  apart; the other chains operations on machines with one arc of their own, with an empty and a weighted cyclic
  operand; when a call rejects its arguments, it gives the machine up. Two states are enough for every structural bit: cycles, an initial
  cycle, inaccessible and non-coaccessible states, renumbering. The result of an operation may
  exceed the bounds; it is checked and not extended. Counters and arcs stay in step (`VectorTypeOK`), tests
  answer the truth (`AnswersTrue`), every stored or claimed bit is true (`PropsSound`), an error of either
  argument is in the result (`ErrorPropagates`).
* **cow** (`CowFst.cfg`). Two objects, three implementations (two in use and one under
  construction), two machines that differ in one fact. `ImplementsValues`, `BitsSound`.
  Objects and implementations are interchangeable, so their permutations are a symmetry.
* **symbols** (`SymbolTable.cfg`). Two tables of up to three symbols, two of which collide in four buckets
  (three symbols make the buckets grow), a key that is dense or sparse as the order has it, and a negative one.
  `LookupsAgree`, `CheckSumsTrue` (with two threads in one implementation), `ImplementsMap`,
  `MergeComplete`, and a checksum call returns (`CheckSumReturns`).
* **symbols_merge** (`SymbolMerge.cfg`, violation). See section 6.
* **distance** (`ShortestDistance.cfg`). Machines of four states with every choice from nine arcs: cycles through
  two and three states, a loop that a filter skips, a negative cost, and no negative cycle; all queue disciplines with and without
  filters, two calls that retain distances or one that asks for the best path. `DistancesRight`, `QueueMatchesFlags`,
  `ShortestPathFound`, `VisitsRight`, the refinement `ImplementsRelaxation`, and `CallsEnd`.
* **algorithms** (`Algorithms.cfg`). Each algorithm on every machine that a choice from a pool of arcs gives, with
  its options, some 100,000 tasks: compositions with all filters and special matchers and differences
  (`CompositionExact`), n best paths and pruning (`BestPathsRight`), epsilon removal, determinization,
  reweighting, pushing, encoding and minimization (`NormalFormsExact`), operations in place and delayed rational ones, with up to two
  changes or copies (`RationalOpsCorrect`), mapping, sorting, trimming and reversing in place (`RewritesCorrect`), replacement networks of three machines
  (`ReplacementExact`). Costs that are powers of two make paths distinguishable, so that a lost, doubled or
  misplaced path shows.
* **minimize_nondet** (`MinimizeNondet.cfg`, violation). See section 6.
* **weights** (`Weights.cfg`). 23 weight classes and variants, with operands that are equal, ordered, tied
  or incomparable, and what up to `MaxSize` numbers can represent of their sums and products.
  `SemiringLaws` (with the properties each class claims, division and reversal), `WeightsKept` (hash and binary form).

A mutant per property replaces a definition by a plausible mistake, for example a
forgotten reference count in `MayFree`, a bucket search that does not probe,
or a `SetProperties` that never checks for sharing; the property must then
fail under the same configuration.

Fairness. `WF(GCStep)` and `WF(CallStep)`: a call that has begun runs to its end,
because one thread runs it and nothing in it blocks. `SF(SIterStep)`: a client that loops
over a state iterator calls it again after whatever else it does in the body of the
loop; strong, because other calls come between the steps. `ShortestDistance`: weak fairness of the steps of its
loop, which waits for nothing. `SymbolTable`: weak fairness of the steps of a checksum call; the mutex is
held only inside of that call, so whoever waits for it gets it. Nobody is assumed to begin a call.

Deadlock is checked except in `distance` and `algorithms`, whose calls end.

## 4. The proofs

All theorems hold for every value of the constants under the assumptions of the modules, which give constants
their types (`CacheConstants`, `DelayedConstants`, `CowConstants` and the like: `Null` is no state and no slot,
`NextState` of an arc is a state). Further hypotheses are named in the theorems and
explained here.

### The cache store

`CacheStoreProofs`: `StoreTypeCorrect`; `CollectionSafety` (the two collection schemes exclude each other, and
the pointer the client holds is never dangling); `SlotsNotAliased` (no state is cached in two slots);
`ReferencesProtect` (`PinnedSurvives`, the reason for the reference count); `ListExact`
(`ListMatchesVector`: list and vector name the same states).

The inductive invariant is `StoreInv`: the type invariant, `PtrIsStored`,
`FirstSlotExclusive`, `NoAlias` and `ListStored`. `FirstSlotExclusive` is not inductive by
itself: a sweep looks states up through `FirstCacheStore::GetMutableState`, which would
create a state if it met a list entry whose state is gone. So the list must name cached
states only, and each once, or freeing one occurrence leaves the other dangling (`ListStored`).
`NoAlias` is needed because a lookup of the owner of slot 0 goes to slot 0 and not to its
place in the vector. `FirstGetLemma` says what a lookup does in its five cases; each
action is a lemma on top of it.

The byte count, in the same module: `SizeExact` (`BookKeeping`: `cache_size_` is what the cached states were charged with) and
`LimitKept` (`WithinLimit`). Two hypotheses. `SizeFits`: the counter's width holds the bytes of all states with
`MaxArcs` arcs (they are in memory); without it the counter wraps. `MaxExcess = 0`: `DeleteArcs(state, n)` is called with `n` at
most the number of arcs; the code does not check that, and subtracts too much otherwise (section 6). The
inductive invariant `SizeInv` adds to `StoreInv`: no state has more than `MaxArcs` arcs; in mark-sweep
mode every initialised state is charged for; `BookKeeping` and `WithinLimit`; a collection aims below the limit, so that a pass which
reaches its aim ends within it and a pass that does not widens the limit until it does (`AimsBelowLimit`, with a limit of at least 2). The sum of
the sizes is stated as the cardinality of a set, one element for each byte of each state (`Occupied`), so that
what a change of one state does to it (`OccupiedUpdate`) follows from the theorems on finite sets.

### Delayed FSTs

`DelayedFstProofs`: `CountsExact` (`RefsAreIterators`), `ComputedIsFound` (`ReturnFinds`), `DelayedStoreSafe`
(the store's safety under the calls of `CacheBaseImpl`), and the refinement `DelayedImplementsPlain`
(`ImplementsPlain`): whatever is collected, evicted or computed again, no query and no open iterator shows anything else
than what the operation defines.

The inductive invariant `DelayedInv` consists of `StoreInv`; the types of the members of the implementation;
`Content` (a cached state holds the final weight and the arcs of the reference as far as its flags say so, and
otherwise what `Expand` has pushed so far); `ItersStored` (the state of an open iterator is cached, in the slot where a lookup finds it); `RefsAreIterators`; and,
for a call under way, which functions belong to it (`OpShape`), the iterator it is for (`OpIter`), that the state
in hand is where the lookup left it, that nothing pushed is lost, and that the state carries its flag when the call returns
(`OpState`), where collections run (`OpCollects`), and that client iterators are on expanded states
(`StateIterOK`, `ReadyExpanded`). Most of the work is in `OpState`: between the computation and the lookup that reads
it a collection may run, which spares the state that it was called for.
For the refinement, the abstract view of an iterator is determined by what is open; each step maps to
a query, an opening, a closing, a switch to a copy, another call, or a stutter.

The byte count, in the same module: `DelayedSizeExact` (`DelayedBookKeeping`) and `DelayedLimitKept` (`WithinLimit`). `PushArc`
adds arcs that nobody counts until `SetArcs`. `DelayedSize` therefore counts the vector without the pending
arcs of the state under expansion (`CountedVec`), and says that while arcs are pending no collection runs and no lookup
may start one (`PendingQuiet`, `ActsCounted`). Hypothesis `CountFits`: as `SizeFits`, and `MaxArcs` bounds the
arcs of a state of the reference.

The state iterator, in `DelayedFstProofs`: `IterationVisitsAll` (`IterationComplete`), under `Tracking`: expanded states are recorded, because
`gc` is on or `gc_limit` is 0. Without it the theorem is false, as `delayed_miss` shows. The invariant `IterInv` says that
all successors of a state that is marked as expanded are below `nknown_states`, and so is the start state; a loop that ends has then returned a set that is closed under arcs.
Reachability is the intersection of all such sets, which is why no induction over paths is needed.

### The mutable FST and its property bits

`VectorFstProofs`, for machines with any number of states and arcs, any labels and any masks: `VectorTypes`
(`VectorTypeOK`), `BitsSound` (`PropsSound`) and `AnswersRight` (`AnswersTrue`), from `VectorInvariant`.
The inductive invariant is `VectorTypeOK /\ PropsSound`. Neither is inductive alone: a mutator keeps or derives
bits from the old ones, so that these must have been true, and the facts behind the bits are those of
a well-formed machine. The argument:

* *Reachability.* `ReachedFrom` takes one step for each state of the machine. The set of states within n steps is
  closed or has more than n members, so that it is closed after `NumStates` steps (`ReachedClosed`), and
  it is the least closed set (`ReachedContained`). Induction over the number of steps is on a set of numbers
  (`NatSubset`), which needs no operator parameter.
* *Meaning of the bits.* `LabelBits`, `ListBits`, `OrderBits` and `CycleBits` turn membership in `Truth` into one
  predicate for each pair.
* *Mutators.* For each one lemma says what machine results and a second one that its bits are true. Deleting and
  adding share `EmbeddedArc`, `EmbeddedLists` and `EmbeddedCycles`: if the arcs of f are among those of g, in the same
  order and with states renamed by an injection that keeps their order, then f inherits from g what says "all arcs",
  "sorted" or "no path". `DeleteStates` is such an embedding by its table `newid`, which ranks the states that
  are left (`NewIdFacts`); `AddArc` is one in the other direction; that a machine with sorted states has no
  cycle (`TopSortedAcyclic`) is what lets `AddArcProperties` claim it.
* *Tests.* `RefutedTruth`: the pass of `ComputeProperties` refutes a bit exactly when it is false. Comparing
  neighbours decides order (`NeighboursSorted`), and the ends of an arc are in one component exactly when the
  arc is on a cycle. `PairsExclude` and `KnownStored` settle answers from stored bits.

`Conventional` (only the empty machine has no start state, docs/conventions.md) is a condition of the action that
tests: without it `ComputeProperties` reads component numbers that no search has assigned.

### The operations on mutable FSTs

`FstOpsProofs`, for clients that build machines and call the operations of `FstOps` on them, with any operands and
bounds: `OpsTypes` (`VectorTypeOK`: what each operation builds is a machine, with arcs to states that exist and right
epsilon counters), `ErrorsStay` (no step clears the error bit) and `ErrorsPropagate` (`ErrorPropagates`: an error of
either argument reaches the result of every operation). The operands are machines (`OperandsAssumption`) and
the client's arcs and weights are among those of `VectorFst` (`OpKindsAssumption`).

`VectorTypeOK` is inductive over the operations and not over the mutators they call: in the middle of a loop arcs
lead to states that are still to be added. `Draft(n, N, e)` is what holds there: n of N states exist, arcs may lead to all N, and
the error bit is set if `e`. Each mutator has a lemma that it turns drafts into drafts, each loop one that it stays in
a sequence of sets of drafts, and a draft with n = N is a machine. That the error bit stays is in the same lemmas, because most
operations end with `SetProperties` of a property function: the functions carry `kError` over, and the
early returns of Union and Concat (no start state, empty operand) are cases of their own.

A loop over states or arcs is a recursive function on an interval, that is a function chosen to satisfy an equation.
`LoopRuns` constructs one, by induction over a set of numbers, from the fact that each round leads from the sets
of the loop to the next; `LoopStays` then says what all such functions reach. `ErrorPropagates` follows in every state from the
lemmas and the type invariant.

### Copy-on-write

`CowFstProofs` proves, if no FST is copied while a mutable iterator on it is open (`~IterAcrossCopy`; it is false
otherwise, see section 6): `CopiesAreValues` (`Spec => Val!ValueSpec`, the refinement), `BitsStaySound`, `CowTypeCorrect`.

The inductive invariant `CowInv` adds to the type invariant and `BitsSound`:
`OwnersAlone` (whoever passed the check and has not written yet, or has a mutable iterator
open, is the only owner: only the thread of an object copies that object), `NewPrivate` (an
implementation under construction is nobody else's), `CloneExact` (what has been cloned so far still equals the
original) and `CallsTrue` (what a call carries in registers is still true of the
machine when it is stored). The last one is what makes the unlocked load and store of
`SetProperties` harmless: bits may be lost but none can become wrong, and the error bit
cannot get lost because the check is skipped only when it does not change. The refinement maps
mutations, moves and copies to their abstract counterparts and every other step to a stutter.

### Symbol tables

`SymbolTableProofs` and `SymbolMapProofs`, for tables of any size, any hash function, any keys and any finite number of
objects, each with its thread: `TablesSound`, and from it `AllLookupsAgree` (`LookupsAgree`), `CheckSumsAreTrue`
(`CheckSumsTrue`), `MergesAreComplete` (`MergeComplete`) and the refinement `TablesAreMaps` (`ImplementsMap`). As in the
model, clients give no key to two symbols (a condition of `DoAddSymbol`; the code does not check it).

The inductive invariant `Inv` says that every implementation is `Sound`, that a call is in one of its steps, and that a thread that
has computed a sum finds it still there (`SumSteps`). `LookupsAgree` is not inductive: what a removal or a growth of
the buckets does is decided by what `Sound` adds. Its parts, and what they are for:

* `Holds`: every position is in one bucket, and the buckets that a search for its symbol passes before are not empty;
  fewer buckets are in use than there are. A search therefore ends (`SlotEnds`), because the probes from any hash visit all n buckets
  (`ProbesAll`) and one of them is empty (`EmptyOne`, by counting), and it ends at the symbol if the table has it (`SlotFinds`).
  `Rehash` fills empty buckets symbol by symbol; that one more entry keeps `Holds` is shown once, for `Rehash` and `InsertOrFind`.
* `KeysSound`: the first `dense_key_limit_` positions have themselves as keys, `key_map_` and `idx_key_` are inverse to each other on
  the others, whose keys are no dense ones, and all keys are below `available_key_`. Removing a dense key turns the dense keys above
  it into sparse ones (`DenseRemoved`), removing a sparse one shifts positions (`SparseRemoved`); in both, the pairs behind the removed
  one move down by one (`MovedDown`), so that `List` loses one element (`Removal`).
* `SumsSound`: final sums are true, or a symbol was removed since they were computed.

Loops over entries are recursive functions on 0..n. `LoopStates` proves that such a function satisfies its equation in each round,
by an induction over a set of numbers that needs no operator parameter (`NatInduct`); the invariant of each loop (`Grew`, `Picked`,
`Merging`) then goes the same way. `Move` says what an operation may do to the objects: the list of one object changes as `SymbolMap`
allows and all others stay, which `MutateFacts`, `AssignFacts` and `ShareFacts` derive from the counting of users (`SoleUser`).

### Relaxation

`RelaxationProofs`, for every graph, infinite ones and negative costs included, and every order in which states are taken:
`RelaxationComplete` (when a computation has ended, no arc improves a distance) and `RelaxationExact` (no distance is ever
below a function that no arc improves: what it ends with is the greatest such function). The invariant
`RelaxInv`: types; every arc of a reached state that does not wait is relaxed already or among
those left (`Expanding`, `Used`); and what holds at the end (`DoneEmpty`, `DoneQuiet`). `ImplementsRelaxation`, checked by
TLC, carries both over to the searches with each queue.

TLC checks `StoreInv`, `SizeInv`, `DelayedInv`, `DelayedSize`, `IterInv` and `CowInv` on the instances of the runs too,
and both conjuncts of `VectorInv`.

### Only model-checked

* Liveness (`GCTerminates`, `IterationEnds`, `CallsEnd`, `CheckSumReturns`): out of reach of the proof system.
* That the operations of `FstOps` leave only true bits (`PropsSound` under `OpsSpec`): this needs, for each property
  function, what the operation does to cycles and reachability of the whole machine. That they compute the right relation is
  `RationalOpsCorrect` and `RewritesCorrect`, which compare languages.
* `ShortestDistance`, `Algorithms` and `Weights` reach recursive operators (closures of
  sets, heaps, structured weights), and what these compute for every input would be an induction over data.

## 5. Plan

Done: the components of the table in section 2, and the theorems of section 4. Left for proofs, in this order:

1. The property functions of the operations of `FstOps` that change no arcs' number (Invert, Project, ArcSort), with
   the embeddings of `VectorFstProofs`.

Left for models: `EditFst` against `VectorFst`, the keep-one expander cache, epsilon normalization.

## 6. What disagrees with the documentation

* **A state iterator can miss states** (`delayed_miss`). With `gc = false` and a positive
  `gc_limit`, `ExpandedState` takes any state in the store for expanded, also one whose
  final weight alone was cached. `MinUnexpandedState` skips it and the iterator ends
  without the states behind it.
* **Merging tables can relabel without saying so** (`symbols_merge`). A symbol that only the right table has gets another
  key if the left table uses its own, but `*right_relabel_output` stays false.
* **Minimize of a nondeterministic machine can change its language** (`minimize_nondet`). `Split` queues only the smaller
  half of a class; that is enough for deterministic machines, and comments say that it is for all.

Smaller observations, for which there is no run:

* FSTs. `Concat(fst1, &fst2)` stores bits whose static part, `kMutable`, comes from `fst1`. A mutable arc iterator
  writes through a copy that was made while it is open (`IterAcrossCopy`). `DeleteStates()` drops the error bit when
  the implementation is shared, though `fst.h` says that it cannot be cleared. A property
  test before `SetStart` stores bits of the empty machine, which later mutators keep. The epsilon
  mappers of `arc-map.h` claim that a machine without arcs has epsilons.
* Cache. With `gc = false` and `gc_limit = 0` states are still evicted from slot 0.
  `GCCacheStore::DeleteArcs(state, n)` with `n` larger than the number of arcs subtracts `n` arcs from the size
  (`MaxExcess` above 0 shows it).
* Symbol tables. `RemoveSymbol` leaves the checksums final, though a comment (symbol-table.h:275) says that they are recomputed.
  `MergeSymbolTable` returns the right table when it has all symbols, also if the left keys differ. After removals
  the available key need not be the highest plus one. Two symbols with one key break the bijection.
* Searches. The comparison of `CustomShortestFirstQueue` and of `AutoQueue` keeps a reference to a local `Less`.
  `SingleShortestPath` ignores its arc filter. A `PruneQueue` may take in a state past the threshold on `Update`. Prune into a copy drops arcs
  between kept states once the state threshold is reached; in place it then changes the distance of a state in the heap
  without updating the heap.
* Rewriting. The cyclic branch of Minimize does not sort arcs although its hash of a state assumes it. Push of labels alone with
  `kPushRemoveTotalWeight` removes no weight and says nothing. `Equivalent` may answer false for weighted
  machines with an initial cycle whose total weight is not One. `Disambiguate` indexes the heads by the IDs of a determinized acceptor also for transducers.
* Replacement. `ReplaceProperties` claims sorted input labels although with negative nonterminals the return arc precedes a call with a
  smaller label; output labels count as unsorted when the call's output label is given. `Find(0)` of the matcher returns call arcs also when they keep their input
  label, and does not reset a loop of an earlier state. A nonterminal -1 equals `kNoLabel` and is searched as an epsilon. `NotTopSorted` and `NotString` are taken from machines that no path uses;
  `Connected()` is true although arcs call empty machines. `ReplaceLabels` with call labels on the output expands calls again and does not end for a root that calls itself.
  `GetSCCProperties` tests for self-loops with component numbers instead of machine numbers. `AddConcat(fst, false)` of a rational
  FST combines the property words in the wrong order.
* Weights. Plus of `GALLIC_MIN` is not commutative on ties and swallows NoWeight. `RealWeight` has the member +Infinity although Zero times it is
  NaN. Hashes of 0.0 and -0.0 differ. `SetDefaultValue` keeps pairs that equal the new default, so that equal sparse weights hash differently; `DotProduct` ignores
  defaults. `LexicographicWeight` over `MinMaxWeight` is not distributive.

## 7. What is not modelled

`PROJECT.json` lists every component with its reason. Inside of the modelled ones: the factorization that Minimize returns,
label pushing towards the end, the filters of determinization other than the default one, the arc filter and `threshold_initial` of Prune, the state threshold of epsilon
removal and the distances it retains (exact ones are used; retaining is modelled in `ShortestDistance`), collisions of state hashes and the order in which classes are refined; `ComposeFstMatcher`, `HashMatcher`, `MultiEpsMatcher`;
the iterators of `ReplaceFst` over uncached arcs and cyclic networks; pruning and filtering queues; a matcher that goes to another state before all matches are read; `MAP_ALLOW_SUPERFINAL`;
errors of delayed FSTs (`HasStart` then answers without `ComputeStart`) and of searches that meet a weight that is no member; `HashCacheStore`, whose operations have the effect of
`VectorCacheStore`; names, files and `Reserve*`; rounding, text forms and conversions of weights. Other components: look-ahead composition,
disambiguation, comparison and random paths, constant and compact FSTs; file formats, parsing and formatting; memory pools; the scripting layer,
programs and bindings, which wrap the library; extensions built on components that come first. Weak memory is not modelled:
`ImplToFst::Unique` reads the reference count without ordering.
