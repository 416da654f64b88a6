---------------------------- MODULE SymbolTable ----------------------------
(***************************************************************************)
(* Symbol tables (symbol-table.h, symbol-table.cc, symbol-table-ops.cc):   *)
(* the bijection between symbols and integer keys.  Keys 0, 1, ... that    *)
(* are added in this order are the positions of their symbols (the dense   *)
(* range); other keys have an entry in idx_key_ (position to key) and in   *)
(* key_map_ (key to position).  Removal moves all of them in place.        *)
(*                                                                         *)
(* SymbolTable objects share implementations until one of them is mutated. *)
(* Each object is used by a thread of its own; the checksums, which const  *)
(* calls compute lazily under a mutex, are modelled step by step.          *)
(*                                                                         *)
(* Sequences count from 1, the code's positions from 0: position i of a    *)
(* vector v is v[i + 1].                                                   *)
(***************************************************************************)
EXTENDS Integers, FiniteSets, Sequences, TLC, FiniteSetsExt, SequencesExt

CONSTANTS Objects,    \* SymbolTable objects, each with its thread
          Symbols,    \* nonempty strings
          Hash,       \* [Symbols -> Nat]: absl::Hash
          Keys,       \* keys that clients choose
          NumBuckets, \* initial number of buckets (16 in the code), a power of 2
          MaxKey,     \* bound: no key above
          MaxSymbols, \* bound: symbols in one table
          MaxBoth,    \* bound: symbols in two tables together
          MaxSummed,  \* bound: symbols in a table whose checksum is asked for
          NoString,   \* the empty string
          None        \* nobody holds a mutex

ASSUME KeyAssumption == Keys \subseteq Int /\ MaxKey \in Nat /\ \A k \in Keys : k <= MaxKey
ASSUME BucketAssumption == NumBuckets \in {4, 8, 16} /\ {MaxSymbols, MaxBoth, MaxSummed} \subseteq Nat
ASSUME SymbolAssumption == Hash \in [Symbols -> Nat] /\ NoString \notin Symbols
ASSUME ObjectAssumption == IsFiniteSet(Objects) /\ None \notin Objects

VARIABLES impl,    \* [Objects -> Impls]: impl_
          store,   \* [Impls -> SymbolTableImpl]
          pc,      \* [Objects -> the step of a checksum call]
          merge    \* the call of MergeSymbolTable just made, with its output

vars == << impl, store, pc, merge >>

kNoSymbol == -1
kEmptyBucket == -1

\* As many implementations as objects: one that is not in use is free.
Impls == Objects

-----------------------------------------------------------------------------
(* DenseSymbolMap: the list of symbols, and buckets with linear probing.   *)

EmptyBuckets(n) == [i \in 0..(n - 1) |-> kEmptyBucket]
Mask(h, b) == h % Cardinality(DOMAIN b)

\* Plausible slip: the search does not skip the buckets of other symbols.
SlotUnprobed(symbols, b, s) == Mask(Hash[s], b)

\* The bucket where the search for s ends: its own, or an empty one.
Slot(symbols, b, s) ==
    LET n == Cardinality(DOMAIN b)
        At(d) == Mask(Hash[s] + d, b)
        Ends(d) == b[At(d)] = kEmptyBucket \/ symbols[b[At(d)] + 1] = s
    IN  At(CHOOSE d \in 0..(n - 1) : Ends(d) /\ \A e \in 0..(d - 1) : ~ Ends(e))

Position(t, s) == t.buckets[Slot(t.symbols, t.buckets, s)]

Rehash(symbols, n) ==
    LET filled[i \in 0..Len(symbols)] ==
            IF i = 0 THEN EmptyBuckets(n)
            ELSE LET before == filled[i - 1]
                 IN  [before EXCEPT ![Slot(symbols, before, symbols[i])] = i - 1]
    IN  filled[Len(symbols)]

\* The table after growing, and the symbol put at the end if it is new.
Grown(t) ==
    LET n == Cardinality(DOMAIN t.buckets)
    IN  IF 4 * Len(t.symbols) >= 3 * n
        THEN [t EXCEPT !.buckets = Rehash(t.symbols, 2 * n)] ELSE t

InsertOrFind(t, s) ==
    LET g == Grown(t)
        slot == Slot(g.symbols, g.buckets, s)
    IN  IF g.buckets[slot] # kEmptyBucket THEN g
        ELSE [g EXCEPT !.symbols = Append(@, s), !.buckets[slot] = Len(g.symbols)]

RemovePosition(t, i) ==
    LET rest == RemoveAt(t.symbols, i + 1)
    IN  [t EXCEPT !.symbols = rest, !.buckets = Rehash(rest, Cardinality(DOMAIN t.buckets))]

-----------------------------------------------------------------------------
(* SymbolTableImpl.                                                        *)

EmptyTable ==
    [symbols |-> <<>>, buckets |-> EmptyBuckets(NumBuckets), dense_key_limit |-> 0,
     idx_key |-> <<>>, key_map |-> <<>>, available_key |-> 0,
     check_sum_finalized |-> FALSE, check_sum |-> FALSE, labeled_check_sum |-> FALSE,
     mutex |-> None, removed |-> FALSE]

\* The copy constructor.  Of the two strings check_sum_string_ and
\* labeled_check_sum_string_ the model keeps whether they are the digests of
\* the present contents; `removed' is history: they were, and then a symbol
\* was removed.
CopyOf(t) == [t EXCEPT !.check_sum_finalized = FALSE, !.check_sum = FALSE,
                       !.labeled_check_sum = FALSE, !.mutex = None, !.removed = FALSE]

NumSymbols(t) == Len(t.symbols)

GetNthKey(t, i) ==
    IF i < 0 \/ i >= NumSymbols(t) THEN kNoSymbol
    ELSE IF i < t.dense_key_limit THEN i
    ELSE t.idx_key[i - t.dense_key_limit + 1]

FindSymbol(t, s) ==
    LET i == Position(t, s)
    IN  IF i = kNoSymbol \/ i < t.dense_key_limit THEN i
        ELSE t.idx_key[i - t.dense_key_limit + 1]

FindKey(t, k) ==
    LET sparse == k < 0 \/ k >= t.dense_key_limit
        i == IF ~ sparse THEN k ELSE IF k \in DOMAIN t.key_map THEN t.key_map[k] ELSE -1
    IN  IF i < 0 \/ i >= NumSymbols(t) THEN NoString ELSE t.symbols[i + 1]

\* The contents have changed: the sums are of the past.
Outdated(t) == [t EXCEPT !.check_sum = FALSE, !.labeled_check_sum = FALSE]

\* Plausible slip: the sums still count as final.
InvalidateKeeps(t) == [Outdated(t) EXCEPT !.removed = FALSE]

Invalidate(t) == [Outdated(t) EXCEPT !.check_sum_finalized = FALSE, !.removed = FALSE]

With(map, k, i) == [j \in DOMAIN map \cup {k} |-> IF j = k THEN i ELSE map[j]]

AddSymbol(t, s, k) ==
    LET u == InsertOrFind(t, s)
        dense == k + 1 = NumSymbols(u) /\ k = u.dense_key_limit
        placed == IF dense THEN [u EXCEPT !.dense_key_limit = @ + 1]
                  ELSE [u EXCEPT !.idx_key = Append(@, k),
                                 !.key_map = With(@, k, NumSymbols(u) - 1)]
    IN  IF k = kNoSymbol THEN t
        ELSE IF NumSymbols(u) = NumSymbols(t) THEN u
        ELSE Invalidate([placed EXCEPT !.available_key = IF k >= @ THEN k + 1 ELSE @])

AddNew(t, s) == AddSymbol(t, s, t.available_key)

\* The sparse keys after a symbol at position i was removed.
Without(map, k) == [j \in DOMAIN map \ {k} |-> map[j]]
Shifted(map, i) == [k \in DOMAIN map |-> IF map[k] > i THEN map[k] - 1 ELSE map[k]]

\* Removal from the dense range: the range ends before the key, and the keys
\* behind it become sparse.
RemoveDense(t, k) ==
    LET u == RemovePosition(t, k)
        moved == (k + 1)..(t.dense_key_limit - 1)
        shifted == Shifted(t.key_map, k)
    IN  [u EXCEPT !.key_map = [j \in moved \cup DOMAIN shifted |->
                                  IF j \in moved THEN j - 1 ELSE shifted[j]],
                  !.idx_key = [i \in 1..Cardinality(moved) |-> k + i] \o t.idx_key,
                  !.dense_key_limit = k]

\* Plausible slip: the positions behind the removed symbol stay as they are.
RemoveSparseUnshifted(t, k) ==
    LET i == t.key_map[k]
        u == RemovePosition(t, i)
    IN  [u EXCEPT !.key_map = Without(t.key_map, k),
                  !.idx_key = RemoveAt(@, i - t.dense_key_limit + 1)]

RemoveSparse(t, k) ==
    LET i == t.key_map[k]
        u == RemovePosition(t, i)
    IN  [u EXCEPT !.key_map = Shifted(Without(t.key_map, k), i),
                  !.idx_key = RemoveAt(@, i - t.dense_key_limit + 1)]

RemoveSymbol(t, k) ==
    LET dense == k >= 0 /\ k < t.dense_key_limit
        u == IF dense THEN RemoveDense(t, k) ELSE RemoveSparse(t, k)
    IN  IF ~ dense /\ k \notin DOMAIN t.key_map THEN t
        ELSE [Outdated(u) EXCEPT !.available_key = IF k = @ - 1 THEN k ELSE @,
                                 !.removed = t.check_sum_finalized]

\* What an iterator shows: symbols and keys, in order.
Entries(t) == [i \in DOMAIN t.symbols |-> << FindKey(t, GetNthKey(t, i - 1)), GetNthKey(t, i - 1) >>]

FromEntries(t, entries) ==
    LET after[i \in 0..Len(entries)] ==
            IF i = 0 THEN t ELSE AddSymbol(after[i - 1], entries[i][1], entries[i][2])
    IN  after[Len(entries)]

AddAll(t, symbols) ==
    LET after[i \in 0..Len(symbols)] == IF i = 0 THEN t ELSE AddNew(after[i - 1], symbols[i])
    IN  after[Len(symbols)]

AddTable(t, other) == AddAll(t, [i \in DOMAIN Entries(other) |-> Entries(other)[i][1]])

\* The keys in ascending order, as a std::map has them.
SortedKeys(S) ==
    CHOOSE q \in [1..Cardinality(S) -> S] : \A i, j \in DOMAIN q : i < j => q[i] < q[j]

\* Write and Read: the available key, the dense keys, the others in the order
\* of key_map_.
Written(t) ==
    LET at(k) == << t.symbols[(IF k \in 0..(t.dense_key_limit - 1) THEN k ELSE t.key_map[k]) + 1], k >>
        dense == [i \in 1..t.dense_key_limit |-> at(i - 1)]
        sparse == SortedKeys(DOMAIN t.key_map)
    IN  [available_key |-> t.available_key, entries |-> dense \o [i \in DOMAIN sparse |-> at(sparse[i])]]

Read(file) == FromEntries([EmptyTable EXCEPT !.available_key = file.available_key], file.entries)

\* WriteText and ReadText keep the order; the available key is found anew.
ReadText(entries) == FromEntries(EmptyTable, entries)

-----------------------------------------------------------------------------
(* symbol-table-ops.cc                                                     *)

CompactSymbolTable(t) ==
    LET keys == SortedKeys({e[2] : e \in Range(Entries(t))})
    IN  FromEntries(EmptyTable, [i \in DOMAIN keys |-> << FindKey(t, keys[i]), i - 1 >>])

PruneSymbolTable(t, seen) ==
    LET entries == Entries(t)
        after[i \in 0..Len(entries)] ==
            IF i = 0 THEN EmptyTable
            ELSE IF entries[i][2] \in seen \cup {0}
            THEN AddSymbol(after[i - 1], entries[i][1], entries[i][2])
            ELSE after[i - 1]
    IN  after[Len(entries)]

\* Merging: the left table if it has all symbols, the right one if it has,
\* or a new one with the keys of the left, then those of the right that are
\* free, then new keys for the others; and whether keys of the right change.
RightHasAll(l, r) == \A s \in Range(l.symbols) : FindSymbol(r, s) # kNoSymbol
LeftHasAll(l, r) == \A s \in Range(r.symbols) : FindSymbol(l, s) # kNoSymbol

\* Plausible slip: a key in use on the left is not recognised.
NoConflict(m, e) == FALSE

Conflict(m, e) == FindSymbol(m, e[1]) = kNoSymbol /\ FindKey(m, e[2]) # NoString

\* A symbol of the right table, in a table that has the left one and the
\* symbols before it: known, put off, or added with its key.
Joined(m, e) ==
    IF FindSymbol(m.table, e[1]) # kNoSymbol THEN m
    ELSE IF Conflict(m.table, e) THEN [m EXCEPT !.conflicts = Append(@, e[1])]
    ELSE [m EXCEPT !.table = AddSymbol(@, e[1], e[2])]

Merged(l, r) ==
    LET left == FromEntries(EmptyTable, Entries(l))
        entries == Entries(r)
        both[i \in 0..Len(entries)] ==
            IF i = 0 THEN [table |-> left, conflicts |-> <<>>] ELSE Joined(both[i - 1], entries[i])
    IN  AddAll(both[Len(entries)].table, both[Len(entries)].conflicts)

\* The flag is set by a symbol that both have under different keys; symbols
\* of the left after one that the right lacks are not looked at then, but the
\* loop over the right finds them.
NeedsRelabel(l, r) ==
    \E s \in Range(l.symbols) \cap Range(r.symbols) : FindSymbol(l, s) # FindSymbol(r, s)

-----------------------------------------------------------------------------
(* SymbolTable objects.                                                    *)

Table(o) == store[impl[o]]
UseCount(i) == Cardinality({o \in Objects : impl[o] = i})
Unused == {i \in Impls : UseCount(i) = 0}

\* Plausible slip: no check whether the implementation is shared.
MutateShared(o, t) == store' = [store EXCEPT ![impl[o]] = t] /\ UNCHANGED impl

\* A call that makes t the table of o: MutateCheck has copied the
\* implementation if it is shared.
Mutate(o, t) ==
    IF UseCount(impl[o]) = 1
    THEN store' = [store EXCEPT ![impl[o]] = t] /\ UNCHANGED impl
    ELSE LET i == CHOOSE j \in Unused : TRUE
         IN  store' = [store EXCEPT ![i] = CopyOf(t)] /\ impl' = [impl EXCEPT ![o] = i]

\* o is assigned a new table, or a copy of p.
Assign(o, t) ==
    LET i == IF UseCount(impl[o]) = 1 THEN impl[o] ELSE CHOOSE j \in Unused : TRUE
    IN  store' = [store EXCEPT ![i] = t] /\ impl' = [impl EXCEPT ![o] = i]
Share(o, p) ==
    /\ impl' = [impl EXCEPT ![o] = impl[p]]
    /\ store' = [i \in Impls |-> IF impl[o] = i /\ UseCount(i) = 1 /\ impl[p] # i
                                 THEN EmptyTable ELSE store[i]]

Idle(o) == pc[o] = "idle"
Used(t, k) == k \in {e[2] : e \in Range(Entries(t))}

NoMerge == [called |-> FALSE]

Init ==
    /\ impl = [o \in Objects |-> o]
    /\ store = [i \in Impls |-> EmptyTable]
    /\ pc = [o \in Objects |-> "idle"]
    /\ merge = NoMerge

\* The bounds of an instance.
Total == MapThenSumSet(LAMBDA i : NumSymbols(store[i]), Impls)
KeysFit == \A i \in Impls : store'[i].available_key <= MaxKey + 1
Fits ==
    /\ \A i \in Impls : NumSymbols(store'[i]) <= MaxSymbols
    /\ Total' <= MaxBoth \/ \E i \in Impls : store'[i] = EmptyTable
    /\ KeysFit
    /\ (\E o \in Objects : pc[o] # "idle") => Total' <= 2 * MaxSummed

\* Clients do not give two symbols the same key.
DoAddSymbol(o, s, k) ==
    /\ Idle(o) /\ ~ Used(Table(o), k)
    /\ Mutate(o, AddSymbol(Table(o), s, k)) /\ Fits
    /\ UNCHANGED << pc, merge >>

DoAddNew(o, s) ==
    /\ Idle(o)
    /\ Mutate(o, AddNew(Table(o), s)) /\ Fits
    /\ UNCHANGED << pc, merge >>

DoRemoveSymbol(o, k) ==
    /\ Idle(o)
    /\ Mutate(o, RemoveSymbol(Table(o), k))
    /\ UNCHANGED << pc, merge >>

DoAddTable(o, p) ==
    /\ Idle(o)
    /\ Mutate(o, AddTable(Table(o), Table(p))) /\ Fits
    /\ UNCHANGED << pc, merge >>

Copy(o, p) ==
    /\ Idle(o) /\ o # p
    /\ Share(o, p)
    /\ UNCHANGED << pc, merge >>

\* A table is written and read again, compacted, or reduced to epsilon and
\* the labels of a machine that has one.
Renew(o) ==
    /\ Idle(o)
    /\ \/ Assign(o, Read(Written(Table(o))))
       \/ Assign(o, ReadText(Entries(Table(o))))
       \/ Assign(o, CompactSymbolTable(Table(o)))
       \/ Assign(o, PruneSymbolTable(Table(o), {1}))
    /\ UNCHANGED << pc, merge >>

\* The merged table replaces the right one, as in the comment's example.
MergeSymbolTable(l, r) ==
    /\ Idle(r) /\ l # r
    /\ CASE RightHasAll(Table(l), Table(r)) -> UNCHANGED << impl, store >>
         [] ~ RightHasAll(Table(l), Table(r)) /\ LeftHasAll(Table(l), Table(r)) -> Share(r, l)
         [] OTHER -> Assign(r, Merged(Table(l), Table(r)))
    /\ KeysFit
    /\ merge' = [called |-> TRUE, left |-> l, right |-> r,
                 relabel |-> NeedsRelabel(Table(l), Table(r))]
    /\ UNCHANGED pc

\* MaybeRecomputeCheckSum: a look under the shared lock; if the sums are
\* missing, a second look and the computation under the exclusive one.
Look(o) ==
    /\ Idle(o) /\ Table(o).mutex = None
    /\ Total <= MaxSummed /\ \A i \in Impls \ {impl[o]} : store[i] = EmptyTable
    /\ pc' = [pc EXCEPT ![o] = IF Table(o).check_sum_finalized THEN "return" ELSE "lock"]
    /\ UNCHANGED << impl, store, merge >>

Lock(o) ==
    /\ pc[o] = "lock" /\ Table(o).mutex = None
    /\ IF Table(o).check_sum_finalized
       THEN pc' = [pc EXCEPT ![o] = "return"] /\ UNCHANGED store
       ELSE pc' = [pc EXCEPT ![o] = "sum"] /\ store' = [store EXCEPT ![impl[o]].mutex = o]
    /\ UNCHANGED << impl, merge >>

Sum(o) ==
    /\ pc[o] = "sum"
    /\ pc' = [pc EXCEPT ![o] = "labeled"]
    /\ store' = [store EXCEPT ![impl[o]].check_sum = TRUE]
    /\ UNCHANGED << impl, merge >>

\* Plausible slip: the lock is never released.
FinalizeHolds(o) ==
    /\ pc[o] = "labeled"
    /\ pc' = [pc EXCEPT ![o] = "return"]
    /\ store' = [store EXCEPT ![impl[o]].labeled_check_sum = TRUE,
                              ![impl[o]].check_sum_finalized = TRUE, ![impl[o]].removed = FALSE]
    /\ UNCHANGED << impl, merge >>

Finalize(o) ==
    /\ pc[o] = "labeled"
    /\ pc' = [pc EXCEPT ![o] = "return"]
    /\ store' = [store EXCEPT ![impl[o]].labeled_check_sum = TRUE,
                              ![impl[o]].check_sum_finalized = TRUE,
                              ![impl[o]].mutex = None, ![impl[o]].removed = FALSE]
    /\ UNCHANGED << impl, merge >>

Return(o) ==
    /\ pc[o] = "return"
    /\ pc' = [pc EXCEPT ![o] = "idle"]
    /\ UNCHANGED << impl, store, merge >>

\* The caller has read what MergeSymbolTable put out.
MergeReturned == merge.called /\ merge' = NoMerge /\ UNCHANGED << impl, store, pc >>

CheckSumStep(o) == Look(o) \/ Lock(o) \/ Sum(o) \/ Finalize(o) \/ Return(o)

Step ==
    \/ \E o \in Objects, s \in Symbols :
          DoAddNew(o, s) \/ \E k \in Keys \cup {kNoSymbol} : DoAddSymbol(o, s, k)
    \/ \E o \in Objects, k \in Keys \cup 0..MaxKey : DoRemoveSymbol(o, k)
    \/ \E o, p \in Objects : DoAddTable(o, p) \/ Copy(o, p)
    \/ \E o \in Objects : Renew(o)
    \/ \E l, r \in Objects : MergeSymbolTable(l, r)
    \/ \E o \in Objects : CheckSumStep(o)

Next == MergeReturned \/ (~ merge.called /\ Step)

Fairness ==
    /\ WF_vars(MergeReturned)
    /\ \A o \in Objects : WF_vars(Lock(o) \/ Sum(o) \/ Finalize(o) \/ Return(o))

Spec == Init /\ [][Next]_vars /\ Fairness

-----------------------------------------------------------------------------
(* Properties.                                                             *)

\* Find of a key, Find of a symbol and iteration tell the same story, with
\* collisions in the buckets, after growth and after removals anywhere; and a
\* key that AddSymbol would choose is above all keys in use.
LookupsAgree ==
    \A o \in Objects :
        LET t == Table(o)
            Bound(s, k) == << s, k >> \in Range(Entries(t))
        IN  /\ \A s \in Symbols : FindSymbol(t, s) = kNoSymbol => s \notin Range(t.symbols)
            /\ \A s \in Range(t.symbols) : Bound(s, FindSymbol(t, s))
            /\ \A k \in Keys \cup 0..MaxKey : FindKey(t, k) # NoString => Bound(FindKey(t, k), k)
            /\ \A e \in Range(Entries(t)) : FindKey(t, e[2]) = e[1] /\ e[2] < t.available_key

\* A checksum call returns the sums of the symbols and keys that the table
\* has, however the calls of several threads on one implementation and
\* mutations of other objects interleave; RemoveSymbol does not make the sums
\* be computed again, so the ones from before it are excepted.
CheckSumsTrue ==
    \A o \in Objects :
        pc[o] = "return" /\ ~ Table(o).removed => Table(o).check_sum /\ Table(o).labeled_check_sum

\* A checksum call that waits for the lock returns.
CheckSumReturns == \A o \in Objects : pc[o] = "lock" ~> pc[o] = "idle"

KeysOf(entries) == {e[2] : e \in Range(entries)}
SymbolsOf(entries) == {e[1] : e \in Range(entries)}
MergeStep(Holds(_, _, _)) ==
    merge'.called => Holds(Entries(Table(merge'.left)), Entries(Table(merge'.right)),
                           Entries(Table(merge.right))')

\* The merged table has the symbols of both, no key twice, and the keys of
\* the left side, unless the right side has all symbols and is returned.
MergeComplete ==
    [][MergeStep(LAMBDA left, right, merged :
        /\ SymbolsOf(merged) = SymbolsOf(left) \cup SymbolsOf(right)
        /\ Cardinality(KeysOf(merged)) = Len(merged)
        /\ Range(left) \subseteq Range(merged) \/ merged = right)]_vars

\* As the comment on MergeSymbolTable says, the flag is true if a symbol of
\* the right table was given another key.
RelabelReported ==
    [][MergeStep(LAMBDA left, right, merged :
        Range(right) \subseteq Range(merged) \/ merge'.relabel)]_vars

\* The symbols with their keys, by position.
List(t) == [i \in DOMAIN t.symbols |-> << t.symbols[i], GetNthKey(t, i - 1) >>]

Abstract == INSTANCE SymbolMap WITH table <- [o \in Objects |-> List(Table(o))]

\* Every table behaves as a list of its own of symbols and keys.
ImplementsMap == Abstract!Spec
=============================================================================
