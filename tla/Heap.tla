-------------------------------- MODULE Heap --------------------------------
(***************************************************************************)
(* Heap (heap.h): a binary heap whose values can be moved after they were  *)
(* inserted.  Insert returns a key; pos says where the node with a key is. *)
(* A value that was popped leaves its node behind the first size ones, for *)
(* the next Insert to reuse together with its key.                         *)
(*                                                                         *)
(* Arrays are functions on 0 .. n - 1.  The comparison of two values x, y  *)
(* is w[x] < w[y]: w is the vector that the code's functor refers to.      *)
(***************************************************************************)
EXTENDS Integers, FiniteSets, TLC

EmptyHeap == [elements |-> <<>>, pos |-> <<>>, size |-> 0]

Val(h, i) == h.elements[i].value
Left(i) == 2 * (i + 1) - 1
Right(i) == 2 * (i + 1)
Parent(i) == IF i = 0 THEN 0 ELSE (i - 1) \div 2

Swap(h, j, k) ==
    LET a == h.elements[j]
        b == h.elements[k]
    IN  [h EXCEPT !.elements[j] = b, !.elements[k] = a,
                  !.pos[a.key] = k, !.pos[b.key] = j]

\* Moves node i up while its parent is not better, ties included.
RECURSIVE SiftUp(_, _, _)
SiftUp(h, i, w) ==
    IF i > 0 /\ ~ (w[Val(h, Parent(i))] < w[Val(h, i)])
    THEN SiftUp(Swap(h, i, Parent(i)), Parent(i), w)
    ELSE [heap |-> h, key |-> h.elements[i].key]

RECURSIVE Heapify(_, _, _)
Heapify(h, i, w) ==
    LET Best(c, j) == IF c < h.size /\ w[Val(h, c)] < w[Val(h, j)] THEN c ELSE j
        largest == Best(Right(i), Best(Left(i), i))
    IN  IF largest = i THEN h ELSE Heapify(Swap(h, i, largest), largest, w)

Insert(h, v, w) ==
    LET n == h.size
        room == n < Cardinality(DOMAIN h.elements)
        placed == IF room THEN [h EXCEPT !.elements[n].value = v,
                                         !.pos[h.elements[n].key] = n]
                  ELSE [h EXCEPT !.elements = @ @@ (n :> [value |-> v, key |-> n]),
                                 !.pos = @ @@ (n :> n)]
    IN  SiftUp([placed EXCEPT !.size = n + 1], n, w)

\* The value of a key has changed its weight.
Update(h, key, w) ==
    LET i == h.pos[key]
    IN  IF w[Val(h, i)] < w[Val(h, Parent(i))] THEN SiftUp(h, i, w).heap
        ELSE Heapify(h, i, w)

Pop(h, w) ==
    Heapify([Swap(h, 0, h.size - 1) EXCEPT !.size = @ - 1], 0, w)

Top(h) == Val(h, 0)

Clear(h) == [h EXCEPT !.size = 0]

\* What the operations maintain: keys and positions are inverse, and no value
\* is better than its parent.
HeapOK(h, w) ==
    /\ \A i \in DOMAIN h.elements : h.pos[h.elements[i].key] = i
    /\ \A i \in 0 .. h.size - 1 : ~ (w[Val(h, i)] < w[Val(h, Parent(i))])
=============================================================================
