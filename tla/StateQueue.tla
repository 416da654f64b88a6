----------------------------- MODULE StateQueue -----------------------------
(***************************************************************************)
(* The queue disciplines of queue.h, as records with an operator for each  *)
(* method.  w is the vector of distances that the shortest-first queues    *)
(* compare by.                                                             *)
(***************************************************************************)
EXTENDS Wfst

H == INSTANCE Heap


TrivialQueue == [type |-> "TRIVIAL", front |-> kNoStateId]
FifoQueue == [type |-> "FIFO", states |-> <<>>]
LifoQueue == [type |-> "LIFO", states |-> <<>>]
ShortestFirstQueue(update) ==
    [type |-> "SHORTEST_FIRST", heap |-> H!EmptyHeap, key |-> <<>>, update |-> update]
\* With estimates of the distance to the final states added in comparisons.
NaturalAStarQueue(estimate) ==
    [type |-> "SHORTEST_FIRST", heap |-> H!EmptyHeap, key |-> <<>>, update |-> TRUE,
     estimate |-> estimate]
StateOrderQueue ==
    [type |-> "STATE_ORDER", front |-> 0, back |-> kNoStateId, enqueued |-> {}]
TopOrderQueue(order) ==
    [type |-> "TOP_ORDER", front |-> 0, back |-> kNoStateId, order |-> order,
     state |-> [i \in DOMAIN order |-> kNoStateId]]
\* queues gives each component its queue; trivial_queue_[c] of the code is the
\* TrivialQueue of component c.
SccQueue(scc, queues) ==
    [type |-> "SCC", front |-> 0, back |-> kNoStateId, scc |-> scc, queues |-> queues]

-----------------------------------------------------------------------------
(* The queues that stand alone or serve one component of an SccQueue.      *)

IsEmpty(q) ==
    CASE q.type = "TRIVIAL" -> q.front = kNoStateId
      [] q.type \in {"FIFO", "LIFO"} -> q.states = <<>>
      [] q.type = "SHORTEST_FIRST" -> q.heap.size = 0

HeadOf(q) ==
    CASE q.type = "TRIVIAL" -> q.front
      [] q.type = "FIFO" -> q.states[1]
      [] q.type = "LIFO" -> Last(q.states)
      [] q.type = "SHORTEST_FIRST" -> H!Top(q.heap)

Key(q, s) == IF s \in DOMAIN q.key THEN q.key[s] ELSE kNoStateId

Put(q, s, w) ==
    CASE q.type = "TRIVIAL" -> [q EXCEPT !.front = s]
      [] q.type \in {"FIFO", "LIFO"} -> [q EXCEPT !.states = Append(@, s)]
      [] q.type = "SHORTEST_FIRST" ->
            LET in == H!Insert(q.heap, s, w)
            IN  [q EXCEPT !.heap = in.heap,
                          !.key = IF q.update THEN (s :> in.key) @@ @ ELSE @]

Take(q, w) ==
    CASE q.type = "TRIVIAL" -> [q EXCEPT !.front = kNoStateId]
      [] q.type = "FIFO" -> [q EXCEPT !.states = Tail(@)]
      [] q.type = "LIFO" -> [q EXCEPT !.states = Front(@)]
      [] q.type = "SHORTEST_FIRST" ->
            [q EXCEPT !.heap = H!Pop(@, w),
                      !.key = IF q.update THEN (H!Top(q.heap) :> kNoStateId) @@ @ ELSE @]

Move(q, s, w) ==
    IF q.type # "SHORTEST_FIRST" THEN q
    ELSE IF ~ q.update THEN q
    ELSE IF Key(q, s) = kNoStateId THEN Put(q, s, w)
    ELSE [q EXCEPT !.heap = H!Update(@, q.key[s], w)]

Cleared(q) ==
    CASE q.type = "TRIVIAL" -> TrivialQueue
      [] q.type \in {"FIFO", "LIFO"} -> [q EXCEPT !.states = <<>>]
      [] q.type = "SHORTEST_FIRST" -> [q EXCEPT !.heap = H!Clear(@), !.key = <<>>]

-----------------------------------------------------------------------------
(* The interface.  Three disciplines keep a window front .. back of slots: *)
(* a slot is a state, a position in topological order, or a component.     *)

Windowed(q) == q.type \in {"TOP_ORDER", "STATE_ORDER", "SCC"}

SlotOf(q, s) ==
    CASE q.type = "TOP_ORDER" -> q.order[s]
      [] q.type = "STATE_ORDER" -> s
      [] q.type = "SCC" -> q.scc[s]

Full(q, i) ==
    CASE q.type = "TOP_ORDER" -> q.state[i] # kNoStateId
      [] q.type = "STATE_ORDER" -> i \in q.enqueued
      [] q.type = "SCC" -> ~ IsEmpty(q.queues[i])

WidenBackOnly(q, i) ==
    IF q.front > q.back THEN [q EXCEPT !.front = i, !.back = i]
    ELSE [q EXCEPT !.back = Max({@, i})]
Widen(q, i) ==
    IF q.front > q.back THEN [q EXCEPT !.front = i, !.back = i]
    ELSE [q EXCEPT !.front = Min({@, i}), !.back = Max({@, i})]

\* front moves to the first full slot, or behind back.
Advance(q) ==
    [q EXCEPT !.front = Min({i \in q.front .. q.back : Full(q, i)} \cup {q.back + 1})]

Empty(q) ==
    IF ~ Windowed(q) THEN IsEmpty(q)
    ELSE \/ q.front > q.back
         \/ q.type = "SCC" /\ q.front = q.back /\ ~ Full(q, q.front)

\* Head() of an SccQueue moves front_ to the first component with a state.
Headed(q) == IF q.type = "SCC" THEN Advance(q) ELSE q
QueueHead(q) ==
    CASE q.type = "TOP_ORDER" -> q.state[q.front]
      [] q.type = "STATE_ORDER" -> q.front
      [] q.type = "SCC" -> HeadOf(q.queues[q.front])
      [] OTHER -> HeadOf(q)

Enqueue(q, s, w) ==
    IF ~ Windowed(q) THEN Put(q, s, w)
    ELSE LET i == SlotOf(q, s)
             wide == Widen(q, i)
         IN  CASE q.type = "TOP_ORDER" -> [wide EXCEPT !.state[i] = s]
               [] q.type = "STATE_ORDER" -> [wide EXCEPT !.enqueued = @ \cup {s}]
               [] q.type = "SCC" -> [wide EXCEPT !.queues[i] = Put(@, s, w)]

Dequeue(q, w) ==
    CASE q.type = "TOP_ORDER" -> Advance([q EXCEPT !.state[q.front] = kNoStateId])
      [] q.type = "STATE_ORDER" -> Advance([q EXCEPT !.enqueued = @ \ {q.front}])
      [] q.type = "SCC" -> [q EXCEPT !.queues[q.front] = Take(@, w)]
      [] OTHER -> Take(q, w)

UpdateQueue(q, s, w) ==
    IF q.type = "SCC" THEN [q EXCEPT !.queues[q.scc[s]] = Move(@, s, w)]
    ELSE IF Windowed(q) THEN q ELSE Move(q, s, w)

ClearQueue(q) ==
    LET window == q.front .. q.back
    IN  CASE q.type = "TOP_ORDER" ->
                [q EXCEPT !.front = 0, !.back = kNoStateId,
                          !.state = [i \in window |-> kNoStateId] @@ @]
          [] q.type = "STATE_ORDER" ->
                [q EXCEPT !.front = 0, !.back = kNoStateId, !.enqueued = @ \ window]
          [] q.type = "SCC" ->
                [q EXCEPT !.front = 0, !.back = kNoStateId,
                          !.queues = [i \in window |-> Cleared(q.queues[i])] @@ @]
          [] OTHER -> Cleared(q)

-----------------------------------------------------------------------------
(* What a queue holds, for the properties.                                 *)

Copies(q, s) ==
    CASE q.type = "TRIVIAL" -> IF q.front = s THEN 1 ELSE 0
      [] q.type \in {"FIFO", "LIFO"} -> Cardinality({i \in DOMAIN q.states : q.states[i] = s})
      [] q.type = "SHORTEST_FIRST" ->
            Cardinality({i \in 0 .. q.heap.size - 1 : q.heap.elements[i].value = s})

\* How often a state is in the queue.
Count(q, s) ==
    CASE q.type = "TOP_ORDER" -> Cardinality({i \in DOMAIN q.state : q.state[i] = s})
      [] q.type = "STATE_ORDER" -> IF s \in q.enqueued THEN 1 ELSE 0
      [] q.type = "SCC" -> Copies(q.queues[q.scc[s]], s)
      [] OTHER -> Copies(q, s)

\* The heap of a shortest-first queue is in order, and its keys are right.
\* (A queue without Update lets its order decay, and promises nothing.)
QueueInOrder(q, w) ==
    q.type = "SHORTEST_FIRST" /\ q.update =>
        /\ H!HeapOK(q.heap, w)
        /\ \A i \in 0 .. q.heap.size - 1 :
              LET node == q.heap.elements[i] IN Key(q, node.value) = node.key

\* All the states of a window are inside it.
WindowOK(q) ==
    Windowed(q) =>
        \A i \in (CASE q.type = "TOP_ORDER" -> DOMAIN q.state
                    [] q.type = "STATE_ORDER" -> q.enqueued
                    [] q.type = "SCC" -> DOMAIN q.queues) :
            Full(q, i) => i \in q.front .. q.back
=============================================================================
