------------------------------- MODULE PlainFst -------------------------------
(***************************************************************************)
(* What a delayed FST promises its client: it behaves as if every state    *)
(* had been expanded once and for all.  A query of a state is answered     *)
(* from the FST that the operation defines, and an arc iterator shows      *)
(* exactly the arcs of its state from the moment it is opened until it is  *)
(* closed, whatever is expanded, cached or freed in the meantime.          *)
(***************************************************************************)
EXTENDS Integers, Sequences

CONSTANTS
  States,     \* the state IDs
  None,       \* no state
  Iterators,  \* the arc iterators a client may have open
  ArcsOf,     \* state -> its arcs, in order
  WeightOf,   \* state -> its final weight
  EpsOf       \* state -> the number of its epsilon arcs

VARIABLES
  open,    \* the state each iterator is on, or None
  seen,    \* the arcs each iterator shows
  answer   \* the answer to the query just made, until the next call

plainVars == <<open, seen, answer>>

NoAnswer == [query |-> "none"]

FinalAnswer(s) == [query |-> "Final", s |-> s, weight |-> WeightOf[s]]

NumArcsAnswer(s) ==
  [query |-> "NumArcs", s |-> s, narcs |-> Len(ArcsOf[s]), neps |-> EpsOf[s]]

PlainInit ==
  /\ open = [it \in Iterators |-> None]
  /\ seen = [it \in Iterators |-> <<>>]
  /\ answer = NoAnswer

Query(s) ==
  /\ answer' \in {FinalAnswer(s), NumArcsAnswer(s)}
  /\ UNCHANGED <<open, seen>>

Open(it, s) ==
  /\ open[it] = None
  /\ open' = [open EXCEPT ![it] = s]
  /\ seen' = [seen EXCEPT ![it] = ArcsOf[s]]
  /\ answer' = NoAnswer

Close(it) ==
  /\ open[it] # None
  /\ open' = [open EXCEPT ![it] = None]
  /\ seen' = [seen EXCEPT ![it] = <<>>]
  /\ answer' = NoAnswer

\* The client goes on with a copy of the FST, on which no iterator is open.
Switch ==
  /\ open' = [it \in Iterators |-> None]
  /\ seen' = [it \in Iterators |-> <<>>]
  /\ answer' = NoAnswer

\* A call that neither answers a query nor opens or closes an iterator
Other ==
  /\ answer' = NoAnswer
  /\ UNCHANGED <<open, seen>>

PlainNext ==
  \/ \E s \in States : Query(s)
  \/ \E it \in Iterators : Close(it) \/ \E s \in States : Open(it, s)
  \/ Switch
  \/ Other

PlainSpec == PlainInit /\ [][PlainNext]_plainVars
===============================================================================
