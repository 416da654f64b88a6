------------------------------ MODULE ValueFst ------------------------------
(***************************************************************************)
(* What Fst::Copy promises (openfst/lib/fst.h): every FST object is a      *)
(* value of its own.  A mutation changes the object it is called on and no *)
(* other, whoever was copied from whom before.                             *)
(***************************************************************************)
CONSTANTS
    Handles,    \* FST objects
    Values,     \* machines: states, arcs and weights
    Empty,      \* the machine without states
    None        \* the object does not exist

VARIABLES
    val,        \* handle -> its machine, or None
    err         \* handle -> is its error bit set?

valueVars == <<val, err>>

Becomes(h, v, e) ==
    /\ val' = [val EXCEPT ![h] = v]
    /\ err' = [err EXCEPT ![h] = e]

ValueInit ==
    /\ val = [h \in Handles |-> None]
    /\ err = [h \in Handles |-> FALSE]

New(h) == val[h] = None /\ Becomes(h, Empty, FALSE)

Drop(h) == Becomes(h, None, FALSE)

Take(g, h) == val[g] # None /\ Becomes(h, val[g], err[g])

\* The object that is moved from is left empty.
Move(g, h) ==
    /\ g # h /\ val[g] # None
    /\ val' = [val EXCEPT ![g] = Empty, ![h] = val[g]]
    /\ err' = [err EXCEPT ![g] = FALSE, ![h] = err[g]]

Mutate(h, v) == val[h] # None /\ Becomes(h, v, err[h])

Fail(h) == val[h] # None /\ Becomes(h, val[h], TRUE)

\* Deleting all states may leave the error bit behind, or not.
Clear(h) == val[h] # None /\ \E e \in {err[h], FALSE} : Becomes(h, Empty, e)

ValueNext ==
    \/ \E h \in Handles : New(h) \/ Drop(h) \/ Fail(h) \/ Clear(h)
    \/ \E g, h \in Handles : Take(g, h) \/ Move(g, h)
    \/ \E h \in Handles, v \in Values : Mutate(h, v)

ValueSpec == ValueInit /\ [][ValueNext]_valueVars
=============================================================================
