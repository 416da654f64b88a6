------------------------------ MODULE MCCowFst ------------------------------
EXTENDS CowFst, TLC

CONSTANTS empty, loop, acyclic

\* Two machines that differ in one fact.
MCTruth == [v \in Values |-> IF v = empty THEN {acyclic} ELSE {}]

Symmetry == Permutations(Handles) \cup Permutations(Impls)
=============================================================================
