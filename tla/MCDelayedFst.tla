---------------------------- MODULE MCDelayedFst ----------------------------
(* Small delayed FSTs for TLC; the names of arcs give their ends, e is epsilon. *)
EXTENDS DelayedFst

CONSTANTS a01, e02, a12, a13, e10, f0, f1

\* 0 -> 1, 0 -> 2 (epsilon), 1 -> 2
FanArcs == [s \in Ids |-> CASE s = 0 -> <<a01, e02>> [] s = 1 -> <<a12>> [] OTHER -> <<>>]
FanNext == [arc \in Arcs |-> CASE arc = a01 -> 1 [] OTHER -> 2]
FanFinal == [s \in Ids |-> IF s = 2 THEN f1 ELSE f0]

\* 0 -> 1, 0 -> 2, 1 -> 3
HiddenArcs == [s \in Ids |-> CASE s = 0 -> <<a01, e02>> [] s = 1 -> <<a13>> [] OTHER -> <<>>]
HiddenNext == [arc \in Arcs |-> CASE arc = a01 -> 1 [] arc = e02 -> 2 [] OTHER -> 3]

\* 0 -> 1, 1 -> 0 (epsilon)
LoopArcs == [s \in Ids |-> IF s = 0 THEN <<a01>> ELSE <<e10>>]
LoopNext == [arc \in Arcs |-> IF arc = a01 THEN 1 ELSE 0]
LoopFinal == [s \in Ids |-> IF s = 1 THEN f1 ELSE f0]
=============================================================================
