------------------------------ MODULE MCFstOps ------------------------------
EXTENDS FstOps

\* Two clients: one that calls all mutators, and one that passes smaller
\* machines to operations and goes on with the results, until a call is
\* rejected: then it can only give up the machine.  What the operations do with
\* an error is ErrorPropagates, which looks at all of them in every state.
VARIABLE client

MCInit == Init /\ client \in {"mutator", "operator"}
MCNext ==
    /\ UNCHANGED client
    /\ \/ client = "mutator" /\ Next
       \/ client = "operator" /\ ~ Failed(fst) /\ OpsNext
       \/ client = "operator" /\ Failed(fst) /\ DoDeleteAllStates
MCSpec == MCInit /\ [][MCNext]_<< fst, client >>

\* An epsilon, a weighted label, and an arc with an output epsilon.
Kinds == { <<0, 0, "One">>, <<1, 1, "Other">>, <<1, 0, "One">> }

\* The operands and operations add weights, epsilons and, through the mappers,
\* the other pairs of labels.
OpKinds == { <<1, 0, "One">> }

AllMask == {kFstProperties}

\* The operands: an empty machine, and a weighted loop at a start state with a
\* final weight, all of whose bits are known.
Loop == [ start |-> 0,
          states |-> (0 :> [ final |-> "Other", arcs |-> << Arc(1, 1, "Other", 0) >>,
                             niepsilons |-> 0, noepsilons |-> 0 ]),
          props |-> { "Expanded", "Mutable", "Acceptor", "IDeterministic",
                      "ODeterministic", "NoEpsilons", "NoIEpsilons", "NoOEpsilons",
                      "ILabelSorted", "OLabelSorted", "Weighted", "Cyclic",
                      "InitialCyclic", "NotTopSorted", "Accessible", "CoAccessible",
                      "NotString", "WeightedCycles" } ]
MCOperands == { EmptyFst, Loop }
AllMappers == { "Invert", "ProjectInput", "ProjectOutput", "RmWeight",
                "SuperFinal", "SuperFinalLabel" }
=============================================================================
