------------------------------ MODULE FstProps ------------------------------
EXTENDS Integers, Sequences

(***************************************************************************)
(* The property bits of an FST (properties.h, properties.cc, fst.h).       *)
(*                                                                         *)
(* A 64-bit mask is the set of the names of its set bits, so the C++       *)
(* operators |, & and & ~ are \cup, \cap and \.  A binary property is one  *)
(* bit; a trinary property is a pair of bits, of which at most one may be  *)
(* set: the first says that the property holds, the second that it does    *)
(* not, and neither that its value is unknown.                             *)
(***************************************************************************)

TrinaryPairs ==
    { <<"Acceptor", "NotAcceptor">>,
      <<"IDeterministic", "NonIDeterministic">>,
      <<"ODeterministic", "NonODeterministic">>,
      <<"Epsilons", "NoEpsilons">>,
      <<"IEpsilons", "NoIEpsilons">>,
      <<"OEpsilons", "NoOEpsilons">>,
      <<"ILabelSorted", "NotILabelSorted">>,
      <<"OLabelSorted", "NotOLabelSorted">>,
      <<"Weighted", "Unweighted">>,
      <<"Cyclic", "Acyclic">>,
      <<"InitialCyclic", "InitialAcyclic">>,
      <<"TopSorted", "NotTopSorted">>,
      <<"Accessible", "NotAccessible">>,
      <<"CoAccessible", "NotCoAccessible">>,
      <<"String", "NotString">>,
      <<"WeightedCycles", "UnweightedCycles">> }

Bits(pairs) == {p[1] : p \in pairs} \cup {p[2] : p \in pairs}

kBinaryProperties == {"Expanded", "Mutable", "Error"}
kTrinaryProperties == Bits(TrinaryPairs)
kFstProperties == kBinaryProperties \cup kTrinaryProperties

kStaticProperties == {"Expanded", "Mutable"}
kExtrinsicProperties == {"Error"}

\* Both bits of every trinary property of which one bit is in props.
KnownProperties(props) ==
    kBinaryProperties
        \cup Bits({p \in TrinaryPairs : p[1] \in props \/ p[2] \in props})

CompatProperties(props1, props2) ==
    LET known == KnownProperties(props1) \cap KnownProperties(props2)
    IN  props1 \cap known = props2 \cap known

-----------------------------------------------------------------------------
(* Composite masks: what each mutation preserves.                          *)

kNullProperties ==
    { "Acceptor", "IDeterministic", "ODeterministic", "NoEpsilons",
      "NoIEpsilons", "NoOEpsilons", "ILabelSorted", "OLabelSorted",
      "Unweighted", "Acyclic", "InitialAcyclic", "TopSorted", "Accessible",
      "CoAccessible", "String", "UnweightedCycles" }

kCopyProperties == kFstProperties \ {"Expanded", "Mutable"}

kSetStartProperties ==
    kFstProperties \ { "InitialCyclic", "InitialAcyclic", "Accessible",
                       "NotAccessible", "String", "NotString" }

kSetFinalProperties ==
    kFstProperties \ { "Weighted", "Unweighted", "CoAccessible",
                       "NotCoAccessible", "String", "NotString" }

kAddStateProperties ==
    kFstProperties \ {"Accessible", "CoAccessible", "String"}

kSetArcProperties == {"Expanded", "Mutable", "Error"}

kAddArcProperties ==
    kSetArcProperties \cup
    { "NotAcceptor", "NonIDeterministic", "NonODeterministic", "Epsilons",
      "IEpsilons", "OEpsilons", "NotILabelSorted", "NotOLabelSorted",
      "Weighted", "Cyclic", "InitialCyclic", "NotTopSorted", "Accessible",
      "CoAccessible", "WeightedCycles" }

kDeleteStatesProperties ==
    kSetArcProperties \cup
        (kNullProperties \ {"Accessible", "CoAccessible", "String"})

kDeleteArcsProperties ==
    kDeleteStatesProperties \cup {"NotAccessible", "NotCoAccessible"}

-----------------------------------------------------------------------------
(* FstImplBase: writing the stored word.  The Error bit is never cleared.  *)

StoreProperties(stored, props) == (stored \cap {"Error"}) \cup props

StoreMasked(stored, props, mask) ==
    (stored \ (mask \ {"Error"})) \cup (props \cap mask)

\* UpdateProperties: or-in only the pairs of mask that are not known yet.
UpdateProperties(stored, props, mask) ==
    stored \cup (props \cap (mask \ KnownProperties(stored \cap mask)))

-----------------------------------------------------------------------------
(* Property functions of the mutators.                                     *)

If(cond, props) == IF cond THEN props ELSE {}

SetStartProperties(inprops) ==
    (inprops \cap kSetStartProperties)
        \cup If("Acyclic" \in inprops, {"InitialAcyclic"})

AddStateProperties(inprops) == inprops \cap kAddStateProperties
DeleteStatesProperties(inprops) == inprops \cap kDeleteStatesProperties
DeleteArcsProperties(inprops) == inprops \cap kDeleteArcsProperties

DeleteAllStatesProperties(inprops, staticprops) ==
    (inprops \cap {"Error"}) \cup kNullProperties \cup staticprops

\* Of a weight only this is asked: is it neither Zero nor One?
SetFinalProperties(inprops, oldNontrivial, newNontrivial) ==
    LET dropped == inprops \ If(oldNontrivial, {"Weighted"})
        raised == IF newNontrivial
                  THEN (dropped \cup {"Weighted"}) \ {"Unweighted"}
                  ELSE dropped
    IN  raised \cap (kSetFinalProperties \cup {"Weighted", "Unweighted"})

\* Set the first bit of a pair and clear the second, for every pair listed.
Raise(props, pairs) == (props \cup {p[1] : p \in pairs}) \ {p[2] : p \in pairs}

\* The pairs an arc decides by itself.
ArcPairs(arc, nontrivial) ==
    If(arc.ilabel # arc.olabel, {<<"NotAcceptor", "Acceptor">>})
        \cup If(arc.ilabel = 0, {<<"IEpsilons", "NoIEpsilons">>})
        \cup If(arc.ilabel = 0 /\ arc.olabel = 0, {<<"Epsilons", "NoEpsilons">>})
        \cup If(arc.olabel = 0, {<<"OEpsilons", "NoOEpsilons">>})
        \cup If(nontrivial, {<<"Weighted", "Unweighted">>})

\* The mutation AddArcPairsLoop overlooks that a loop at s is no sorted arc.
AddArcPairsLoop(s, arc, nontrivial, prev) ==
    LET last == prev[Len(prev)]
    IN  ArcPairs(arc, nontrivial)
            \cup If(prev # <<>> /\ last.ilabel > arc.ilabel,
                    {<<"NotILabelSorted", "ILabelSorted">>})
            \cup If(prev # <<>> /\ last.olabel > arc.olabel,
                    {<<"NotOLabelSorted", "OLabelSorted">>})
            \cup If(arc.nextstate < s, {<<"NotTopSorted", "TopSorted">>})

\* prev is the sequence of the arcs already at s: only its last one matters.
AddArcPairs(s, arc, nontrivial, prev) ==
    LET last == prev[Len(prev)]
    IN  ArcPairs(arc, nontrivial)
            \cup If(prev # <<>> /\ last.ilabel > arc.ilabel,
                    {<<"NotILabelSorted", "ILabelSorted">>})
            \cup If(prev # <<>> /\ last.olabel > arc.olabel,
                    {<<"NotOLabelSorted", "OLabelSorted">>})
            \cup If(arc.nextstate <= s, {<<"NotTopSorted", "TopSorted">>})

AddArcProperties(inprops, s, arc, nontrivial, prev) ==
    LET outprops ==
            Raise(inprops, AddArcPairs(s, arc, nontrivial, prev))
                \cap (kAddArcProperties \cup
                      { "Acceptor", "NoEpsilons", "NoIEpsilons", "NoOEpsilons",
                        "ILabelSorted", "OLabelSorted", "Unweighted",
                        "TopSorted" })
    IN  outprops \cup If("TopSorted" \in outprops, {"Acyclic", "InitialAcyclic"})

\* MutableArcIterator<VectorFst>::SetValue replaces oarc by arc in place.
SetValueProperties(inprops, oarc, oldNontrivial, arc, newNontrivial) ==
    Raise(inprops \ {p[1] : p \in ArcPairs(oarc, oldNontrivial)},
          ArcPairs(arc, newNontrivial))
        \cap (kSetArcProperties \cup
              { "Acceptor", "NotAcceptor", "Epsilons", "NoEpsilons",
                "IEpsilons", "NoIEpsilons", "OEpsilons", "NoOEpsilons",
                "Weighted", "Unweighted" })

-----------------------------------------------------------------------------
(* Property functions of the operations that modify their argument.  The   *)
(* masks with "Accessible" as a condition matter to the delayed versions   *)
(* of the operations only: their states are those reached from the start.  *)

kStateSortProperties ==
    kFstProperties \ {"TopSorted", "NotTopSorted", "String", "NotString"}

kArcSortProperties ==
    kFstProperties \ { "ILabelSorted", "NotILabelSorted",
                       "OLabelSorted", "NotOLabelSorted" }

kWeightInvariantProperties ==
    kFstProperties \ { "Weighted", "Unweighted",
                       "WeightedCycles", "UnweightedCycles" }

kILabelInvariantProperties ==
    kFstProperties \ { "Acceptor", "NotAcceptor", "IDeterministic",
                       "NonIDeterministic", "Epsilons", "NoEpsilons",
                       "IEpsilons", "NoIEpsilons", "ILabelSorted",
                       "NotILabelSorted" }

kOLabelInvariantProperties ==
    kFstProperties \ { "Acceptor", "NotAcceptor", "ODeterministic",
                       "NonODeterministic", "Epsilons", "NoEpsilons",
                       "OEpsilons", "NoOEpsilons", "OLabelSorted",
                       "NotOLabelSorted" }

kAddSuperFinalProperties ==
    kFstProperties \ { "IDeterministic", "ODeterministic", "NoEpsilons",
                       "NoIEpsilons", "NoOEpsilons", "ILabelSorted",
                       "OLabelSorted", "TopSorted", "Accessible", "String" }

\* Facts that a copy of the states inside a larger machine keeps true.
CopiedFacts ==
    { "NotAcceptor", "NonIDeterministic", "NonODeterministic",
      "NotILabelSorted", "NotOLabelSorted", "Weighted", "WeightedCycles",
      "NotAccessible" }
EpsilonFacts == {"Epsilons", "IEpsilons", "OEpsilons"}

ClosureProperties(inprops, delayed) ==
    (inprops \cap {"Error", "Acceptor", "Unweighted", "Accessible"})
    \cup If("Unweighted" \in inprops, {"UnweightedCycles"})
    \cup If(~ delayed, inprops \cap { "Expanded", "Mutable", "CoAccessible",
                                      "NotTopSorted", "NotString" })
    \cup If(~ delayed \/ "Accessible" \in inprops,
            (inprops \cap (CopiedFacts \cup {"NotCoAccessible"}))
            \cup If({"Weighted", "Accessible", "CoAccessible"} \subseteq inprops,
                    {"WeightedCycles"}))

ConcatProperties(inprops1, inprops2, delayed) ==
    LET facts == CopiedFacts \cup EpsilonFacts \cup {"Cyclic", "NotCoAccessible"}
    IN  (inprops1 \cap inprops2
            \cap {"Acceptor", "Unweighted", "UnweightedCycles", "Acyclic"})
        \cup ((inprops1 \cup inprops2) \cap {"Error"})
        \cup If(~ delayed,
                (inprops1 \cap {"Expanded", "Mutable", "NotTopSorted", "NotString",
                                "InitialAcyclic", "InitialCyclic"})
                \cup (inprops2 \cap {"NotTopSorted", "NotString"}))
        \cup If(~ delayed \/ "Accessible" \in inprops1, inprops1 \cap facts)
        \cup If({"Accessible", "CoAccessible"} \subseteq inprops1 /\ ~ delayed,
                inprops2 \cap ({"Accessible", "CoAccessible"} \cup facts))

\* The mutation UnionFirstError takes the error bit of the first argument only.
UnionFirstError(inprops1, inprops2, delayed) ==
    (inprops1 \cap kSetArcProperties) \cup EpsilonFacts

UnionProperties(inprops1, inprops2, delayed) ==
    LET facts == CopiedFacts \cup EpsilonFacts \cup {"Cyclic"}
    IN  (inprops1 \cap inprops2
            \cap { "Acceptor", "Unweighted", "UnweightedCycles", "Acyclic",
                   "Accessible" })
        \cup ((inprops1 \cup inprops2) \cap {"Error"})
        \cup {"InitialAcyclic"}
        \cup If(~ delayed,
                (inprops1 \cap {"Expanded", "Mutable", "NotTopSorted"})
                \cup (inprops2 \cap {"NotTopSorted"})
                \cup EpsilonFacts
                \cup (inprops1 \cap inprops2 \cap {"CoAccessible"}))
        \cup If(~ delayed \/ "Accessible" \in inprops1, inprops1 \cap facts)
        \cup If(~ delayed \/ "Accessible" \in inprops2,
                inprops2 \cap (facts \cup {"NotCoAccessible"}))

\* The structure of the machine: what no change of labels disturbs.
StructureProperties ==
    { "Expanded", "Mutable", "Error", "Weighted", "Unweighted",
      "WeightedCycles", "UnweightedCycles", "Cyclic", "Acyclic",
      "InitialCyclic", "InitialAcyclic", "TopSorted", "NotTopSorted",
      "Accessible", "NotAccessible", "CoAccessible", "NotCoAccessible",
      "String", "NotString" }

InputBits == << "IDeterministic", "NonIDeterministic", "IEpsilons",
                "NoIEpsilons", "ILabelSorted", "NotILabelSorted" >>
OutputBits == << "ODeterministic", "NonODeterministic", "OEpsilons",
                 "NoOEpsilons", "OLabelSorted", "NotOLabelSorted" >>

\* The bits of one side of the arcs, read as those of the other side.
Transfer(inprops, from, to) == {to[i] : i \in {j \in 1 .. 6 : from[j] \in inprops}}

InvertProperties(inprops) ==
    (inprops \cap (StructureProperties
                      \cup {"Acceptor", "NotAcceptor", "Epsilons", "NoEpsilons"}))
        \cup Transfer(inprops, InputBits, OutputBits)
        \cup Transfer(inprops, OutputBits, InputBits)

ProjectProperties(inprops, from, to) ==
    {"Acceptor"} \cup (inprops \cap StructureProperties)
        \cup Transfer(inprops, from, from) \cup Transfer(inprops, from, to)
        \cup If(from[3] \in inprops, {"Epsilons"})
        \cup If(from[4] \in inprops, {"NoEpsilons"})

ReverseProperties(inprops, has_superinitial) ==
    (inprops \cap { "Expanded", "Mutable", "Error", "Acceptor", "NotAcceptor",
                    "Epsilons", "IEpsilons", "OEpsilons", "Unweighted", "Cyclic",
                    "Acyclic", "WeightedCycles", "UnweightedCycles" })
        \cup If(has_superinitial, inprops \cap {"Weighted"})

\* ILabelCompare and OLabelCompare: this side's labels become sorted.
ArcSortProperties(inprops, sorted, other) ==
    (inprops \cap kArcSortProperties) \cup {sorted}
        \cup If("Acceptor" \in inprops, {other})

-----------------------------------------------------------------------------
\* No pair has both of its bits set.
Consistent(props) == \A p \in TrinaryPairs : ~ (p[1] \in props /\ p[2] \in props)
=============================================================================
