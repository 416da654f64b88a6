------------------------------ MODULE Replace -------------------------------
(***************************************************************************)
(* Recursive transition networks: ReplaceFst (replace.h), the delayed      *)
(* machine that enters a machine for every arc with a nonterminal, and     *)
(* ReplaceUtil (replace-util.h), which simplifies a network.               *)
(*                                                                         *)
(* A network is a sequence of pairs of a nonterminal and its machine; the  *)
(* position of a machine is its FST id.  A state of ReplaceFst is the      *)
(* tuple of its stack, the id of the current machine and a state of that;  *)
(* the tables that number stacks and tuples are bijections and left out.   *)
(***************************************************************************)
EXTENDS Compose, DfsVisit

\* Of several machines for one nonterminal the hash keeps the last.
FstId(rtn, label) ==
    LET ids == {i \in DOMAIN rtn : rtn[i][1] = label} IN IF ids = {} THEN 0 ELSE Max(ids)
IsNonTerminal(rtn, label) == FstId(rtn, label) # 0

\* Labels on calls and returns: "NEITHER", "INPUT", "OUTPUT" or "BOTH".
EpsilonOnInput(label_type) == label_type \in {"NEITHER", "OUTPUT"}
EpsilonOnOutput(label_type) == label_type \in {"NEITHER", "INPUT"}
EpsilonOn(type, label_type) ==
    IF type = MATCH_INPUT THEN EpsilonOnInput(label_type) ELSE EpsilonOnOutput(label_type)

ReplaceOptions(root, call_label_type, return_label_type, call_output_label, return_label) ==
    [root |-> root,
     call_label_type |-> IF call_output_label = 0 THEN "NEITHER" ELSE call_label_type,
     return_label_type |-> IF return_label = 0 THEN "NEITHER" ELSE return_label_type,
     call_output_label |-> call_output_label, return_label |-> return_label]

-----------------------------------------------------------------------------
(* ReplaceFst.                                                             *)

\* The mutation ReturnToStart forgets where the call came from.
ReturnToStart(rtn, opts, t) ==
    LET final == rtn[t[2]][2].final[t[3]]
        top == Last(t[1])
    IN  IF final = Zero \/ t[1] = <<>> THEN <<>>
        ELSE << Arc(0, 0, final, << <<>>, top[1], top[2] >>) >>

\* At a final state of a machine that was called, the arc that returns.
ComputeFinalArc(rtn, opts, t) ==
    LET final == rtn[t[2]][2].final[t[3]]
        top == Last(t[1])
    IN  IF final = Zero \/ t[1] = <<>> THEN <<>>
        ELSE << Arc(IF EpsilonOnInput(opts.return_label_type) THEN 0 ELSE opts.return_label,
                    IF EpsilonOnOutput(opts.return_label_type) THEN 0 ELSE opts.return_label,
                    final, << Front(t[1]), top[1], top[2] >>) >>

\* An arc with a nonterminal enters its machine, or is dropped if that is empty.
ComputeArc(rtn, opts, t, arc) ==
    LET nonterminal == FstId(rtn, arc.olabel)
        callee == rtn[nonterminal][2]
        prefix == Append(t[1], << t[2], arc.nextstate >>)
    IN  IF arc.olabel = 0 \/ nonterminal = 0
        THEN << [arc EXCEPT !.nextstate = << t[1], t[2], @ >>] >>
        ELSE IF ~ HasStart(callee) THEN <<>>
        ELSE << Arc(IF EpsilonOnInput(opts.call_label_type) THEN 0 ELSE arc.ilabel,
                    IF EpsilonOnOutput(opts.call_label_type) THEN 0
                    ELSE IF opts.call_output_label = kNoLabel THEN arc.olabel
                    ELSE opts.call_output_label,
                    arc.weight, << prefix, nonterminal, callee.start >>) >>

ReplaceExpand(rtn, opts, t) ==
    ComputeFinalArc(rtn, opts, t)
    \o FlattenSeq(MapSeq(rtn[t[2]][2].arcs[t[3]], LAMBDA a : ComputeArc(rtn, opts, t, a)))

\* Without a machine for the root label it is an error, and the first one is used.
Root(rtn, opts) == IF IsNonTerminal(rtn, opts.root) THEN FstId(rtn, opts.root) ELSE 1

ReplaceFst(rtn, opts) ==
    LET root == Root(rtn, opts)
    IN  IF rtn = <<>> THEN EmptyMachine
        ELSE IF ~ HasStart(rtn[root][2]) THEN EmptyMachine
        ELSE Delayed(<< <<>>, root, rtn[root][2].start >>,
                     LAMBDA t : ReplaceExpand(rtn, opts, t),
                     LAMBDA t : IF t[1] = <<>> THEN rtn[t[2]][2].final[t[3]] ELSE Zero)

-----------------------------------------------------------------------------
(* What ReplaceFst claims about itself, and what it answers without        *)
(* expanding a state when it is known to be sorted.                        *)

SideLabel(type, arc) == IF type = MATCH_INPUT THEN arc.ilabel ELSE arc.olabel
LabelsSorted(f, type) ==
    \A s \in States(f) : \A i \in DOMAIN f.arcs[s] :
        i > 1 => SideLabel(type, f.arcs[s][i - 1]) <= SideLabel(type, f.arcs[s][i])

AllNonEmpty(rtn) == \A i \in DOMAIN rtn : HasStart(rtn[i][2])
\* All nonterminals are negative, or positive and a dense range from 1.
NegativeOrDense(rtn) ==
    \/ \A i \in DOMAIN rtn : rtn[i][1] < 0
    \/ \A i \in DOMAIN rtn : rtn[i][1] \in 1 .. Len(rtn)

ReplaceTransducer(opts) ==
    \/ opts.call_label_type \in {"INPUT", "OUTPUT"}
    \/ opts.call_label_type = "BOTH" /\ opts.call_output_label # kNoLabel
    \/ opts.return_label_type \in {"INPUT", "OUTPUT"}

OnInitialCycle(f) == HasStart(f) /\ f.start \in ReachableFrom(f, Post(f, {f.start}))

\* The facts of the machines that a connected network inherits.
InheritedFacts(f) ==
    (IF IDeterministic(f) THEN {} ELSE {"kNonIDeterministic"})
    \cup (IF NoIEpsilons(f) THEN {} ELSE {"kIEpsilons"})
    \cup (IF \A a \in AllArcs(f) : a.olabel # 0 THEN {} ELSE {"kOEpsilons"})
    \cup (IF \A a \in AllArcs(f) : a.ilabel # 0 \/ a.olabel # 0 THEN {} ELSE {"kEpsilons"})
    \cup (IF IsUnweighted(f) THEN {} ELSE {"kWeighted"})
    \cup (IF Acyclic(f) THEN {} ELSE {"kCyclic"})

\* The facts that hold if they hold for all machines.
CommonFacts(f) ==
    (IF IsAcceptor(f) THEN {"kAcceptor"} ELSE {})
    \cup (IF IDeterministic(f) THEN {"kIDeterministic"} ELSE {})
    \cup (IF NoIEpsilons(f) THEN {"kNoIEpsilons"} ELSE {})
    \cup (IF Acyclic(f) THEN {"kAcyclic"} ELSE {})
    \cup (IF IsUnweighted(f) THEN {"kUnweighted"} ELSE {})
    \cup (IF LabelsSorted(f, MATCH_INPUT) THEN {"kILabelSorted"} ELSE {})
    \cup (IF LabelsSorted(f, MATCH_OUTPUT) THEN {"kOLabelSorted"} ELSE {})

Facts(f) ==
    InheritedFacts(f) \cup CommonFacts(f)
    \cup (IF OnInitialCycle(f) THEN {"kInitialCyclic"} ELSE {"kInitialAcyclic"})
    \cup (IF f = Connect(f) THEN {"kAccessible", "kCoAccessible"} ELSE {})

\* All bits of the machines are known.  Six that it also passes on are left out
\* (kNonODeterministic, kWeightedCycles, kNotAcceptor, kNotTopSorted, kString,
\* kNotString).
ReplaceProperties(rtn, opts) ==
    LET ids == DOMAIN rtn
        root == rtn[Root(rtn, opts)][2]
        call == EpsilonOnInput(opts.call_label_type)
        return == EpsilonOnInput(opts.return_label_type)
        connected == AllNonEmpty(rtn) /\ \A i \in ids : rtn[i][2] = Connect(rtn[i][2])
        All(fact) == \A i \in ids : fact \in CommonFacts(rtn[i][2])
        If(c, fact) == IF c THEN {fact} ELSE {}
    IN  (IF connected
         THEN {"kAccessible", "kCoAccessible"} \cup If(OnInitialCycle(root), "kInitialCyclic")
              \cup UNION {InheritedFacts(rtn[i][2]) : i \in ids}
         ELSE {})
        \cup If(All("kAcceptor") /\ ~ ReplaceTransducer(opts), "kAcceptor")
        \cup If(/\ All("kIDeterministic") /\ ~ call /\ return
                /\ \A i \in ids : i = Root(rtn, opts) \/ NoIEpsilons(rtn[i][2]), "kIDeterministic")
        \cup If(All("kNoIEpsilons") /\ ~ call /\ ~ return, "kNoIEpsilons")
        \cup If(All("kAcyclic"), "kAcyclic") \cup If(All("kUnweighted"), "kUnweighted")
        \cup If(~ OnInitialCycle(root), "kInitialAcyclic")
        \cup If(All("kILabelSorted") /\ return /\ (~ call \/ NegativeOrDense(rtn)), "kILabelSorted")
        \cup If(/\ All("kOLabelSorted") /\ EpsilonOnOutput(opts.return_label_type)
                /\ ~ EpsilonOnOutput(opts.call_label_type) \/ NegativeOrDense(rtn), "kOLabelSorted")

AlwaysCache(rtn, opts) ==
    ~ (AllNonEmpty(rtn) /\ ReplaceProperties(rtn, opts) \cap {"kILabelSorted", "kOLabelSorted"} # {})

\* The three counts of a state that is not cached.
NumArcsUncached(rtn, opts, t) ==
    NumArcs(rtn[t[2]][2], t[3]) + Len(ComputeFinalArc(rtn, opts, t))

\* Leading arcs only: the rest cannot be epsilons if the arcs are sorted.
NumEpsilonsUncached(rtn, opts, t, type) ==
    LET arcs == rtn[t[2]][2].arcs[t[3]]
        other == {i \in DOMAIN arcs : SideLabel(type, arcs[i]) # 0 /\ ~ IsNonTerminal(rtn, arcs[i].olabel)}
        local == IF ~ EpsilonOn(type, opts.call_label_type)
                 THEN Cardinality({i \in DOMAIN arcs : SideLabel(type, arcs[i]) = 0})
                 ELSE IF other = {} THEN Len(arcs) ELSE Min(other) - 1
    IN  local + (IF EpsilonOn(type, opts.return_label_type) THEN Len(ComputeFinalArc(rtn, opts, t)) ELSE 0)

-----------------------------------------------------------------------------
(* ReplaceFstMatcher, over a MultiEpsMatcher for every machine.            *)

\* Asked for kNoLabel, a list of labels is found besides the epsilons.
MultiEpsFind(m, s, label, labels) ==
    IF label # kNoLabel THEN SortedFind(m, s, label)
    ELSE FlattenSeq(MapSeq(labels, LAMBDA l : SortedFind(m, s, l))) \o SortedFind(m, s, kNoLabel)

\* What Find and Next give a client that reads all matches before it goes to
\* another state, as ComposeFst does.
ReplaceFind(rtn, opts, type, t, label) ==
    LET m == Sorted(rtn[t[2]][2], type)
        epsilon == label \in {0, kNoLabel}
        found == MultiEpsFind(m, t[3], IF epsilon THEN kNoLabel ELSE label,
                              Ascending({rtn[i][1] : i \in DOMAIN rtn}))
    IN  (IF label = 0 THEN << Loop(m, t) >> ELSE <<>>)
        \o (IF epsilon THEN ComputeFinalArc(rtn, opts, t) ELSE <<>>)
        \o FlattenSeq(MapSeq(found, LAMBDA a : ComputeArc(rtn, opts, t, a)))

-----------------------------------------------------------------------------
(* ReplaceUtil.                                                            *)

\* The calls of a machine, in the order of its states and arcs.
Calls(rtn, f) ==
    LET order == Ascending(States(f))
        all == FlattenSeq([i \in DOMAIN order |-> f.arcs[order[i]]])
    IN  SelectSeq(all, LAMBDA a : IsNonTerminal(rtn, a.olabel))

\* The dependency graph: a state for every FST id and the unused id 0, and an
\* arc for every call.
GetDependencies(rtn, root) ==
    [start |-> FstId(rtn, root),
     final |-> [i \in 0 .. Len(rtn) |-> One],
     arcs |-> [i \in 0 .. Len(rtn) |->
                 IF i = 0 THEN <<>>
                 ELSE MapSeq(Calls(rtn, rtn[i][2]),
                             LAMBDA a : Arc(a.olabel, a.olabel, One, FstId(rtn, a.olabel)))]]

\* Connect, and GetFstPairs: machines that are trimmed, and those not called left
\* out.  Dependencies that an earlier question left behind (kept) are those of the
\* machines before they were trimmed.
UtilConnect(rtn, root, kept) ==
    LET Trimmed(net) ==
            LET Accessed(visit) == Ascending({i \in DOMAIN net : visit.access[i]})
                dep == GetDependencies(IF kept THEN rtn ELSE net, root)
            IN  MapSeq(Accessed(SccVisit(dep, "any")), LAMBDA i : net[i])
    IN  Trimmed(MapSeq(rtn, LAMBDA p : << p[1], Connect(p[2]) >>))

\* The order of dependencies over all FST ids, 0 included.
GetTopOrder(dep) ==
    LET Ordered(visit) ==
            [acyclic |-> visit.acyclic,
             order |-> [o \in 1 .. Cardinality(States(dep)) |->
                           CHOOSE i \in States(dep) : visit.order[i] = o - 1]]
    IN  Ordered(TopOrderVisit(dep, "any"))

\* Replaces what the arcs of pfst call in every machine, callees first, unless
\* these calls are cyclic.
ReplaceInOrder(rtn, opts, pfst, top) ==
    LET Callees(net, s) == Append(MapSeq(pfst.arcs[s], LAMBDA a : net[a.nextstate]), net[s])
        Replaced(net, s) ==
            IF pfst.arcs[s] = <<>> THEN net
            ELSE [net EXCEPT ![s][2] = ReplaceFst(Callees(net, s), [opts EXCEPT !.root = net[s][1]])]
        RECURSIVE Each(_, _)
        Each(net, rest) ==
            IF rest = <<>> THEN net ELSE Each(Replaced(net, Last(rest)), Front(rest))
    IN  IF top.acyclic THEN Each(rtn, top.order) ELSE rtn

\* The dependencies on the labels given; the root cannot be replaced.
RestrictedTo(rtn, dep, labels) ==
    [dep EXCEPT !.arcs = [i \in States(dep) |->
        SelectSeq(dep.arcs[i], LAMBDA a : rtn[a.nextstate][1] \in labels)]]

ReplaceLabels(rtn, opts, labels) ==
    LET On(pfst) == ReplaceInOrder(rtn, opts, pfst, GetTopOrder(pfst))
    IN  On(RestrictedTo(rtn, GetDependencies(rtn, opts.root), labels \ {opts.root}))

\* The statistics of the machines.  inref[k][i] counts the calls of k in i; the
\* code keeps it by rows (outref) as well.
GetStats(rtn) ==
    LET ids == 0 .. Len(rtn)
        CallsOf(i) == IF i = 0 THEN <<>> ELSE Calls(rtn, rtn[i][2])
        Machine(i) == IF i = 0 THEN EmptyMachine ELSE rtn[i][2]
        inref == [k \in ids |-> [i \in ids |->
                    Len(SelectSeq(CallsOf(i), LAMBDA a : FstId(rtn, a.olabel) = k))]]
    IN  [nstates |-> [i \in ids |-> Cardinality(States(Machine(i)))],
         narcs |-> [i \in ids |-> MapThenSumSet(LAMBDA s : NumArcs(Machine(i), s), States(Machine(i)))],
         nnonterms |-> [i \in ids |-> Len(CallsOf(i))],
         nref |-> [k \in ids |-> MapThenSumSet(LAMBDA i : inref[k][i], ids)],
         inref |-> inref]

\* The statistics once machine j is replaced wherever it is called; its own are
\* not read again.
UpdateStats(stats, j, root_fst) ==
    LET in == stats.inref[j]
        ids == DOMAIN stats.nref
        out == [k \in ids |-> stats.inref[k][j]]
        calls == MapThenSumSet(LAMBDA i : in[i], ids)
    IN  IF j = root_fst THEN stats
        ELSE [nstates |-> [i \in ids |-> stats.nstates[i] + stats.nstates[j] * in[i]],
              narcs |-> [i \in ids |-> stats.narcs[i] + (stats.narcs[j] + 1) * in[i]],
              nnonterms |-> [i \in ids |-> stats.nnonterms[i] + (stats.nnonterms[j] - 1) * in[i]],
              nref |-> [k \in ids |-> stats.nref[k] + out[k] * (calls - 1)],
              inref |-> [k \in ids |-> [i \in ids |->
                            IF i = j THEN 0 ELSE stats.inref[k][i] + in[i] * out[k]]]]

\* What ReplaceBySize and ReplaceByInstances count as small.
SmallEnough(way, stats, j) ==
    IF way.by = "size"
    THEN stats.nstates[j] <= way.nstates /\ stats.narcs[j] <= way.narcs /\ stats.nnonterms[j] <= way.nnonterms
    ELSE stats.nref[j] <= way.ninstances

\* The labels that they pick in one pass over the machines, callees first for
\* sizes and callers first for instances, with the statistics kept up to date;
\* kNoLabel is the label of id 0.  With cyclic dependencies they pick none.
Picked(rtn, root, top, way) ==
    LET Label(j) == IF j = 0 THEN kNoLabel ELSE rtn[j][1]
        RECURSIVE Pick(_, _, _)
        Pick(rest, stats, labels) ==
            IF rest = <<>> THEN labels
            ELSE IF ~ SmallEnough(way, stats, Head(rest)) THEN Pick(Tail(rest), stats, labels)
            ELSE Pick(Tail(rest), UpdateStats(stats, Head(rest), FstId(rtn, root)),
                      labels \cup {Label(Head(rest))})
    IN  IF ~ top.acyclic THEN {}
        ELSE Pick(IF way.by = "size" THEN Reverse(top.order) ELSE top.order, GetStats(rtn), {})

\* ReplaceLabels, ReplaceBySize and ReplaceByInstances.
ReplaceBy(rtn, opts, way) ==
    ReplaceLabels(rtn, opts,
        IF way.by = "labels" THEN way.labels ELSE Picked(rtn, opts.root, GetTopOrder(GetDependencies(rtn, opts.root)), way))
=============================================================================
