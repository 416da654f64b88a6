------------------------------ MODULE Compose -------------------------------
(***************************************************************************)
(* Composition (compose.h): matchers that find the arcs of a state with a  *)
(* label (matcher.h), filters that let one of several interleavings of     *)
(* epsilons pass (compose-filter.h), and the delayed machine that the two  *)
(* build; complement, intersection and difference on top of it.            *)
(*                                                                         *)
(* A matcher is a record: its machine, the side it matches on, its kind    *)
(* with the special label, and whether the sort bit of the machine is      *)
(* known.  Find gives the arcs that Value() returns until Done().          *)
(***************************************************************************)
EXTENDS Wfst

MATCH_NONE == "NONE"
MATCH_INPUT == "INPUT"
MATCH_OUTPUT == "OUTPUT"
MATCH_BOTH == "BOTH"
MATCH_UNKNOWN == "UNKNOWN"
kRequirePriority == -1

Matcher(f, type, kind, label, known) ==
    [fst |-> f, type |-> type, kind |-> kind, label |-> label, known |-> known]
Sorted(f, type) == Matcher(f, type, "Sorted", kNoLabel, TRUE)

GetLabel(m, arc) == IF m.type = MATCH_INPUT THEN arc.ilabel ELSE arc.olabel

-----------------------------------------------------------------------------
(* SortedMatcher.                                                          *)

\* The position of the first arc with a label that is not less than label.
BinarySearch(m, arcs, label) ==
    LET RECURSIVE Narrow(_, _)
        Narrow(high, size) ==
            IF size <= 1 THEN high
            ELSE LET half == size \div 2
                     mid == high - half
                 IN  Narrow(IF GetLabel(m, arcs[mid + 1]) >= label THEN mid ELSE high,
                            size - half)
    IN  Narrow(Len(arcs) - 1, Len(arcs)) + 1

LinearSearch(m, arcs, label) ==
    LET stop == {i \in DOMAIN arcs : GetLabel(m, arcs[i]) >= label}
    IN  IF stop = {} THEN Len(arcs) + 1 ELSE Min(stop)

\* The arcs from the position found, as long as they have the label.
Search(m, s, label) ==
    LET arcs == m.fst.arcs[s]
        from == IF label >= 1 /\ arcs # <<>> THEN BinarySearch(m, arcs, label)
                ELSE LinearSearch(m, arcs, label)
        other == {i \in DOMAIN arcs : i >= from /\ GetLabel(m, arcs[i]) # label}
    IN  SubSeq(arcs, from, IF other = {} THEN Len(arcs) ELSE Min(other) - 1)

\* The implicit loop that stays while the other machine takes an epsilon.
Loop(m, s) ==
    IF m.type = MATCH_OUTPUT THEN Arc(0, kNoLabel, One, s) ELSE Arc(kNoLabel, 0, One, s)

SortedFind(m, s, label) ==
    (IF label = 0 THEN << Loop(m, s) >> ELSE <<>>)
    \o Search(m, s, IF label = kNoLabel THEN 0 ELSE label)

-----------------------------------------------------------------------------
(* RhoMatcher, SigmaMatcher, PhiMatcher.                                   *)

IsWord(label) == label # 0 /\ label # kNoLabel

\* MATCHER_REWRITE_AUTO: both labels of an acceptor, else the matched one.
Rewritten(m, arc, label) ==
    IF IsAcceptor(m.fst)
    THEN [arc EXCEPT !.ilabel = IF @ = m.label THEN label ELSE @,
                     !.olabel = IF @ = m.label THEN label ELSE @]
    ELSE IF m.type = MATCH_INPUT THEN [arc EXCEPT !.ilabel = label]
    ELSE [arc EXCEPT !.olabel = label]

Special(m, s, label) ==
    MapSeq(SortedFind(m, s, m.label), LAMBDA a : Rewritten(m, a, label))

\* The rest: arcs that match every label without an arc of its own.
RhoFind(m, s, label) ==
    LET found == SortedFind(m, s, label)
    IN  IF found # <<>> \/ ~ IsWord(label) THEN found ELSE Special(m, s, label)

\* Any: arcs that match every label in addition to its own arcs.
SigmaFind(m, s, label) ==
    SortedFind(m, s, label) \o (IF IsWord(label) THEN Special(m, s, label) ELSE <<>>)

\* Failure: the arc to take when the label has no arc, as often as necessary;
\* a failure loop matches the label itself.  The failure arcs of a state form a
\* chain: several of them, or a cycle, are errors of the machine.
PhiFind(m, s, label) ==
    LET RECURSIVE Follow(_, _)
        Follow(t, weight) ==
            LET found == SortedFind(m, t, label)
                phi == SortedFind(m, t, IF m.label = 0 THEN kNoLabel ELSE m.label)
            IN  IF found # <<>>
                THEN MapSeq(found, LAMBDA a : [a EXCEPT !.weight = Times(weight, @)])
                ELSE IF phi = <<>> THEN <<>>
                ELSE IF phi[1].nextstate = t
                THEN MapSeq(phi, LAMBDA a :
                        Rewritten(m, [a EXCEPT !.weight = Times(weight, @)], label))
                ELSE Follow(phi[1].nextstate, Times(weight, phi[1].weight))
    IN  IF m.label = 0 /\ label = kNoLabel THEN <<>>
        ELSE IF m.label = 0 /\ label = 0
        THEN LET phi == SortedFind(m, s, kNoLabel)
             IN  IF phi = <<>> THEN << Loop(m, s) >> ELSE MapSeq(phi, LAMBDA a : Loop(m, s))
        ELSE IF ~ IsWord(label) THEN SortedFind(m, s, label)
        ELSE Follow(s, One)

\* To ask for the special label itself is an error, and nothing is found.
Find(m, s, label) ==
    CASE m.kind # "Sorted" /\ label = m.label /\ label # 0 -> <<>>
      [] m.kind = "Sorted" -> SortedFind(m, s, label)
      [] m.kind = "Rho" -> RhoFind(m, s, label)
      [] m.kind = "Sigma" -> SigmaFind(m, s, label)
      [] m.kind = "Phi" -> PhiFind(m, s, label)

\* The failure arcs also lead to a final weight, but not around a loop.
PhiFinal(m, s) ==
    LET RECURSIVE Follow(_, _)
        Follow(t, weight) ==
            LET phi == SortedFind(m, t, IF m.label = 0 THEN kNoLabel ELSE m.label)
            IN  IF IsFinal(m.fst, t) \/ phi = <<>> THEN Times(weight, m.fst.final[t])
                ELSE IF phi[1].nextstate = t THEN Zero
                ELSE Follow(phi[1].nextstate, Times(weight, phi[1].weight))
    IN  Follow(s, One)

MatcherFinal(m, s) == IF m.kind = "Phi" THEN PhiFinal(m, s) ELSE m.fst.final[s]

HasSpecial(m, s) ==
    /\ m.kind # "Sorted"
    /\ SortedFind(m, s, IF m.label = 0 THEN kNoLabel ELSE m.label) # <<>>
Priority(m, s) == IF HasSpecial(m, s) THEN kRequirePriority ELSE NumArcs(m.fst, s)

\* Whether the matcher can match: only a machine sorted on its side can be
\* searched, and without a test an unknown bit stays unknown.
Type(m, test) ==
    LET sorted == \A s \in States(m.fst) : \A i \in DOMAIN m.fst.arcs[s] :
                    i > 1 => GetLabel(m, m.fst.arcs[s][i-1]) <= GetLabel(m, m.fst.arcs[s][i])
    IN  IF m.type = MATCH_NONE THEN MATCH_NONE
        ELSE IF ~ (test \/ m.known) THEN MATCH_UNKNOWN
        ELSE IF sorted THEN m.type ELSE MATCH_NONE

RequireMatch(m) == m.kind # "Sorted" /\ m.type # MATCH_NONE

-----------------------------------------------------------------------------
(* The filters: FilterArc gives the next filter state, or NoState.         *)

NoState == -1

\* Whether the arcs of a state have an epsilon on the side that is matched,
\* and whether it has nothing else.
NoEps(m, s) == \A a \in ArcsOf(m.fst, s) : a[IF m.type = MATCH_INPUT THEN "ilabel" ELSE "olabel"] # 0
AllEps(m, s) ==
    /\ \A a \in ArcsOf(m.fst, s) : a[IF m.type = MATCH_INPUT THEN "ilabel" ELSE "olabel"] = 0
    /\ ~ IsFinal(m.fst, s)

NullFilter(arc1, arc2) ==
    IF arc1.olabel = kNoLabel \/ arc2.ilabel = kNoLabel THEN NoState ELSE 0

NoMatchFilter(arc1, arc2) ==
    IF arc1.olabel # 0 \/ arc2.ilabel # 0 THEN 0 ELSE NoState

\* A sequence filter that forgets that an epsilon of the second machine passed.
SequenceForgets(alleps1, noeps1, fs, arc1, arc2) ==
    IF arc1.olabel = kNoLabel
    THEN IF alleps1 THEN NoState ELSE 0
    ELSE IF arc2.ilabel = kNoLabel
    THEN IF fs # 0 THEN NoState ELSE 0
    ELSE IF arc1.olabel = 0 THEN NoState ELSE 0

\* Epsilons of the first machine before those of the second.
SequenceFilter(alleps1, noeps1, fs, arc1, arc2) ==
    IF arc1.olabel = kNoLabel
    THEN IF alleps1 THEN NoState ELSE IF noeps1 THEN 0 ELSE 1
    ELSE IF arc2.ilabel = kNoLabel
    THEN IF fs # 0 THEN NoState ELSE 0
    ELSE IF arc1.olabel = 0 THEN NoState ELSE 0

\* Epsilons of the second machine before those of the first.
AltSequenceFilter(alleps2, noeps2, fs, arc1, arc2) ==
    IF arc2.ilabel = kNoLabel
    THEN IF alleps2 THEN NoState ELSE IF noeps2 THEN 0 ELSE 1
    ELSE IF arc1.olabel = kNoLabel
    THEN IF fs = 1 THEN NoState ELSE 0
    ELSE IF arc1.olabel = 0 THEN NoState ELSE 0

\* Epsilons of both machines together as long as possible.
MatchFilter(alleps1, noeps1, alleps2, noeps2, fs, arc1, arc2) ==
    LET Alone(mine, alleps, noeps) ==
            IF fs = 0 THEN IF noeps THEN 0 ELSE IF alleps THEN NoState ELSE mine
            ELSE IF fs = mine THEN mine ELSE NoState
    IN  IF arc2.ilabel = kNoLabel THEN Alone(1, alleps2, noeps2)
        ELSE IF arc1.olabel = kNoLabel THEN Alone(2, alleps1, noeps1)
        ELSE IF arc1.olabel = 0 /\ fs # 0 THEN NoState
        ELSE 0

\* The machines of the matchers are read here on the sides that meet.
FilterArc(filter, m1, m2, t, arc1, arc2) ==
    LET first == [m1 EXCEPT !.type = MATCH_OUTPUT]
        second == [m2 EXCEPT !.type = MATCH_INPUT]
        alleps1 == AllEps(first, t[1])
        noeps1 == NoEps(first, t[1])
        alleps2 == AllEps(second, t[2])
        noeps2 == NoEps(second, t[2])
    IN  CASE filter = "Null" -> NullFilter(arc1, arc2)
          [] filter = "Trivial" -> 0
          [] filter = "NoMatch" -> NoMatchFilter(arc1, arc2)
          [] filter = "Sequence" -> SequenceFilter(alleps1, noeps1, t[3], arc1, arc2)
          [] filter = "AltSequence" -> AltSequenceFilter(alleps2, noeps2, t[3], arc1, arc2)
          [] filter = "Match" -> MatchFilter(alleps1, noeps1, alleps2, noeps2, t[3], arc1, arc2)

Filters == {"Null", "Trivial", "NoMatch", "Sequence", "AltSequence", "Match"}

-----------------------------------------------------------------------------
(* ComposeFst.  A state is the tuple that the state table numbers.         *)

SetMatchType(m1, m2) ==
    IF RequireMatch(m1) /\ Type(m1, TRUE) # MATCH_OUTPUT THEN MATCH_NONE
    ELSE IF RequireMatch(m2) /\ Type(m2, TRUE) # MATCH_INPUT THEN MATCH_NONE
    ELSE IF Type(m1, FALSE) = MATCH_OUTPUT /\ Type(m2, FALSE) = MATCH_INPUT THEN MATCH_BOTH
    ELSE IF Type(m1, FALSE) = MATCH_OUTPUT THEN MATCH_OUTPUT
    ELSE IF Type(m2, FALSE) = MATCH_INPUT THEN MATCH_INPUT
    ELSE IF Type(m1, TRUE) = MATCH_OUTPUT THEN MATCH_OUTPUT
    ELSE IF Type(m2, TRUE) = MATCH_INPUT THEN MATCH_INPUT
    ELSE MATCH_NONE

BothRequire(m1, m2, t) ==
    Priority(m1, t[1]) = kRequirePriority /\ Priority(m2, t[2]) = kRequirePriority

\* The side to search: the one that must be, else the one with more arcs.
MatchInput(type, m1, m2, t) ==
    LET priority1 == Priority(m1, t[1])
        priority2 == Priority(m2, t[2])
    IN  \/ type = MATCH_INPUT
        \/ /\ type # MATCH_OUTPUT
           /\ \/ BothRequire(m1, m2, t)
              \/ /\ priority1 # kRequirePriority
                 /\ priority2 = kRequirePriority \/ priority1 <= priority2

AddArc(arc1, arc2, fs) ==
    Arc(arc1.ilabel, arc2.olabel, Times(arc1.weight, arc2.weight),
        << arc1.nextstate, arc2.nextstate, fs >>)

MatchArc(filter, m1, m2, t, arcb, match_input) ==
    LET found == Find(IF match_input THEN m2 ELSE m1, IF match_input THEN t[2] ELSE t[1],
                      IF match_input THEN arcb.olabel ELSE arcb.ilabel)
        Paired(arc1, arc2) == AddArc(arc1, arc2, FilterArc(filter, m1, m2, t, arc1, arc2))
        Tried(arca) == Paired(IF match_input THEN arcb ELSE arca, IF match_input THEN arca ELSE arcb)
    IN  SelectSeq(MapSeq(found, Tried), LAMBDA arc : arc.nextstate[3] # NoState)

\* The loop for the epsilons of the machine that is searched comes first.
OrderedExpand(filter, m1, m2, t, match_input) ==
    LET loop == IF match_input THEN Arc(0, kNoLabel, One, t[1])
                ELSE Arc(kNoLabel, 0, One, t[2])
        arcsb == IF match_input THEN m1.fst.arcs[t[1]] ELSE m2.fst.arcs[t[2]]
    IN  FlattenSeq(MapSeq(<< loop >> \o arcsb,
                          LAMBDA b : MatchArc(filter, m1, m2, t, b, match_input)))

ComputeFinal(m1, m2, t) ==
    Times(MatcherFinal(m1, t[1]), MatcherFinal(m2, t[2]))

ComposeFst(filter, m1, m2) ==
    LET type == SetMatchType(m1, m2)
    IN  IF ~ HasStart(m1.fst) \/ ~ HasStart(m2.fst) THEN EmptyMachine
        ELSE Delayed(<< m1.fst.start, m2.fst.start, 0 >>,
                     LAMBDA t : OrderedExpand(filter, m1, m2, t, MatchInput(type, m1, m2, t)),
                     LAMBDA t : ComputeFinal(m1, m2, t))

\* The errors: no side can be searched, or both have to be.
ComposeError(m1, m2, composed) ==
    LET OfType(type) ==
            \/ type = MATCH_NONE
            \/ type = MATCH_BOTH /\ \E t \in States(composed) : BothRequire(m1, m2, t)
    IN  OfType(SetMatchType(m1, m2))

-----------------------------------------------------------------------------
(* Complement and difference.                                              *)

kRhoLabel == -2

\* States move up by one; state 0 accepts whatever leaves the machine.
ComplementFst(f) ==
    LET rho == Arc(kRhoLabel, kRhoLabel, One, 0)
        S == {0} \cup {s + 1 : s \in States(f)}
        Up(arcs) == MapSeq(arcs, LAMBDA a : [a EXCEPT !.nextstate = @ + 1])
    IN  [start |-> IF HasStart(f) THEN f.start + 1 ELSE 0,
         final |-> [s \in S |-> IF s = 0 \/ ~ IsFinal(f, s - 1) THEN One ELSE Zero],
         arcs |-> [s \in S |-> << rho >> \o (IF s = 0 THEN <<>> ELSE Up(f.arcs[s - 1]))]]

ComplementError(f) == ~ (IsUnweighted(f) /\ NoIEpsilons(f) /\ IDeterministic(f) /\ IsAcceptor(f))

\* A RhoMatcher without a label is the matcher that it wraps.
DifferenceMatchers(f1, f2, known) ==
    << Matcher(f1, MATCH_NONE, "Sorted", kNoLabel, known),
       Matcher(ComplementFst(f2), MATCH_INPUT, "Rho", kRhoLabel, known) >>
=============================================================================
