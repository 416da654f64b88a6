----------------------------- MODULE SymbolMap -----------------------------
(***************************************************************************)
(* What a symbol table promises: every object is a list of its own of      *)
(* pairs of a symbol and a key, in which no symbol and no key occurs       *)
(* twice.  Operations on one object never show in another one.             *)
(***************************************************************************)
EXTENDS Integers, Sequences, SequencesExt

CONSTANTS Objects, Symbols, Keys

VARIABLE table  \* [Objects -> sequences of << symbol, key >>]

SymbolsIn(t) == {e[1] : e \in Range(t)}
KeysIn(t) == {e[2] : e \in Range(t)}
Bijective(t) == \A i, j \in DOMAIN t : i # j => t[i][1] # t[j][1] /\ t[i][2] # t[j][2]

\* The symbols that u has of v after position n are in the order of v.
InOrderOf(v, u, n) ==
    \A i, j \in DOMAIN v, p, q \in (n + 1)..Len(u) :
        u[p][1] = v[i][1] /\ u[q][1] = v[j][1] /\ i < j => p < q

Init == table = [o \in Objects |-> <<>>]

(* The operations, on a list t that becomes u, with the list v of another object. *)

\* A new symbol with a new key at the end.
Add(t, u) == Len(u) = Len(t) + 1 /\ SubSeq(u, 1, Len(t)) = t

\* One key less; the others keep their symbols and their order.
RemoveOne(t, u) == \E i \in DOMAIN t : u = RemoveAt(t, i)

\* The symbols of v that are new, in the order of v, with growing new keys.
AddTable(t, v, u) ==
    LET n == Len(t)
    IN  /\ Len(u) >= n /\ SubSeq(u, 1, n) = t
        /\ SymbolsIn(u) = SymbolsIn(t) \cup SymbolsIn(v)
        /\ InOrderOf(v, u, n)
        /\ \A i \in (n + 1)..Len(u) : \A j \in 1..(i - 1) : u[j][2] < u[i][2]

\* Copies, also through a text file; a binary file may have another order.
Reread(v, u) == Len(u) = Len(v) /\ Range(u) = Range(v)

\* Keys 0, 1, ... in the order of the old keys.
Compact(v, u) ==
    /\ Len(u) = Len(v)
    /\ SymbolsIn(u) = SymbolsIn(v)
    /\ \A i \in DOMAIN u : u[i][2] = i - 1
    /\ \A d, e \in Range(v), i, j \in DOMAIN u : u[i][1] = d[1] /\ u[j][1] = e[1] /\ d[2] < e[2] => i < j

\* Some keys only, in their order.
Prune(v, u) == Range(u) \subseteq Range(v) /\ InOrderOf(v, u, 0)

\* All symbols of both; v, then what w adds.
Merge(v, w, u) ==
    /\ SymbolsIn(u) = SymbolsIn(v) \cup SymbolsIn(w)
    /\ SubSeq(u, 1, Len(v)) = v

Next ==
    LET old == table
        new == table'
    IN  \E o \in Objects :
            /\ \A p \in Objects \ {o} : new[p] = old[p]
            /\ Bijective(new[o])
            /\ \/ Add(old[o], new[o]) \/ RemoveOne(old[o], new[o])
               \/ \E p \in Objects : \/ Reread(old[p], new[o]) \/ AddTable(old[o], old[p], new[o])
                                     \/ Compact(old[p], new[o]) \/ Prune(old[p], new[o])
               \/ \E l, r \in Objects : Merge(old[l], old[r], new[o])

Spec == Init /\ [][Next]_table
=============================================================================
