-------------------------- MODULE SymbolMapProofs --------------------------
(***************************************************************************)
(* Symbol tables as a client sees them: lists of symbols and keys.         *)
(*                                                                         *)
(* Every operation is followed on List(t): reading, pruning, compacting    *)
(* and merging are loops over AddSymbol, and what holds after i rounds is  *)
(* shown by induction on i.  Inv is the inductive invariant: every         *)
(* implementation in use is Sound (SymbolTableProofs), and a thread in a   *)
(* checksum call finds the sums it has computed still there.               *)
(***************************************************************************)
EXTENDS SymbolTableProofs

-----------------------------------------------------------------------------
(* Adding symbols, one after the other.                                    *)

\* A symbol occurs in a list, a key occurs in it.
Has(q, s) == \E i \in DOMAIN q : q[i][1] = s
HasKey(q, k) == \E i \in DOMAIN q : q[i][2] = k

\* AddSymbol makes u of t.
Added(t, s, k, u) ==
    /\ Sound(u) /\ u.mutex = t.mutex
    /\ List(u) = IF Has(List(t), s) THEN List(t) ELSE Append(List(t), << s, k >>)
    /\ u.available_key = IF ~ Has(List(t), s) /\ k >= t.available_key THEN k + 1 ELSE t.available_key

\* AddSymbol appends a pair, or finds the symbol and keeps the list.
LEMMA SymbolAdded ==
  ASSUME NEW t, Sound(t), NEW s \in Symbols, NEW k \in Int, k # kNoSymbol,
         Has(List(t), s) \/ ~ HasKey(List(t), k)
  PROVE  Added(t, s, k, AddSymbol(t, s, k))
<1>1. t \in Tables
  BY DEF Sound
<1>2. s \in Range(t.symbols) <=> Has(List(t), s)
  BY <1>1, SymbolInList DEF Has
<1>3. CASE Has(List(t), s)
  BY <1>2, <1>3, AddKnown DEF Added
<1>4. CASE ~ Has(List(t), s)
  <2>1. \A i \in DOMAIN List(t) : List(t)[i][2] # k
    BY <1>4 DEF HasKey
  <2> QED
    BY <1>2, <1>4, <2>1, AddFresh DEF Added
<1> QED
  BY <1>3, <1>4

\* A list that grew to q by one pair or not at all.
LEMMA Appended ==
  ASSUME NEW p \in Seq(Pairs), NEW e \in Pairs
  PROVE  LET q == Append(p, e)
         IN  /\ q \in Seq(Pairs) /\ Len(q) = Len(p) + 1 /\ q[Len(p) + 1] = e
             /\ \A i \in DOMAIN p : q[i] = p[i]
             /\ DOMAIN p = 1..Len(p) /\ DOMAIN q = 1..(Len(p) + 1) /\ Len(p) \in Nat
OBVIOUS

\* The pairs of a table as ListFacts has them.
LEMMA ListType ==
  ASSUME NEW t, Sound(t)
  PROVE  /\ List(t) \in Seq(Pairs) /\ Len(List(t)) \in Nat /\ DOMAIN List(t) = 1..Len(List(t))
         /\ t \in Tables /\ t.available_key \in Nat
         /\ \A i \in DOMAIN List(t) : List(t)[i][1] \in Symbols /\ List(t)[i][2] \in Int
<1>1. List(t) \in Seq(Pairs)
  BY ListFacts DEF OneToOne
<1>2. t \in Tables /\ t.available_key \in Int /\ t.dense_key_limit \in Nat /\ t.available_key >= t.dense_key_limit
  BY Fields DEF Sound, KeysSound
<1> QED
  BY <1>1, <1>2 DEF Pairs

\* Pairs without repetition that are added to an empty table one after the
\* other are its list.
LEMMA FromEntriesFacts ==
  ASSUME NEW t, Sound(t), List(t) = <<>>, NEW entries, OneToOne(entries)
  PROVE  LET u == FromEntries(t, entries)
         IN  Sound(u) /\ List(u) = entries /\ u.mutex = t.mutex
<1> DEFINE L == Len(entries)
<1>1. t \in Tables /\ entries \in Seq(Pairs) /\ L \in Nat /\ DOMAIN entries = 1..L
  BY DEF Sound, OneToOne
<1>2. PICK f : /\ FromEntries(t, entries) = f[L]
               /\ f[0] = t
               /\ \A i \in 1..L : f[i] = AddSymbol(f[i - 1], entries[i][1], entries[i][2])
  BY <1>1, FromEntriesStates
<1> DEFINE So(i) == /\ Sound(f[i]) /\ f[i].mutex = t.mutex /\ Len(List(f[i])) = i
                    /\ \A j \in 1..i : List(f[i])[j] = entries[j]
           G == {i \in 0..L : So(i)}
<1>3. 0 \in G
  <2>1. Len(<<>>) = 0 /\ \A j \in 1..0 : FALSE
    OBVIOUS
  <2> QED
    BY <1>1, <1>2, <2>1
<1>4. ASSUME NEW i \in 1..L, i - 1 \in G PROVE i \in G
  <2> DEFINE m == i - 1
             x == f[m]
             e == entries[i]
  <2>1. m \in 0..L /\ m \in Nat /\ m + 1 = i /\ So(m)
    BY <1>1, <1>4
  <2>2. e \in Pairs /\ e[1] \in Symbols /\ e[2] \in Int /\ e[2] # kNoSymbol /\ e = << e[1], e[2] >>
    BY <1>1 DEF OneToOne, Pairs
  <2>3. Sound(x) /\ List(x) \in Seq(Pairs) /\ DOMAIN List(x) = 1..m
    BY <2>1, ListType
  <2>4. ASSUME NEW j \in DOMAIN List(x) PROVE List(x)[j][1] # e[1] /\ List(x)[j][2] # e[2]
    <3>1. j \in DOMAIN entries /\ i \in DOMAIN entries /\ j # i /\ List(x)[j] = entries[j]
      BY <1>1, <2>1, <2>3
    <3> QED
      BY <3>1 DEF OneToOne
  <2>5. ~ Has(List(x), e[1]) /\ ~ HasKey(List(x), e[2])
    BY <2>4 DEF Has, HasKey
  <2>6. Added(x, e[1], e[2], f[i])
    BY <1>2, <2>2, <2>3, <2>5, SymbolAdded
  <2>7. Sound(f[i]) /\ f[i].mutex = t.mutex /\ List(f[i]) = Append(List(x), e)
    BY <2>1, <2>2, <2>5, <2>6 DEF Added
  <2> HIDE DEF x, e, m
  <2>8. /\ Len(List(f[i])) = m + 1 /\ List(f[i])[m + 1] = e
        /\ \A j \in DOMAIN List(x) : List(f[i])[j] = List(x)[j]
    <3>1. Len(List(x)) = m
      BY <2>1 DEF x
    <3> QED
      BY <3>1, <2>2, <2>3, <2>7, Appended
  <2>9. \A j \in 1..i : j = i \/ j \in 1..m
    BY <2>1
  <2>10. \A j \in 1..i : List(f[i])[j] = entries[j]
    BY <2>1, <2>3, <2>8, <2>9 DEF x, e
  <2> QED
    BY <2>1, <2>7, <2>8, <2>10
<1> HIDE DEF G
<1>5. \A i \in 0..L : i \in G
  BY <1>1, <1>3, <1>4, LoopInvariant
<1>6. So(L)
  BY <1>1, <1>5 DEF G
<1>7. List(f[L]) \in Seq(Pairs)
  BY <1>6, ListType
<1>8. List(f[L]) = entries
  BY <1>1, <1>6, <1>7, SameSeq
<1> QED
  BY <1>2, <1>6, <1>8

\* A list q that grew to w by the new ones of the first m symbols, with keys
\* above the earlier ones.
Prefix(q, w) == Len(w) >= Len(q) /\ \A j \in 1..Len(q) : w[j] = q[j]
Origins(q, symbols, m, w) == \A p \in (Len(q) + 1)..Len(w) : \E j \in 1..m : w[p][1] = symbols[j]
KeysGrow(q, w) == \A p \in (Len(q) + 1)..Len(w) : \A j \in 1..(p - 1) : w[j][2] < w[p][2]
OrderKept(q, symbols, w) ==
    \A a, b \in DOMAIN symbols, p, r \in (Len(q) + 1)..Len(w) :
        w[p][1] = symbols[a] /\ w[r][1] = symbols[b] /\ a < b => p < r
Grew(q, symbols, m, w) ==
    /\ Prefix(q, w) /\ Origins(q, symbols, m, w) /\ KeysGrow(q, w)
    /\ \A j \in 1..m : Has(w, symbols[j])
    /\ Distinct(symbols) => OrderKept(q, symbols, w)

\* A round of AddTable that finds the symbol.
LEMMA GrewKnown ==
  ASSUME NEW q, NEW symbols, NEW m \in Nat, NEW w, Grew(q, symbols, m, w), Has(w, symbols[m + 1])
  PROVE  Grew(q, symbols, m + 1, w)
<1>1. \A j \in 1..(m + 1) : j \in 1..m \/ j = m + 1
  OBVIOUS
<1>2. \A j \in 1..m : j \in 1..(m + 1)
  OBVIOUS
<1>3. Origins(q, symbols, m + 1, w)
  BY <1>2 DEF Grew, Origins
<1>4. \A j \in 1..(m + 1) : Has(w, symbols[j])
  BY <1>1 DEF Grew
<1> QED
  BY <1>3, <1>4 DEF Grew

\* A round of AddTable that adds the symbol, under a key above all others.
LEMMA GrewNew ==
  ASSUME NEW q \in Seq(Pairs), NEW symbols \in Seq(Symbols), NEW m \in 0..(Len(symbols) - 1),
         NEW w \in Seq(Pairs), Grew(q, symbols, m, w),
         NEW k \in Int, \A j \in DOMAIN w : w[j][2] < k
  PROVE  Grew(q, symbols, m + 1, Append(w, << symbols[m + 1], k >>))
<1> DEFINE s == symbols[m + 1]
           e == << s, k >>
           z == Append(w, e)
           n == Len(q)
           W == Len(w)
<1>1. /\ n \in Nat /\ W \in Nat /\ m \in Nat /\ Len(symbols) \in Nat /\ DOMAIN symbols = 1..Len(symbols)
      /\ m + 1 \in DOMAIN symbols
  OBVIOUS
<1>2. s \in Symbols /\ e \in Pairs
  BY <1>1 DEF Pairs
<1>3. /\ Len(z) = W + 1 /\ z[W + 1] = e /\ \A i \in 1..W : z[i] = w[i]
      /\ DOMAIN w = 1..W /\ DOMAIN z = 1..(W + 1)
  <2> HIDE DEF e
  <2> QED
    BY <1>2, Appended
<1>a. e[1] = s /\ e[2] = k
  OBVIOUS
<1> HIDE DEF z, e, s
<1>4. n <= W /\ \A j \in 1..n : w[j] = q[j]
  BY DEF Grew, Prefix
<1>5. Prefix(q, z)
  <2>1. \A j \in 1..n : j \in 1..W
    BY <1>1, <1>4
  <2> QED
    BY <1>1, <1>3, <1>4, <2>1 DEF Prefix
<1>b. \A p \in (n + 1)..(W + 1) : p = W + 1 \/ (p \in (n + 1)..W /\ p \in 1..W)
  BY <1>1
<1>6. Origins(q, symbols, m + 1, z)
  <2>1. \A j \in 1..m : j \in 1..(m + 1)
    BY <1>1
  <2>2. m + 1 \in 1..(m + 1)
    BY <1>1
  <2>3. \A p \in (n + 1)..W : \E j \in 1..m : w[p][1] = symbols[j]
    BY DEF Grew, Origins
  <2>4. z[W + 1][1] = symbols[m + 1]
    BY <1>3, <1>a DEF s
  <2> QED
    BY <1>b, <2>1, <2>2, <2>3, <2>4, <1>3 DEF Origins
<1>7. KeysGrow(q, z)
  <2> SUFFICES ASSUME NEW p \in (n + 1)..(W + 1), NEW j \in 1..(p - 1) PROVE z[j][2] < z[p][2]
    BY <1>3 DEF KeysGrow
  <2>1. j \in 1..W /\ z[j] = w[j]
    BY <1>1, <1>3
  <2>2. CASE p = W + 1
    BY <2>1, <2>2, <1>3, <1>a
  <2>3. CASE p \in (n + 1)..W /\ p \in 1..W
    <3>1. w[j][2] < w[p][2]
      BY <2>3 DEF Grew, KeysGrow
    <3> QED
      BY <3>1, <2>1, <2>3, <1>3
  <2> QED
    BY <1>b, <2>2, <2>3
<1>8. ASSUME NEW j \in 1..(m + 1) PROVE Has(z, symbols[j])
  <2>1. CASE j \in 1..m
    <3>1. PICK i \in 1..W : w[i][1] = symbols[j]
      BY <2>1, <1>3 DEF Grew, Has
    <3>2. z[i][1] = symbols[j] /\ i \in 1..(W + 1)
      BY <3>1, <1>1, <1>3
    <3> QED
      BY <3>2, <1>3 DEF Has
  <2>2. CASE j = m + 1
    <3>1. z[W + 1][1] = symbols[j] /\ W + 1 \in 1..(W + 1)
      BY <2>2, <1>1, <1>3, <1>a DEF s
    <3> QED
      BY <3>1, <1>3 DEF Has
  <2> QED
    BY <2>1, <2>2
<1>9. ASSUME Distinct(symbols) PROVE OrderKept(q, symbols, z)
  <2> SUFFICES ASSUME NEW a \in DOMAIN symbols, NEW b \in DOMAIN symbols,
                      NEW p \in (n + 1)..(W + 1), NEW r \in (n + 1)..(W + 1),
                      z[p][1] = symbols[a], z[r][1] = symbols[b], a < b
               PROVE  p < r
    BY <1>3 DEF OrderKept
  <2>1. z[W + 1][1] = symbols[m + 1]
    BY <1>3, <1>a DEF s
  <2>2. CASE p = W + 1
    <3>1. a = m + 1
      BY <1>1, <1>9, <2>1, <2>2 DEF Distinct
    <3>2. b # m + 1
      BY <3>1
    <3>3. r # W + 1
      BY <1>1, <1>9, <2>1, <3>2 DEF Distinct
    <3>4. r \in (n + 1)..W /\ z[r] = w[r]
      BY <3>3, <1>b, <1>3
    <3>5. PICK j \in 1..m : w[r][1] = symbols[j]
      BY <3>4 DEF Grew, Origins
    <3>6. j \in DOMAIN symbols
      BY <1>1
    <3>7. j = b
      BY <3>4, <3>5, <3>6, <1>9 DEF Distinct
    <3> QED
      BY <3>1, <3>7, <1>1
  <2>3. CASE p # W + 1 /\ r = W + 1
    BY <2>3, <1>1
  <2>4. CASE p # W + 1 /\ r # W + 1
    <3>1. p \in (n + 1)..W /\ z[p] = w[p] /\ r \in (n + 1)..W /\ z[r] = w[r]
      BY <2>4, <1>b, <1>3
    <3>2. OrderKept(q, symbols, w)
      BY <1>9 DEF Grew
    <3> QED
      BY <3>1, <3>2 DEF OrderKept
  <2> QED
    BY <2>2, <2>3, <2>4
<1> QED
  BY <1>5, <1>6, <1>7, <1>8, <1>9 DEF Grew, z, e, s

\* The loop that adds symbols with new keys.
LEMMA AddAllFacts ==
  ASSUME NEW t, Sound(t), NEW symbols \in Seq(Symbols)
  PROVE  LET u == AddAll(t, symbols)
         IN  Sound(u) /\ u.mutex = t.mutex /\ Grew(List(t), symbols, Len(symbols), List(u))
<1> DEFINE L == Len(symbols)
           q == List(t)
<1>1. t \in Tables /\ L \in Nat /\ q \in Seq(Pairs) /\ Len(q) \in Nat /\ DOMAIN q = 1..Len(q)
  BY ListType
<1>2. PICK f : /\ AddAll(t, symbols) = f[L]
               /\ f[0] = t
               /\ \A i \in 1..L : f[i] = AddNew(f[i - 1], symbols[i])
  BY <1>1, AddAllStates
<1> DEFINE So(i) == Sound(f[i]) /\ f[i].mutex = t.mutex /\ Grew(q, symbols, i, List(f[i]))
           G == {i \in 0..L : So(i)}
<1>3. 0 \in G
  <2>1. \A p \in (Len(q) + 1)..Len(q) : FALSE
    BY <1>1
  <2>2. \A j \in 1..0 : FALSE
    OBVIOUS
  <2>3. Prefix(q, q)
    BY <1>1 DEF Prefix
  <2>4. Origins(q, symbols, 0, q) /\ KeysGrow(q, q) /\ OrderKept(q, symbols, q)
    BY <2>1 DEF Origins, KeysGrow, OrderKept
  <2>5. Grew(q, symbols, 0, q)
    BY <2>2, <2>3, <2>4 DEF Grew
  <2> QED
    BY <1>1, <1>2, <2>5
<1>4. ASSUME NEW i \in 1..L, i - 1 \in G PROVE i \in G
  <2> DEFINE m == i - 1
             x == f[m]
             k == x.available_key
  <2>1. m \in 0..L /\ m \in Nat /\ m + 1 = i /\ m \in 0..(L - 1) /\ i \in 0..L /\ So(m)
    BY <1>1, <1>4
  <2>2. symbols[i] \in Symbols
    BY <1>1
  <2>3. Sound(x) /\ List(x) \in Seq(Pairs) /\ k \in Nat
    BY <2>1, ListType
  <2>4. \A j \in DOMAIN List(x) : List(x)[j][2] < k
    BY <2>3, ListFacts
  <2>5. ~ HasKey(List(x), k) /\ k \in Int /\ k # kNoSymbol
    <3>1. \A j \in DOMAIN List(x) : List(x)[j][2] \in Int
      BY <2>3, ListType
    <3> QED
      BY <2>3, <2>4, <3>1 DEF HasKey, kNoSymbol
  <2>6. Added(x, symbols[i], k, f[i])
    BY <1>2, <2>2, <2>3, <2>5, SymbolAdded DEF AddNew
  <2> HIDE DEF m, k
  <2>7. CASE Has(List(x), symbols[i])
    <3>1. Sound(f[i]) /\ f[i].mutex = t.mutex /\ List(f[i]) = List(x)
      BY <2>1, <2>6, <2>7 DEF Added
    <3>2. Grew(q, symbols, m + 1, List(x))
      BY <2>1, <2>7, GrewKnown
    <3> QED
      BY <2>1, <3>1, <3>2
  <2>8. CASE ~ Has(List(x), symbols[i])
    <3>1. Sound(f[i]) /\ f[i].mutex = t.mutex /\ List(f[i]) = Append(List(x), << symbols[i], k >>)
      BY <2>1, <2>6, <2>8 DEF Added
    <3>2. Grew(q, symbols, m + 1, Append(List(x), << symbols[m + 1], k >>))
      <4> HIDE DEF q, x
      <4>1. q \in Seq(Pairs) /\ Grew(q, symbols, m, List(x))
        BY <1>1, <2>1 DEF x
      <4> QED
        BY <4>1, <2>1, <2>3, <2>4, <2>5, GrewNew
    <3> QED
      BY <2>1, <3>1, <3>2
  <2> QED
    BY <2>7, <2>8
<1> HIDE DEF G
<1>5. \A i \in 0..L : i \in G
  BY <1>1, <1>3, <1>4, LoopInvariant
<1>6. So(L)
  BY <1>1, <1>5 DEF G
<1> QED
  BY <1>2, <1>6

\* A new table.
LEMMA EmptyIsSound == Sound(EmptyTable) /\ List(EmptyTable) = <<>> /\ EmptyTable.mutex = None
<1>1. 0 \in Nat
  OBVIOUS
<1> QED
  BY <1>1, EmptySound, Zenon

\* The states of the loop of PruneSymbolTable.
LEMMA PruneStates ==
  ASSUME NEW t, NEW seen, Entries(t) \in Seq(Pairs)
  PROVE  \E f : /\ PruneSymbolTable(t, seen) = f[Len(Entries(t))]
               /\ f[0] = EmptyTable
               /\ \A i \in 1..Len(Entries(t)) : f[i] = IF Entries(t)[i][2] \in seen \cup {0}
                         THEN AddSymbol(f[i - 1], Entries(t)[i][1], Entries(t)[i][2]) ELSE f[i - 1]
<1> DEFINE L == Len(Entries(t))
           Op(x, i) == IF Entries(t)[i][2] \in seen \cup {0}
                       THEN AddSymbol(x, Entries(t)[i][1], Entries(t)[i][2]) ELSE x
           S == Tables
           step == [i \in 1..L |-> [x \in S |-> Op(x, i)]]
           F(f) == [i \in 0..L |-> IF i = 0 THEN EmptyTable ELSE Op(f[i - 1], i)]
           f == CHOOSE f : f = F(f)
<1>1. L \in Nat /\ EmptyTable \in S
  BY EmptyIsSound DEF Sound
<1>2. \A i \in 1..L : \A x \in S : Op(x, i) \in S
  <2>1. \A i \in 1..L : Entries(t)[i][1] \in Symbols /\ Entries(t)[i][2] \in Int
    BY DEF Pairs
  <2> QED
    BY <2>1, AddSymbolType
<1>3. PruneSymbolTable(t, seen) = f[Len(Entries(t))]
  BY DEF PruneSymbolTable
<1> HIDE DEF L, Op, S
<1>4. Rounds(S, L, step)
  BY <1>2 DEF Rounds
<1>5. PICK h : States(h, S, EmptyTable, L, step)
  <2> HIDE DEF step
  <2> QED
    BY <1>1, <1>4, LoopStates
<1>6. h = F(h)
  <2>1. h \in [0..L -> S] /\ h[0] = EmptyTable /\ \A i \in 1..L : h[i] = step[i][h[i - 1]]
    BY <1>5 DEF States
  <2>2. \A i \in 1..L : i - 1 \in 0..L
    BY <1>1
  <2>3. \A i \in 1..L : h[i] = Op(h[i - 1], i)
    BY <2>1, <2>2
  <2>4. \A i \in 0..L : i = 0 \/ i \in 1..L
    BY <1>1
  <2>5. \A i \in 0..L : h[i] = F(h)[i]
    BY <2>1, <2>3, <2>4
  <2> QED
    BY <2>1, <2>5
<1>7. f = F(f)
  <2> HIDE DEF F
  <2> QED
    BY <1>6
<1> HIDE DEF f
<1>8. 0 \in 0..L /\ \A i \in 1..L : i \in 0..L /\ i # 0
  BY <1>1
<1>9. f[0] = EmptyTable /\ \A i \in 1..L : f[i] = Op(f[i - 1], i)
  BY <1>7, <1>8
<1> QED
  BY <1>3, <1>9 DEF L, Op

\* Some of the first m pairs of a list without repetition, in their order.
Picked(v, m, w) ==
    /\ w \in Seq(Pairs)
    /\ \A p \in DOMAIN w : \E j \in 1..m : w[p] = v[j]
    /\ \A p, r \in DOMAIN w, a, b \in DOMAIN v : w[p][1] = v[a][1] /\ w[r][1] = v[b][1] /\ a < b => p < r

\* A round of PruneSymbolTable keeps the order of the old table, and the pair is new.
LEMMA PickedNext ==
  ASSUME NEW v, OneToOne(v), NEW m \in 0..(Len(v) - 1), NEW w, Picked(v, m, w)
  PROVE  /\ Picked(v, m + 1, w) /\ Picked(v, m + 1, Append(w, v[m + 1]))
         /\ ~ Has(w, v[m + 1][1]) /\ ~ HasKey(w, v[m + 1][2])
<1> DEFINE e == v[m + 1]
           z == Append(w, e)
           W == Len(w)
<1>1. /\ v \in Seq(Pairs) /\ w \in Seq(Pairs) /\ m \in Nat /\ W \in Nat /\ DOMAIN v = 1..Len(v)
      /\ m + 1 \in DOMAIN v /\ e \in Pairs /\ Len(v) \in Nat
  BY DEF OneToOne, Picked
<1>2. /\ z \in Seq(Pairs) /\ Len(z) = W + 1 /\ z[W + 1] = e /\ \A i \in 1..W : z[i] = w[i]
      /\ DOMAIN w = 1..W /\ DOMAIN z = 1..(W + 1)
  <2> HIDE DEF e
  <2> QED
    BY <1>1, Appended
<1> HIDE DEF z
<1>3. ASSUME NEW p \in DOMAIN w, NEW b \in DOMAIN v, w[p][1] = v[b][1] \/ w[p][2] = v[b][2]
      PROVE  b \in 1..m
  <2>1. PICK j \in 1..m : w[p] = v[j]
    BY DEF Picked
  <2>2. j \in DOMAIN v
    BY <1>1
  <2>3. j = b
    BY <1>3, <2>1, <2>2 DEF OneToOne
  <2> QED
    BY <2>3
<1>4. m + 1 \notin 1..m
  BY <1>1
<1>5. ~ Has(w, e[1]) /\ ~ HasKey(w, e[2])
  BY <1>1, <1>3, <1>4 DEF Has, HasKey
<1>6. \A p \in DOMAIN w : \E j \in 1..(m + 1) : w[p] = v[j]
  <2>1. \A j \in 1..m : j \in 1..(m + 1)
    BY <1>1
  <2> QED
    BY <2>1 DEF Picked
<1>7. Picked(v, m + 1, w)
  BY <1>6 DEF Picked
<1>8. \A p \in DOMAIN z : p = W + 1 \/ p \in DOMAIN w
  BY <1>1, <1>2
<1>9. \A p \in DOMAIN z : \E j \in 1..(m + 1) : z[p] = v[j]
  <2>1. m + 1 \in 1..(m + 1)
    BY <1>1
  <2> QED
    BY <2>1, <1>2, <1>6, <1>8
<1>10. ASSUME NEW p \in DOMAIN z, NEW r \in DOMAIN z, NEW a \in DOMAIN v, NEW b \in DOMAIN v,
              z[p][1] = v[a][1], z[r][1] = v[b][1], a < b
       PROVE  p < r
  <2>1. CASE p = W + 1
    <3>1. a = m + 1
      BY <1>1, <1>2, <1>10, <2>1 DEF OneToOne
    <3>2. b # m + 1 /\ b \notin 1..m
      BY <1>1, <1>10, <3>1
    <3>3. r # W + 1
      BY <1>1, <1>2, <1>10, <3>2 DEF OneToOne
    <3>4. r \in DOMAIN w /\ w[r][1] = v[b][1]
      BY <3>3, <1>8, <1>2, <1>10
    <3> QED
      BY <3>2, <3>4, <1>3
  <2>2. CASE p # W + 1 /\ r = W + 1
    BY <2>2, <1>1, <1>2
  <2>3. CASE p # W + 1 /\ r # W + 1
    <3>1. p \in DOMAIN w /\ r \in DOMAIN w /\ z[p] = w[p] /\ z[r] = w[r]
      BY <2>3, <1>2, <1>8
    <3> QED
      BY <3>1, <1>10 DEF Picked
  <2> QED
    BY <2>1, <2>2, <2>3
<1>11. Picked(v, m + 1, z)
  BY <1>2, <1>9, <1>10 DEF Picked
<1> QED
  BY <1>5, <1>7, <1>11 DEF z

\* PruneSymbolTable keeps some of the pairs, in their order.
LEMMA PruneFacts ==
  ASSUME NEW t, Sound(t), NEW seen
  PROVE  LET u == PruneSymbolTable(t, seen)
         IN  Sound(u) /\ u.mutex = None /\ Picked(List(t), Len(List(t)), List(u))
<1> DEFINE v == Entries(t)
           L == Len(v)
<1>1. v = List(t) /\ OneToOne(v) /\ v \in Seq(Pairs) /\ L \in Nat /\ DOMAIN v = 1..L
  BY ListFacts DEF OneToOne
<1>2. PICK f : /\ PruneSymbolTable(t, seen) = f[L]
               /\ f[0] = EmptyTable
               /\ \A i \in 1..L : f[i] = IF v[i][2] \in seen \cup {0}
                         THEN AddSymbol(f[i - 1], v[i][1], v[i][2]) ELSE f[i - 1]
  BY <1>1, PruneStates
<1> DEFINE So(i) == Sound(f[i]) /\ f[i].mutex = None /\ Picked(v, i, List(f[i]))
           G == {i \in 0..L : So(i)}
<1> HIDE DEF v
<1>3. 0 \in G
  <2>1. <<>> \in Seq(Pairs) /\ DOMAIN <<>> = {} /\ 0 \in Nat
    OBVIOUS
  <2>2. Picked(v, 0, <<>>)
    BY <2>1 DEF Picked
  <2> QED
    BY <1>1, <1>2, <2>1, <2>2, EmptyIsSound
<1>4. ASSUME NEW i \in 1..L, i - 1 \in G PROVE i \in G
  <2> DEFINE m == i - 1
             x == f[m]
             e == v[i]
  <2>1. m \in 0..L /\ m \in Nat /\ m + 1 = i /\ m \in 0..(L - 1) /\ i \in 0..L /\ So(m)
    BY <1>1, <1>4
  <2>a. e \in Pairs /\ e[2] # kNoSymbol
    BY <1>1 DEF OneToOne
  <2>2. e[1] \in Symbols /\ e[2] \in Int /\ e[2] # kNoSymbol /\ e = << e[1], e[2] >>
    <3> HIDE DEF e
    <3> QED
      BY <2>a DEF Pairs
  <2> HIDE DEF m
  <2>3. /\ Picked(v, m + 1, List(x)) /\ Picked(v, m + 1, Append(List(x), v[m + 1]))
        /\ ~ Has(List(x), v[m + 1][1]) /\ ~ HasKey(List(x), v[m + 1][2])
    BY <1>1, <2>1, PickedNext
  <2>4. CASE e[2] \in seen \cup {0}
    <3>1. f[i] = AddSymbol(x, e[1], e[2])
      BY <1>2, <2>4 DEF m
    <3>2. Added(x, e[1], e[2], f[i])
      BY <2>1, <2>2, <2>3, <3>1, SymbolAdded
    <3>3. Sound(f[i]) /\ f[i].mutex = None /\ List(f[i]) = Append(List(x), e)
      BY <2>1, <2>2, <2>3, <3>2 DEF Added
    <3> QED
      BY <2>1, <2>3, <3>3
  <2>5. CASE e[2] \notin seen \cup {0}
    <3>1. f[i] = x
      BY <1>2, <2>5 DEF m
    <3> QED
      BY <2>1, <2>3, <3>1
  <2> QED
    BY <2>4, <2>5
<1> HIDE DEF G
<1>5. \A i \in 0..L : i \in G
  BY <1>1, <1>3, <1>4, LoopInvariant
<1>6. So(L)
  BY <1>1, <1>5 DEF G
<1> QED
  BY <1>1, <1>2, <1>6

-----------------------------------------------------------------------------
(* Keys in ascending order: files and compact tables.                      *)

\* A finite set of integers has a greatest element.
LEMMA GreatestOfFinite ==
  ASSUME NEW S \in SUBSET Int, IsFiniteSet(S), S # {}
  PROVE  \E x \in S : \A y \in S : y <= x
<1> DEFINE Ok(n) == \A T \in SUBSET Int : IsFiniteSet(T) /\ Cardinality(T) = n /\ T # {} =>
                       \E x \in T : \A y \in T : y <= x
           G == {n \in Nat : Ok(n)}
<1>1. 0 \in G
  BY FS_EmptySet
<1>2. ASSUME NEW n \in Nat, n \in G PROVE n + 1 \in G
  <2> SUFFICES ASSUME NEW T \in SUBSET Int, IsFiniteSet(T), Cardinality(T) = n + 1, T # {}
               PROVE  \E x \in T : \A y \in T : y <= x
    OBVIOUS
  <2>1. PICK z \in T : TRUE
    OBVIOUS
  <2> DEFINE R == T \ {z}
  <2>2. IsFiniteSet(R) /\ Cardinality(R) = n /\ R \in SUBSET Int /\ z \in Int
    <3>1. IsFiniteSet(R) /\ Cardinality(R) = Cardinality(T) - 1
      BY <2>1, FS_RemoveElement
    <3> QED
      BY <2>1, <3>1
  <2>3. \A y \in T : y = z \/ y \in R
    OBVIOUS
  <2>4. CASE R = {}
    BY <2>2, <2>3, <2>4
  <2>5. CASE R # {}
    <3> HIDE DEF R
    <3>1. PICK x \in R : \A y \in R : y <= x
      BY <1>2, <2>2, <2>5
    <3>2. x \in Int /\ x \in T /\ \A y \in T : y \in Int
      BY <2>2 DEF R
    <3>3. CASE x <= z
      <4>1. \A y \in R : y \in Int /\ y <= z
        BY <3>1, <3>2, <3>3, <2>2
      <4>2. z <= z
        BY <2>2
      <4> QED
        BY <2>3, <4>1, <4>2
    <3>4. CASE z <= x
      <4>1. \A y \in T : y <= x
        BY <2>3, <3>1, <3>4
      <4> QED
        BY <3>2, <4>1
    <3> QED
      BY <3>2, <3>3, <3>4, <2>2
  <2> QED
    BY <2>4, <2>5
<1> HIDE DEF G
<1>3. Nat \subseteq G
  BY <1>1, <1>2, NatInduct
<1>4. Cardinality(S) \in Nat
  BY FS_CardinalityType
<1> QED
  BY <1>3, <1>4 DEF G

Increasing(q, n) == \A i, j \in 1..n : i < j => q[i] < q[j]

\* A finite set of integers can be sorted.
LEMMA SortedExists ==
  ASSUME NEW S \in SUBSET Int, IsFiniteSet(S)
  PROVE  \E q \in [1..Cardinality(S) -> S] : Increasing(q, Cardinality(S))
<1> DEFINE Ok(n) == \A T \in SUBSET Int : IsFiniteSet(T) /\ Cardinality(T) = n =>
                       \E q \in [1..n -> T] : Increasing(q, n)
           G == {n \in Nat : Ok(n)}
<1>1. 0 \in G
  <2> SUFFICES ASSUME NEW T \in SUBSET Int PROVE \E q \in [1..0 -> T] : Increasing(q, 0)
    OBVIOUS
  <2>1. \A i \in 1..0 : FALSE
    OBVIOUS
  <2>2. [i \in 1..0 |-> 0] \in [1..0 -> T]
    BY <2>1
  <2>3. Increasing([i \in 1..0 |-> 0], 0)
    BY <2>1 DEF Increasing
  <2> QED
    BY <2>2, <2>3
<1>2. ASSUME NEW n \in Nat, n \in G PROVE n + 1 \in G
  <2> SUFFICES ASSUME NEW T \in SUBSET Int, IsFiniteSet(T), Cardinality(T) = n + 1
               PROVE  \E q \in [1..(n + 1) -> T] : Increasing(q, n + 1)
    OBVIOUS
  <2>1. T # {}
    BY FS_EmptySet
  <2>2. PICK z \in T : \A y \in T : y <= z
    BY <2>1, GreatestOfFinite
  <2> DEFINE R == T \ {z}
  <2>3. IsFiniteSet(R) /\ Cardinality(R) = n /\ R \in SUBSET Int /\ z \in Int /\ R \subseteq T
    BY FS_RemoveElement
  <2>4. \A y \in R : y < z
    BY <2>2, <2>3
  <2> HIDE DEF R
  <2>5. PICK q \in [1..n -> R] : Increasing(q, n)
    BY <1>2, <2>3
  <2> DEFINE w == [i \in 1..(n + 1) |-> IF i = n + 1 THEN z ELSE q[i]]
  <2>6. \A i \in 1..(n + 1) : i = n + 1 \/ (i \in 1..n /\ q[i] \in R /\ i # n + 1)
    BY <2>5
  <2>7. w \in [1..(n + 1) -> T]
    BY <2>3, <2>6
  <2>8. Increasing(w, n + 1)
    <3> SUFFICES ASSUME NEW i \in 1..(n + 1), NEW j \in 1..(n + 1), i < j PROVE w[i] < w[j]
      BY DEF Increasing
    <3>1. i \in 1..n /\ i # n + 1 /\ w[i] = q[i] /\ q[i] \in R
      BY <2>6
    <3>2. CASE j = n + 1
      BY <3>1, <3>2, <2>4
    <3>3. CASE j \in 1..n /\ j # n + 1
      BY <3>1, <3>3, <2>5 DEF Increasing
    <3> QED
      BY <2>6, <3>2, <3>3
  <2> QED
    BY <2>7, <2>8
<1> HIDE DEF G
<1>3. Nat \subseteq G
  BY <1>1, <1>2, NatInduct
<1>4. Cardinality(S) \in Nat
  BY FS_CardinalityType
<1> QED
  BY <1>3, <1>4 DEF G

\* An injection into a finite set of the same size reaches all of it.
LEMMA OntoBySize ==
  ASSUME NEW n \in Nat, NEW S, IsFiniteSet(S), Cardinality(S) = n, NEW q \in [1..n -> S],
         \A i, j \in 1..n : q[i] = q[j] => i = j
  PROVE  \A x \in S : \E i \in 1..n : q[i] = x
<1>1. Cardinality(1..n) = n
  BY FS_Interval
<1>2. q \in Injection(1..n, S)
  BY DEF Injection, IsInjective
<1>3. q \in Surjection(1..n, S)
  BY <1>1, <1>2, FS_Injection
<1> QED
  BY <1>3 DEF Surjection

\* The keys of a finite set, in ascending order.
LEMMA SortedFacts ==
  ASSUME NEW S \in SUBSET Int, IsFiniteSet(S), NEW n \in Nat, Cardinality(S) = n
  PROVE  LET q == SortedKeys(S)
         IN  /\ q \in [1..n -> S] /\ Increasing(q, n)
             /\ \A i, j \in 1..n : q[i] = q[j] => i = j
             /\ \A x \in S : \E i \in 1..n : q[i] = x
<1> DEFINE q == SortedKeys(S)
<1>1. \E p \in [1..n -> S] : \A i, j \in DOMAIN p : i < j => p[i] < p[j]
  BY SortedExists DEF Increasing
<1>2. q \in [1..n -> S] /\ \A i, j \in DOMAIN q : i < j => q[i] < q[j]
  BY <1>1 DEF SortedKeys
<1> HIDE DEF q
<1>3. Increasing(q, n)
  BY <1>2 DEF Increasing
<1>4. \A i, j \in 1..n : q[i] = q[j] => i = j
  <2> SUFFICES ASSUME NEW i \in 1..n, NEW j \in 1..n, q[i] = q[j], i # j PROVE FALSE
    OBVIOUS
  <2>1. q[i] \in Int /\ q[j] \in Int
    BY <1>2
  <2>2. i < j \/ j < i
    OBVIOUS
  <2>3. i < j => q[i] < q[j]
    BY <1>3 DEF Increasing
  <2>4. j < i => q[j] < q[i]
    BY <1>3 DEF Increasing
  <2> QED
    BY <2>1, <2>2, <2>3, <2>4
<1>5. \A x \in S : \E i \in 1..n : q[i] = x
  BY <1>2, <1>4, OntoBySize
<1> QED
  BY <1>2, <1>3, <1>4, <1>5 DEF q

\* The size of 1..n.
LEMMA UpTo ==
  ASSUME NEW n \in Nat
  PROVE  IsFiniteSet(1..n) /\ Cardinality(1..n) = n
BY FS_Interval

\* A map of 1..n into itself that is one-to-one is onto.
LEMMA Permutes ==
  ASSUME NEW n \in Nat, NEW at \in [1..n -> 1..n], \A i, j \in 1..n : at[i] = at[j] => i = j
  PROVE  \A j \in 1..n : \E i \in 1..n : at[i] = j
<1>1. IsFiniteSet(1..n)
  BY FS_Interval
<1>2. at \in Injection(1..n, 1..n)
  BY DEF Injection, IsInjective
<1>3. at \in Surjection(1..n, 1..n)
  BY <1>1, <1>2, FS_Injection, Zenon
<1> QED
  BY <1>3 DEF Surjection

\* The pairs of v in another order.
LEMMA Reordered ==
  ASSUME NEW v, OneToOne(v), NEW n, n = Len(v), NEW z \in Seq(Pairs), Len(z) = n,
         NEW at \in [1..n -> 1..n], \A i, j \in 1..n : at[i] = at[j] => i = j,
         \A i \in 1..n : z[i] = v[at[i]]
  PROVE  OneToOne(z) /\ Len(z) = n /\ Range(z) = Range(v)
<1>1. v \in Seq(Pairs) /\ n \in Nat /\ DOMAIN v = 1..n /\ \A i \in 1..n : v[i] \in Pairs
  BY DEF OneToOne
<1>3. DOMAIN z = 1..n
  OBVIOUS
<1>a. \A i \in 1..n : at[i] \in 1..n
  OBVIOUS
<1>4. OneToOne(z)
  <2>1. \A a, b \in 1..n : v[a][1] = v[b][1] \/ v[a][2] = v[b][2] => a = b
    BY <1>1 DEF OneToOne
  <2>2. \A a \in 1..n : v[a][2] # kNoSymbol
    BY <1>1 DEF OneToOne
  <2>3. ASSUME NEW i \in 1..n, NEW j \in 1..n, z[i][1] = z[j][1] \/ z[i][2] = z[j][2]
        PROVE  i = j
    <3>1. at[i] \in 1..n /\ at[j] \in 1..n /\ z[i] = v[at[i]] /\ z[j] = v[at[j]]
      BY <1>a
    <3>2. at[i] = at[j]
      BY <3>1, <2>1, <2>3
    <3> QED
      BY <3>2
  <2>4. ASSUME NEW i \in 1..n PROVE z[i][2] # kNoSymbol
    <3>1. at[i] \in 1..n /\ z[i] = v[at[i]]
      BY <1>a
    <3> QED
      BY <3>1, <2>2
  <2> QED
    BY <1>3, <2>3, <2>4 DEF OneToOne
<1>5. \A j \in 1..n : \E i \in 1..n : at[i] = j
  BY <1>1, Permutes
<1>6. \A x : x \in Range(v) <=> \E j \in 1..n : x = v[j]
  BY <1>1 DEF Range
<1>7. \A x : x \in Range(z) <=> \E i \in 1..n : x = z[i]
  BY <1>3 DEF Range
<1>8. \A x : x \in Range(z) <=> x \in Range(v)
  <2>1. ASSUME NEW i \in 1..n PROVE \E j \in 1..n : z[i] = v[j]
    BY <1>a
  <2>2. ASSUME NEW j \in 1..n PROVE \E i \in 1..n : z[i] = v[j]
    <3>1. PICK i \in 1..n : at[i] = j
      BY <1>5
    <3> QED
      BY <3>1
  <2> QED
    <3> SUFFICES ASSUME NEW x PROVE x \in Range(z) <=> x \in Range(v)
      OBVIOUS
    <3>1. ASSUME x \in Range(z) PROVE x \in Range(v)
      <4>1. PICK i \in 1..n : x = z[i]
        BY <3>1, <1>7
      <4>2. PICK j \in 1..n : z[i] = v[j]
        BY <2>1
      <4> QED
        BY <4>1, <4>2, <1>6
    <3>2. ASSUME x \in Range(v) PROVE x \in Range(z)
      <4>1. PICK j \in 1..n : x = v[j]
        BY <3>2, <1>6
      <4>2. PICK i \in 1..n : z[i] = v[j]
        BY <2>2
      <4> QED
        BY <4>1, <4>2, <1>7
    <3> QED
      BY <3>1, <3>2
<1> QED
  BY <1>4, <1>8

\* As many sparse keys as positions behind the dense ones.
LEMMA SparseKeys ==
  ASSUME NEW t, Sound(t)
  PROVE  /\ DOMAIN t.key_map \in SUBSET Int /\ IsFiniteSet(DOMAIN t.key_map)
         /\ Cardinality(DOMAIN t.key_map) = Len(t.symbols) - t.dense_key_limit
         /\ \A j, k \in DOMAIN t.key_map : t.key_map[j] = t.key_map[k] => j = k
<1> DEFINE L == Len(t.symbols)
           D == t.dense_key_limit
           map == t.key_map
           S == DOMAIN map
           T == D..(L - 1)
<1>1. L \in Nat /\ D \in Nat /\ D <= L
  BY Fields DEF Sound, KeysSound
<1>2. map \in [S -> Int] /\ S \in SUBSET Int
  BY Fields DEF Sound
<1>3. /\ \A p \in T : t.idx_key[p - D + 1] \in S /\ map[t.idx_key[p - D + 1]] = p
      /\ \A k \in S : map[k] \in T /\ t.idx_key[map[k] - D + 1] = k
  BY DEF Sound, KeysSound
<1>4. IsFiniteSet(T) /\ Cardinality(T) = L - D
  <2>1. D \in Int /\ L - 1 \in Int /\ (IF D > L - 1 THEN 0 ELSE L - 1 - D + 1) = L - D
    BY <1>1
  <2> QED
    BY <2>1, FS_Interval
<1> HIDE DEF T, S, map
<1>5. map \in Injection(S, T) /\ \A j, k \in S : map[j] = map[k] => j = k
  BY <1>2, <1>3 DEF Injection, IsInjective
<1>6. map \in Surjection(S, T)
  BY <1>2, <1>3 DEF Surjection
<1>7. IsFiniteSet(S) /\ Cardinality(S) = Cardinality(T)
  BY <1>4, <1>5, <1>6, FS_Injection
<1> QED
  BY <1>2, <1>4, <1>5, <1>7 DEF S, map

\* Write puts out every pair of the table once.
LEMMA Concatenated ==
  ASSUME NEW p \in Seq(Pairs), NEW q \in Seq(Pairs), NEW D, NEW n, NEW L, D = Len(p), n = Len(q), L = D + n
  PROVE  /\ p \o q \in Seq(Pairs) /\ Len(p \o q) = L
         /\ \A i \in 1..D : (p \o q)[i] = p[i]
         /\ \A i \in (D + 1)..L : (p \o q)[i] = q[i - D]
OBVIOUS

\* SymbolTableImpl::Write writes every pair of the table once.
LEMMA WrittenFacts ==
  ASSUME NEW t, Sound(t)
  PROVE  LET z == Written(t).entries
         IN  /\ OneToOne(z) /\ Len(z) = Len(List(t)) /\ Range(z) = Range(List(t))
             /\ Written(t).available_key = t.available_key
<1> DEFINE L == Len(t.symbols)
           D == t.dense_key_limit
           n == L - D
           v == List(t)
           map == t.key_map
           sparse == SortedKeys(DOMAIN map)
           At(k) == << t.symbols[(IF k \in 0..(D - 1) THEN k ELSE map[k]) + 1], k >>
           front == [i \in 1..D |-> At(i - 1)]
           back == [i \in DOMAIN sparse |-> At(sparse[i])]
           z == Written(t).entries
<1>1. L \in Nat /\ D \in Nat /\ D <= L /\ n \in Nat /\ t \in Tables /\ D + n = L
  BY Fields DEF Sound, KeysSound
<1>2. z = front \o back /\ Written(t).available_key = t.available_key
  BY DEF Written
<1>3. /\ DOMAIN map \in SUBSET Int /\ IsFiniteSet(DOMAIN map) /\ Cardinality(DOMAIN map) = n
      /\ \A j, k \in DOMAIN map : map[j] = map[k] => j = k
  BY SparseKeys
<1>4. /\ sparse \in [1..n -> DOMAIN map]
      /\ \A i, j \in 1..n : sparse[i] = sparse[j] => i = j
  BY <1>1, <1>3, SortedFacts
<1> HIDE DEF sparse, z
<1>5. OneToOne(v) /\ DOMAIN v = 1..L /\ Len(v) = L
      /\ \A i \in 1..L : v[i] = << t.symbols[i], GetNthKey(t, i - 1) >>
  BY <1>1, ListFacts, ListShape
<1>6. ASSUME NEW i \in 1..D PROVE At(i - 1) = v[i] /\ i \in 1..L
  <2>1. i - 1 \in 0..(D - 1) /\ i - 1 \in Positions(t) /\ i - 1 < D /\ (i - 1) + 1 = i /\ i \in 1..L
    BY <1>1 DEF Positions
  <2>2. GetNthKey(t, i - 1) = i - 1
    BY <1>1, <2>1, NthKey
  <2> QED
    BY <2>1, <2>2, <1>5
<1>7. ASSUME NEW k \in DOMAIN map PROVE At(k) = v[map[k] + 1] /\ map[k] \in D..(L - 1)
  <2>1. /\ map[k] \in D..(L - 1) /\ t.idx_key[map[k] - D + 1] = k
        /\ t.idx_key[map[k] - D + 1] < 0 \/ t.idx_key[map[k] - D + 1] >= D
    BY DEF Sound, KeysSound
  <2>2. k \notin 0..(D - 1)
    BY <1>1, <2>1
  <2>3. map[k] \in Positions(t) /\ ~ (map[k] < D) /\ map[k] + 1 \in 1..L /\ (map[k] + 1) - 1 = map[k]
    BY <1>1, <2>1 DEF Positions
  <2>4. GetNthKey(t, map[k]) = k
    BY <1>1, <2>1, <2>3, NthKey
  <2> QED
    BY <2>1, <2>2, <2>3, <2>4, <1>5
<1>a. front = [i \in 1..D |-> At(i - 1)] /\ back = [i \in DOMAIN sparse |-> At(sparse[i])]
  OBVIOUS
<1> HIDE DEF front, back, At, v
<1>8. /\ front \in Seq(Pairs) /\ Len(front) = D /\ \A i \in 1..D : front[i] = v[i]
  <2>1. \A i \in 1..D : front[i] = v[i] /\ i \in 1..L
    BY <1>a, <1>6
  <2>2. v \in Seq(Pairs)
    BY <1>5 DEF OneToOne
  <2>3. \A i \in 1..D : front[i] \in Pairs
    BY <1>5, <2>1, <2>2
  <2>4. front = [i \in 1..D |-> front[i]]
    BY <1>a
  <2> QED
    BY <1>1, <2>1, <2>3, <2>4, SeqByIndex
<1>9. /\ back \in Seq(Pairs) /\ Len(back) = n
      /\ \A i \in 1..n : back[i] = v[map[sparse[i]] + 1] /\ map[sparse[i]] \in D..(L - 1)
  <2>1. DOMAIN sparse = 1..n /\ \A i \in 1..n : sparse[i] \in DOMAIN map
    BY <1>4
  <2>2. \A i \in 1..n : back[i] = v[map[sparse[i]] + 1] /\ map[sparse[i]] \in D..(L - 1)
    BY <2>1, <1>7, <1>a
  <2>3. \A i \in 1..n : map[sparse[i]] + 1 \in 1..L
    BY <1>1, <2>2
  <2>a. v \in Seq(Pairs)
    BY <1>5 DEF OneToOne
  <2>4. \A i \in 1..n : back[i] \in Pairs
    BY <1>5, <2>2, <2>3, <2>a
  <2>5. back = [i \in 1..n |-> back[i]]
    BY <2>1, <1>a
  <2> QED
    BY <1>1, <2>2, <2>4, <2>5, SeqByIndex
<1> DEFINE at == [i \in 1..L |-> IF i <= D THEN i ELSE map[sparse[i - D]] + 1]
<1>10. /\ z \in Seq(Pairs) /\ Len(z) = L
       /\ \A i \in 1..D : z[i] = front[i]
       /\ \A i \in (D + 1)..L : z[i] = back[i - D]
  <2>1. front \in Seq(Pairs) /\ back \in Seq(Pairs) /\ D = Len(front) /\ n = Len(back) /\ L = D + n
    BY <1>1, <1>8, <1>9
  <2> HIDE DEF D, n, L
  <2>2. /\ front \o back \in Seq(Pairs) /\ Len(front \o back) = L
        /\ \A i \in 1..D : (front \o back)[i] = front[i]
        /\ \A i \in (D + 1)..L : (front \o back)[i] = back[i - D]
    BY <2>1, Concatenated
  <2> QED
    BY <2>2, <1>2
<1>11. \A i \in 1..L : i \in 1..D \/ (~ (i <= D) /\ i \in (D + 1)..L /\ i - D \in 1..n)
  BY <1>1
<1>12. ASSUME NEW i \in 1..L PROVE at[i] \in 1..L /\ z[i] = v[at[i]]
  <2>1. CASE i \in 1..D
    BY <2>1, <1>1, <1>8, <1>10
  <2>2. CASE ~ (i <= D) /\ i \in (D + 1)..L /\ i - D \in 1..n
    <3> DEFINE x == map[sparse[i - D]]
    <3>a. at[i] = x + 1
      BY <2>2
    <3>b. z[i] = back[i - D]
      BY <2>2, <1>10
    <3>c. back[i - D] = v[x + 1] /\ x \in D..(L - 1)
      BY <2>2, <1>9
    <3> HIDE DEF x
    <3>1. at[i] = x + 1 /\ z[i] = v[x + 1] /\ x \in D..(L - 1)
      BY <3>a, <3>b, <3>c
    <3> QED
      BY <3>1, <1>1
  <2> QED
    BY <1>11, <2>1, <2>2
<1>13. ASSUME NEW i \in 1..L, NEW j \in 1..L, at[i] = at[j] PROVE i = j
  <2>1. ASSUME NEW a \in 1..L PROVE at[a] <= D <=> a <= D
    <3>1. CASE a \in 1..D
      BY <3>1, <1>1
    <3>2. CASE ~ (a <= D) /\ a \in (D + 1)..L /\ a - D \in 1..n
      <4>1. at[a] = map[sparse[a - D]] + 1 /\ map[sparse[a - D]] \in D..(L - 1)
        BY <3>2, <1>9
      <4> QED
        BY <4>1, <3>2, <1>1
    <3> QED
      BY <1>11, <3>1, <3>2
  <2>2. CASE i <= D
    BY <2>1, <2>2, <1>13
  <2>3. CASE ~ (i <= D)
    <3>1. ~ (j <= D) /\ i - D \in 1..n /\ j - D \in 1..n
      BY <2>1, <2>3, <1>11, <1>13
    <3>2. /\ map[sparse[i - D]] + 1 = map[sparse[j - D]] + 1
          /\ map[sparse[i - D]] \in D..(L - 1) /\ map[sparse[j - D]] \in D..(L - 1)
      BY <1>9, <1>13, <2>3, <3>1
    <3>3. map[sparse[i - D]] = map[sparse[j - D]]
      BY <3>2
    <3>4. sparse[i - D] \in DOMAIN map /\ sparse[j - D] \in DOMAIN map
      BY <3>1, <1>4
    <3>5. i - D = j - D
      BY <1>3, <1>4, <3>1, <3>3, <3>4
    <3> QED
      BY <3>5, <1>1
  <2> QED
    BY <2>2, <2>3
<1>14. at \in [1..L -> 1..L]
  BY <1>12
<1> HIDE DEF at
<1>16. OneToOne(z) /\ Len(z) = L /\ Range(z) = Range(v)
  <2>1. OneToOne(v) /\ L = Len(v)
    BY <1>5
  <2>2. \A i, j \in 1..L : at[i] = at[j] => i = j
    BY <1>13
  <2>3. \A i \in 1..L : z[i] = v[at[i]]
    BY <1>12
  <2> HIDE DEF L
  <2> QED
    BY <1>10, <1>14, <2>1, <2>2, <2>3, Reordered
<1> QED
  BY <1>2, <1>5, <1>16 DEF z, v

\* What Write puts out Read turns into a table with the same pairs.
LEMMA ReadFacts ==
  ASSUME NEW t, Sound(t)
  PROVE  LET u == Read(Written(t))
         IN  Sound(u) /\ u.mutex = None /\ Len(List(u)) = Len(List(t)) /\ Range(List(u)) = Range(List(t))
<1> DEFINE z == Written(t).entries
           k == Written(t).available_key
           e == [EmptyTable EXCEPT !.available_key = k]
<1>1. OneToOne(z) /\ Len(z) = Len(List(t)) /\ Range(z) = Range(List(t)) /\ k = t.available_key
  BY WrittenFacts
<1>2. k \in Nat
  BY <1>1, ListType
<1>3. Read(Written(t)) = FromEntries(e, z)
  BY DEF Read
<1> HIDE DEF z, k
<1>4. Sound(e) /\ List(e) = <<>> /\ e.mutex = None
  BY <1>2, EmptySound, Zenon
<1> HIDE DEF e
<1>5. Sound(FromEntries(e, z)) /\ List(FromEntries(e, z)) = z /\ FromEntries(e, z).mutex = None
  BY <1>1, <1>4, FromEntriesFacts
<1> QED
  BY <1>1, <1>3, <1>5

\* A text file gives the table back as it was.
LEMMA ReadTextFacts ==
  ASSUME NEW t, Sound(t)
  PROVE  LET u == ReadText(Entries(t))
         IN  Sound(u) /\ u.mutex = None /\ List(u) = List(t)
BY EmptyIsSound, ListFacts, FromEntriesFacts DEF ReadText

\* The operators of the abstract specification.
LEMMA SymbolsInIs ==
  ASSUME NEW q
  PROVE  /\ \A s : s \in Abstract!SymbolsIn(q) <=> Has(q, s)
         /\ Abstract!Range(q) = Range(q)
<1>1. Abstract!Range(q) = Range(q)
  BY DEF Abstract!Range, Range
<1>2. \A s : s \in Abstract!SymbolsIn(q) <=> Has(q, s)
  BY DEF Abstract!SymbolsIn, Abstract!Range, Has
<1> QED
  BY <1>1, <1>2

\* The prefix as SubSeq returns it.
LEMMA SubSeqIs ==
  ASSUME NEW q \in Seq(Pairs), NEW w \in Seq(Pairs), Prefix(q, w)
  PROVE  SubSeq(w, 1, Len(q)) = q
<1> DEFINE z == SubSeq(w, 1, Len(q))
<1>1. Len(q) \in Nat /\ Len(q) <= Len(w)
  BY DEF Prefix
<1>2. z \in Seq(Pairs) /\ Len(z) = Len(q) /\ \A i \in 1..Len(q) : z[i] = w[i]
  BY <1>1
<1> HIDE DEF z
<1>3. z = q
  BY <1>2, SameSeq DEF Prefix
<1> QED
  BY <1>3 DEF z

\* Two ways to say that no symbol and no key occurs twice.
LEMMA BijectiveIs ==
  ASSUME NEW q, OneToOne(q)
  PROVE  Abstract!Bijective(q)
BY DEF Abstract!Bijective, OneToOne

\* The lists of AddTable.
LEMMA AddTableFacts ==
  ASSUME NEW t, Sound(t), NEW o, Sound(o)
  PROVE  LET u == AddTable(t, o)
         IN  Sound(u) /\ u.mutex = t.mutex /\ Abstract!AddTable(List(t), List(o), List(u))
<1> DEFINE q == List(t)
           v == List(o)
           symbols == [i \in DOMAIN v |-> v[i][1]]
           u == AddAll(t, symbols)
           w == List(u)
           n == Len(q)
<1>1. OneToOne(v) /\ v \in Seq(Pairs) /\ Len(v) \in Nat /\ DOMAIN v = 1..Len(v) /\ Entries(o) = v
  BY ListFacts DEF OneToOne
<1>2. AddTable(t, o) = u
  BY <1>1 DEF AddTable
<1>3. /\ DOMAIN symbols = 1..Len(v) /\ \A i \in 1..Len(v) : symbols[i] = v[i][1] /\ symbols[i] \in Symbols
      /\ symbols = [i \in 1..Len(v) |-> symbols[i]]
  BY <1>1 DEF Pairs
<1> HIDE DEF symbols
<1>4. symbols \in Seq(Symbols) /\ Len(symbols) = Len(v)
  BY <1>1, <1>3, SeqByIndex
<1>5. Distinct(symbols)
  BY <1>1, <1>3 DEF Distinct, OneToOne
<1>6. Sound(u) /\ u.mutex = t.mutex /\ Grew(q, symbols, Len(v), w)
  BY <1>4, AddAllFacts
<1> HIDE DEF u
<1>7. q \in Seq(Pairs) /\ w \in Seq(Pairs) /\ n \in Nat /\ DOMAIN q = 1..n /\ DOMAIN w = 1..Len(w)
      /\ Len(w) \in Nat
  BY <1>6, ListType
<1> HIDE DEF q, v, w
<1>8. Len(w) >= n /\ SubSeq(w, 1, n) = q
  BY <1>6, <1>7, SubSeqIs DEF Grew, Prefix
<1>9. \A i \in (n + 1)..Len(w) : \A j \in 1..(i - 1) : w[j][2] < w[i][2]
  BY <1>6 DEF Grew, KeysGrow
<1>10. Abstract!InOrderOf(v, w, n)
  BY <1>1, <1>3, <1>5, <1>6 DEF Abstract!InOrderOf, Grew, OrderKept
<1>11. ASSUME NEW s PROVE Has(w, s) <=> Has(q, s) \/ Has(v, s)
  <2>1. ASSUME NEW p \in DOMAIN w, w[p][1] = s PROVE Has(q, s) \/ Has(v, s)
    <3>1. CASE p \in 1..n
      BY <3>1, <2>1, <1>6, <1>7 DEF Has, Grew, Prefix
    <3>2. CASE p \in (n + 1)..Len(w)
      <4>1. PICK j \in 1..Len(v) : w[p][1] = symbols[j]
        BY <3>2, <1>6 DEF Grew, Origins
      <4> QED
        BY <4>1, <2>1, <1>1, <1>3 DEF Has
    <3> QED
      BY <3>1, <3>2, <1>7
  <2>2. ASSUME NEW p \in DOMAIN q, q[p][1] = s PROVE Has(w, s)
    <3>1. p \in 1..n /\ p \in DOMAIN w /\ w[p] = q[p]
      BY <1>6, <1>7, <1>8 DEF Grew, Prefix
    <3> QED
      BY <3>1, <2>2 DEF Has
  <2>3. ASSUME NEW p \in DOMAIN v, v[p][1] = s PROVE Has(w, s)
    BY <2>3, <1>1, <1>3, <1>6 DEF Grew
  <2> QED
    BY <2>1, <2>2, <2>3 DEF Has
<1>12. Abstract!SymbolsIn(w) = Abstract!SymbolsIn(q) \cup Abstract!SymbolsIn(v)
  <2>1. \A s : s \in Abstract!SymbolsIn(w) <=> s \in Abstract!SymbolsIn(q) \cup Abstract!SymbolsIn(v)
    BY <1>11, SymbolsInIs
  <2> QED
    BY <2>1
<1>13. Abstract!AddTable(q, v, w)
  BY <1>8, <1>9, <1>10, <1>12 DEF Abstract!AddTable
<1> QED
  BY <1>2, <1>6, <1>13 DEF q, v, w

\* CompactSymbolTable numbers the symbols in the order of their keys.
LEMMA CompactFacts ==
  ASSUME NEW t, Sound(t)
  PROVE  LET u == CompactSymbolTable(t)
         IN  Sound(u) /\ u.mutex = None /\ Abstract!Compact(List(t), List(u))
<1> DEFINE v == List(t)
           n == Len(v)
           K == {e[2] : e \in Range(v)}
           q == SortedKeys(K)
           z == [i \in DOMAIN q |-> << FindKey(t, q[i]), i - 1 >>]
           u == CompactSymbolTable(t)
<1>1. OneToOne(v) /\ v \in Seq(Pairs) /\ n \in Nat /\ DOMAIN v = 1..n /\ Entries(t) = v
      /\ \A i \in 1..n : v[i][2] \in Int /\ v[i][1] \in Symbols
  BY ListFacts DEF OneToOne, Pairs
<1>2. u = FromEntries(EmptyTable, z)
  BY <1>1 DEF CompactSymbolTable
<1>3. K \in SUBSET Int /\ (\A i \in 1..n : v[i][2] \in K) /\ \A k \in K : \E i \in 1..n : v[i][2] = k
  BY <1>1 DEF Range
<1>4. \A i \in 1..n : FindKey(t, v[i][2]) = v[i][1]
  BY <1>1, LookUp
<1> HIDE DEF K, u, v
<1>5. IsFiniteSet(K) /\ Cardinality(K) = n
  <2> DEFINE f == [i \in 1..n |-> v[i][2]]
  <2>1. f \in Injection(1..n, K)
    BY <1>1, <1>3 DEF Injection, IsInjective, OneToOne
  <2>2. f \in Surjection(1..n, K)
    BY <1>3 DEF Surjection
  <2>3. IsFiniteSet(1..n) /\ Cardinality(1..n) = n
    BY <1>1, UpTo
  <2> HIDE DEF f
  <2> QED
    BY <2>1, <2>2, <2>3, FS_Surjection
<1>6. /\ q \in [1..n -> K] /\ Increasing(q, n)
      /\ \A i, j \in 1..n : q[i] = q[j] => i = j
      /\ \A x \in K : \E i \in 1..n : q[i] = x
  BY <1>1, <1>3, <1>5, SortedFacts
<1> HIDE DEF q
<1>7. DOMAIN q = 1..n /\ \A i \in 1..n : q[i] \in K
  BY <1>6
<1>8. \A i \in 1..n : z[i] = << FindKey(t, q[i]), i - 1 >>
  BY <1>7
<1>a. z = [i \in 1..n |-> z[i]]
  BY <1>7
<1>9. ASSUME NEW i \in 1..n
      PROVE  /\ \E a \in 1..n : v[a][2] = q[i] /\ v[a][1] = FindKey(t, q[i])
             /\ FindKey(t, q[i]) \in Symbols
  <2>1. PICK a \in 1..n : v[a][2] = q[i]
    BY <1>3, <1>7
  <2>2. FindKey(t, v[a][2]) = v[a][1] /\ v[a][1] \in Symbols
    BY <1>1, <1>4
  <2> QED
    BY <2>1, <2>2
<1> HIDE DEF z
<1>10. \A i \in 1..n : z[i] \in Pairs /\ z[i][2] = i - 1 /\ z[i][1] = FindKey(t, q[i]) /\ z[i][2] # kNoSymbol
  <2>1. ASSUME NEW i \in 1..n
        PROVE  z[i] \in Pairs /\ z[i][2] = i - 1 /\ z[i][1] = FindKey(t, q[i]) /\ z[i][2] # kNoSymbol
    <3>1. FindKey(t, q[i]) \in Symbols /\ i - 1 \in Int /\ i - 1 # -1
      BY <1>1, <1>9
    <3>2. z[i] = << FindKey(t, q[i]), i - 1 >>
      BY <1>8
    <3> QED
      BY <3>1, <3>2 DEF Pairs, kNoSymbol
  <2> QED
    BY <2>1
<1>11. z \in Seq(Pairs) /\ Len(z) = n /\ DOMAIN z = 1..n
  BY <1>1, <1>a, <1>10, SeqByIndex
<1>12. ASSUME NEW i \in 1..n, NEW a \in 1..n, z[i][1] = v[a][1] PROVE q[i] = v[a][2]
  <2>1. PICK b \in 1..n : v[b][2] = q[i] /\ v[b][1] = FindKey(t, q[i])
    BY <1>9
  <2>2. a = b
    BY <2>1, <1>1, <1>10, <1>12 DEF OneToOne
  <2> QED
    BY <2>1, <2>2
<1>13. OneToOne(z)
  <2>1. ASSUME NEW i \in 1..n, NEW j \in 1..n, z[i][1] = z[j][1] PROVE i = j
    <3>1. PICK a \in 1..n : v[a][2] = q[i] /\ v[a][1] = FindKey(t, q[i])
      BY <1>9
    <3>2. q[j] = v[a][2]
      BY <1>10, <1>12, <2>1, <3>1
    <3> QED
      BY <1>6, <3>1, <3>2
  <2>2. ASSUME NEW i \in 1..n, NEW j \in 1..n, z[i][2] = z[j][2] PROVE i = j
    BY <1>1, <1>10, <2>2
  <2> QED
    BY <1>10, <1>11, <2>1, <2>2 DEF OneToOne
<1>14. Sound(u) /\ List(u) = z /\ u.mutex = None
  BY <1>2, <1>13, EmptyIsSound, FromEntriesFacts
<1>15. ASSUME NEW s PROVE Has(z, s) <=> Has(v, s)
  <2>1. ASSUME NEW i \in 1..n, z[i][1] = s PROVE Has(v, s)
    <3>1. PICK a \in 1..n : v[a][2] = q[i] /\ v[a][1] = FindKey(t, q[i])
      BY <1>9
    <3>2. v[a][1] = s /\ a \in DOMAIN v
      BY <3>1, <2>1, <1>1, <1>10
    <3> QED
      BY <3>2 DEF Has
  <2>2. ASSUME NEW a \in 1..n, v[a][1] = s PROVE Has(z, s)
    <3>1. PICK i \in 1..n : q[i] = v[a][2]
      BY <1>3, <1>6
    <3>2. z[i][1] = v[a][1]
      BY <3>1, <1>4, <1>10
    <3> QED
      BY <3>2, <2>2, <1>11 DEF Has
  <2> QED
    BY <2>1, <2>2, <1>1, <1>11 DEF Has
<1>16. Abstract!SymbolsIn(z) = Abstract!SymbolsIn(v)
  <2>1. \A s : s \in Abstract!SymbolsIn(z) <=> s \in Abstract!SymbolsIn(v)
    BY <1>15, SymbolsInIs
  <2> QED
    BY <2>1
<1>17. ASSUME NEW d \in Range(v), NEW e \in Range(v), NEW i \in 1..n, NEW j \in 1..n,
              z[i][1] = d[1], z[j][1] = e[1], d[2] < e[2]
       PROVE  i < j
  <2>1. PICK a \in 1..n : d = v[a]
    BY <1>1 DEF Range
  <2>2. PICK b \in 1..n : e = v[b]
    BY <1>1 DEF Range
  <2>3. q[i] = d[2] /\ q[j] = e[2]
    BY <1>12, <1>17, <2>1, <2>2
  <2>4. q[i] < q[j] /\ q[i] \in Int /\ q[j] \in Int
    BY <2>3, <1>3, <1>7, <1>17
  <2>5. ~ (j < i) /\ i # j
    <3>1. j < i => q[j] < q[i]
      BY <1>6 DEF Increasing
    <3> QED
      BY <3>1, <2>4
  <2> QED
    BY <2>5, <1>1
<1>18. Abstract!Compact(v, z)
  <2>1. Abstract!Range(v) = Range(v)
    BY SymbolsInIs
  <2> QED
    BY <2>1, <1>10, <1>11, <1>16, <1>17 DEF Abstract!Compact
<1> QED
  BY <1>14, <1>18 DEF u, v

-----------------------------------------------------------------------------
(* MergeSymbolTable.                                                       *)

Joins == [table : Tables, conflicts : Seq(Symbols)]

\* The three cases of a symbol of the right table.
LEMMA JoinedCases ==
  ASSUME NEW m \in Joins, NEW e \in Pairs
  PROVE  LET j == Joined(m, e)
             known == FindSymbol(m.table, e[1]) # kNoSymbol
             taken == Conflict(m.table, e)
         IN  /\ j \in Joins
             /\ known => j = m
             /\ ~ known /\ taken => j.table = m.table /\ j.conflicts = Append(m.conflicts, e[1])
             /\ ~ known /\ ~ taken => j.table = AddSymbol(m.table, e[1], e[2]) /\ j.conflicts = m.conflicts
<1>1. m.table \in Tables /\ m.conflicts \in Seq(Symbols) /\ e[1] \in Symbols /\ e[2] \in Int
  BY DEF Joins, Pairs
<1> DEFINE a == AddSymbol(m.table, e[1], e[2])
           c == Append(m.conflicts, e[1])
<1>2. a \in Tables /\ c \in Seq(Symbols)
  BY <1>1, AddSymbolType
<1>3. Joined(m, e) = IF FindSymbol(m.table, e[1]) # kNoSymbol THEN m
                     ELSE IF Conflict(m.table, e) THEN [m EXCEPT !.conflicts = c]
                     ELSE [m EXCEPT !.table = a]
  BY DEF Joined
<1> HIDE DEF a, c
<1>4. [m EXCEPT !.conflicts = c] \in Joins /\ [m EXCEPT !.conflicts = c].table = m.table
      /\ [m EXCEPT !.conflicts = c].conflicts = c
  BY <1>2 DEF Joins
<1>5. [m EXCEPT !.table = a] \in Joins /\ [m EXCEPT !.table = a].table = a
      /\ [m EXCEPT !.table = a].conflicts = m.conflicts
  BY <1>2 DEF Joins
<1> QED
  BY <1>3, <1>4, <1>5 DEF a, c

\* The states of the second loop of MergeSymbolTable.
LEMMA JoinStates ==
  ASSUME NEW l, NEW r, FromEntries(EmptyTable, Entries(l)) \in Tables,
         Entries(r) \in Seq(Pairs)
  PROVE  \E f : /\ Merged(l, r) = AddAll(f[Len(Entries(r))].table, f[Len(Entries(r))].conflicts)
               /\ f[0] = [table |-> FromEntries(EmptyTable, Entries(l)), conflicts |-> <<>>]
               /\ \A i \in 1..Len(Entries(r)) : f[i] = Joined(f[i - 1], Entries(r)[i])
<1> DEFINE L == Len(Entries(r))
           Op(x, i) == Joined(x, Entries(r)[i])
           S == Joins
           step == [i \in 1..L |-> [x \in S |-> Op(x, i)]]
           F(f) == [i \in 0..L |-> IF i = 0 THEN [table |-> FromEntries(EmptyTable, Entries(l)), conflicts |-> <<>>] ELSE Op(f[i - 1], i)]
           f == CHOOSE f : f = F(f)
<1>1. L \in Nat /\ [table |-> FromEntries(EmptyTable, Entries(l)), conflicts |-> <<>>] \in S
  BY DEF Joins
<1>2. \A i \in 1..L : \A x \in S : Op(x, i) \in S
  <2>1. \A i \in 1..L : Entries(r)[i] \in Pairs
    OBVIOUS
  <2> QED
    BY <2>1, JoinedCases
<1>3. Merged(l, r) = AddAll(f[Len(Entries(r))].table, f[Len(Entries(r))].conflicts)
  BY DEF Merged
<1> HIDE DEF L, Op, S
<1>4. Rounds(S, L, step)
  BY <1>2 DEF Rounds
<1>5. PICK h : States(h, S, [table |-> FromEntries(EmptyTable, Entries(l)), conflicts |-> <<>>], L, step)
  <2> HIDE DEF step
  <2> QED
    BY <1>1, <1>4, LoopStates
<1>6. h = F(h)
  <2>1. h \in [0..L -> S] /\ h[0] = [table |-> FromEntries(EmptyTable, Entries(l)), conflicts |-> <<>>] /\ \A i \in 1..L : h[i] = step[i][h[i - 1]]
    BY <1>5 DEF States
  <2>2. \A i \in 1..L : i - 1 \in 0..L
    BY <1>1
  <2>3. \A i \in 1..L : h[i] = Op(h[i - 1], i)
    BY <2>1, <2>2
  <2>4. \A i \in 0..L : i = 0 \/ i \in 1..L
    BY <1>1
  <2>5. \A i \in 0..L : h[i] = F(h)[i]
    BY <2>1, <2>3, <2>4
  <2> QED
    BY <2>1, <2>5
<1>7. f = F(f)
  <2> HIDE DEF F
  <2> QED
    BY <1>6
<1> HIDE DEF f
<1>8. 0 \in 0..L /\ \A i \in 1..L : i \in 0..L /\ i # 0
  BY <1>1
<1>9. f[0] = [table |-> FromEntries(EmptyTable, Entries(l)), conflicts |-> <<>>] /\ \A i \in 1..L : f[i] = Op(f[i - 1], i)
  BY <1>7, <1>8
<1> QED
  BY <1>3, <1>9 DEF L, Op

\* A symbol is in the table of m or put off.
Met(m, s) == Has(List(m.table), s) \/ \E c \in DOMAIN m.conflicts : m.conflicts[c] = s

\* After a number of symbols of v: the list q and some of them in the table,
\* the others put off.
Merging(q, v, i, m) ==
    /\ m \in Joins /\ Sound(m.table) /\ m.table.mutex = None
    /\ Prefix(q, List(m.table))
    /\ \A j \in 1..i : Met(m, v[j][1])
    /\ \A s : Met(m, s) => Has(q, s) \/ Has(v, s)

\* A round of MergeSymbolTable over the right table: what is neither known nor in conflict is added.
LEMMA MergingNext ==
  ASSUME NEW q \in Seq(Pairs), NEW v, OneToOne(v), NEW i \in DOMAIN v, NEW m, Merging(q, v, i - 1, m)
  PROVE  Merging(q, v, i, Joined(m, v[i]))
<1> DEFINE e == v[i]
           z == Joined(m, e)
           w == List(m.table)
<1>1. /\ e \in Pairs /\ e[1] \in Symbols /\ e[2] \in Int /\ e[2] # kNoSymbol /\ e = << e[1], e[2] >>
      /\ i \in Nat /\ v \in Seq(Pairs)
  BY DEF OneToOne, Pairs
<1>2. /\ m \in Joins /\ m.conflicts \in Seq(Symbols) /\ Sound(m.table) /\ w \in Seq(Pairs)
      /\ DOMAIN w = 1..Len(w) /\ Len(w) \in Nat /\ Len(q) \in Nat /\ DOMAIN q = 1..Len(q)
  BY ListType DEF Merging, Joins
<1>3. FindSymbol(m.table, e[1]) # kNoSymbol <=> Has(w, e[1])
  <2>1. FindSymbol(m.table, e[1]) = kNoSymbol <=> \A p \in DOMAIN w : e[1] # w[p][1]
    BY <1>1, <1>2, LookUp
  <2> QED
    BY <2>1 DEF Has
<1>4. ~ Has(w, e[1]) /\ ~ Conflict(m.table, e) => ~ HasKey(w, e[2])
  <2> SUFFICES ASSUME ~ Has(w, e[1]), ~ Conflict(m.table, e), NEW p \in DOMAIN w, w[p][2] = e[2]
               PROVE  FALSE
    BY DEF HasKey
  <2>1. FindKey(m.table, e[2]) = w[p][1] /\ w[p][1] \in Symbols
    BY <1>2, LookUp, ListType
  <2>2. FindKey(m.table, e[2]) # NoString
    BY <2>1, SymbolAssumption
  <2> QED
    BY <2>2, <1>3 DEF Conflict
<1>5. Has(v, e[1])
  BY DEF Has
<1>6. ASSUME z \in Joins, Sound(z.table), z.table.mutex = None, Prefix(q, List(z.table)),
             \A s : Met(m, s) => Met(z, s), Met(z, e[1]), \A s : Met(z, s) => Met(m, s) \/ s = e[1]
      PROVE  Merging(q, v, i, z)
  <2>1. \A j \in 1..i : j = i \/ j \in 1..(i - 1)
    BY <1>1
  <2>2. \A j \in 1..i : Met(z, v[j][1])
    BY <1>6, <2>1 DEF Merging
  <2>3. \A s : Met(z, s) => Has(q, s) \/ Has(v, s)
    BY <1>5, <1>6 DEF Merging
  <2> QED
    BY <1>6, <2>2, <2>3 DEF Merging
<1>7. /\ z \in Joins
      /\ Has(w, e[1]) => z = m
      /\ ~ Has(w, e[1]) /\ Conflict(m.table, e) =>
            z.table = m.table /\ z.conflicts = Append(m.conflicts, e[1])
      /\ ~ Has(w, e[1]) /\ ~ Conflict(m.table, e) =>
            z.table = AddSymbol(m.table, e[1], e[2]) /\ z.conflicts = m.conflicts
  BY <1>1, <1>2, <1>3, JoinedCases
<1> HIDE DEF e, z
<1>8. CASE Has(w, e[1])
  <2>1. z = m /\ Met(m, e[1])
    BY <1>7, <1>8 DEF Met
  <2> QED
    BY <1>6, <1>7, <2>1 DEF Merging, z, e
<1>9. CASE ~ Has(w, e[1]) /\ Conflict(m.table, e)
  <2> DEFINE C == Len(m.conflicts)
  <2>1. z.table = m.table /\ z.conflicts = Append(m.conflicts, e[1])
    BY <1>7, <1>9
  <2>2. /\ C \in Nat /\ DOMAIN m.conflicts = 1..C /\ DOMAIN z.conflicts = 1..(C + 1)
        /\ z.conflicts[C + 1] = e[1] /\ \A c \in 1..C : z.conflicts[c] = m.conflicts[c]
    BY <1>1, <1>2, <2>1
  <2>3. C + 1 \in DOMAIN z.conflicts /\ \A c \in DOMAIN z.conflicts : c = C + 1 \/ c \in DOMAIN m.conflicts
    BY <2>2
  <2>a. \A c \in DOMAIN m.conflicts : c \in DOMAIN z.conflicts
    BY <2>2
  <2>4. \A s : Met(m, s) => Met(z, s)
    BY <2>1, <2>2, <2>a DEF Met
  <2>5. Met(z, e[1])
    BY <2>2, <2>3 DEF Met
  <2>6. \A s : Met(z, s) => Met(m, s) \/ s = e[1]
    BY <2>1, <2>2, <2>3 DEF Met
  <2> QED
    BY <1>6, <1>7, <2>1, <2>4, <2>5, <2>6 DEF Merging, z, e
<1>10. CASE ~ Has(w, e[1]) /\ ~ Conflict(m.table, e)
  <2> DEFINE x == List(z.table)
  <2>1. z.table = AddSymbol(m.table, e[1], e[2]) /\ z.conflicts = m.conflicts
    BY <1>7, <1>10
  <2>2. Added(m.table, e[1], e[2], z.table)
    BY <1>1, <1>2, <1>4, <1>10, <2>1, SymbolAdded DEF e
  <2>3. Sound(z.table) /\ z.table.mutex = None /\ x = Append(w, e)
    BY <1>1, <1>10, <2>2 DEF Added, Merging, e
  <2> HIDE DEF x, w
  <2>4. /\ Len(x) = Len(w) + 1 /\ x[Len(w) + 1] = e /\ (\A p \in DOMAIN w : x[p] = w[p])
        /\ DOMAIN x = 1..(Len(w) + 1)
    BY <1>1, <1>2, <2>3, Appended DEF e
  <2>5. Len(w) + 1 \in DOMAIN x /\ (\A p \in DOMAIN w : p \in DOMAIN x)
        /\ \A p \in DOMAIN x : p \in DOMAIN w \/ p = Len(w) + 1
    BY <1>2, <2>4
  <2>6. \A s : Has(x, s) <=> Has(w, s) \/ s = e[1]
    BY <2>4, <2>5 DEF Has
  <2>7. Prefix(q, x)
    <3>1. Len(w) >= Len(q) /\ \A j \in 1..Len(q) : w[j] = q[j]
      BY DEF Merging, Prefix, w
    <3>2. \A j \in 1..Len(q) : j \in DOMAIN w
      BY <1>2, <3>1
    <3> QED
      BY <1>2, <2>4, <3>1, <3>2 DEF Prefix
  <2>8. (\A s : Met(m, s) => Met(z, s)) /\ Met(z, e[1]) /\ \A s : Met(z, s) => Met(m, s) \/ s = e[1]
    BY <2>1, <2>6 DEF Met, x, w
  <2> QED
    BY <1>6, <1>7, <2>3, <2>7, <2>8 DEF z, e, x
<1> QED
  BY <1>8, <1>9, <1>10 DEF z, e

\* The merged table has the list of the left one in front and all symbols.
LEMMA MergedFacts ==
  ASSUME NEW l, Sound(l), NEW r, Sound(r)
  PROVE  LET u == Merged(l, r)
         IN  /\ Sound(u) /\ u.mutex = None /\ Prefix(List(l), List(u))
             /\ \A s : Has(List(u), s) <=> Has(List(l), s) \/ Has(List(r), s)
<1> DEFINE q == List(l)
           v == Entries(r)
           L == Len(v)
           left == FromEntries(EmptyTable, Entries(l))
           base == [table |-> left, conflicts |-> <<>>]
<1>1. v = List(r) /\ OneToOne(v) /\ v \in Seq(Pairs) /\ L \in Nat /\ DOMAIN v = 1..L
  BY ListFacts DEF OneToOne
<1>2. Entries(l) = q /\ OneToOne(q) /\ q \in Seq(Pairs) /\ Len(q) \in Nat /\ DOMAIN q = 1..Len(q)
  BY ListFacts DEF OneToOne
<1>3. Sound(left) /\ List(left) = q /\ left.mutex = None /\ left \in Tables
  BY <1>2, EmptyIsSound, FromEntriesFacts DEF Sound
<1>4. PICK f : /\ Merged(l, r) = AddAll(f[L].table, f[L].conflicts)
               /\ f[0] = base
               /\ \A i \in 1..L : f[i] = Joined(f[i - 1], v[i])
  BY <1>1, <1>3, JoinStates
<1> DEFINE G == {i \in 0..L : Merging(q, v, i, f[i])}
<1> HIDE DEF v, q, left
<1>5. 0 \in G
  <2>1. base \in Joins /\ base.table = left /\ base.conflicts = <<>> /\ DOMAIN <<>> = {}
    BY <1>3 DEF Joins
  <2>2. Prefix(q, q)
    BY <1>2 DEF Prefix
  <2>3. \A j \in 1..0 : FALSE
    OBVIOUS
  <2> HIDE DEF base
  <2>4. \A s : Met(base, s) => Has(q, s)
    BY <1>3, <2>1 DEF Met
  <2>5. Merging(q, v, 0, base)
    BY <1>3, <2>1, <2>2, <2>3, <2>4 DEF Merging
  <2> QED
    BY <1>1, <1>4, <2>5
<1>6. ASSUME NEW i \in 1..L, i - 1 \in G PROVE i \in G
  <2>1. i \in DOMAIN v /\ i \in 0..L /\ Merging(q, v, i - 1, f[i - 1])
    BY <1>1, <1>6
  <2>2. Merging(q, v, i, f[i])
    BY <1>1, <1>2, <1>4, <2>1, MergingNext
  <2> QED
    BY <2>1, <2>2
<1> HIDE DEF G
<1>7. \A i \in 0..L : i \in G
  BY <1>1, <1>5, <1>6, LoopInvariant
<1> DEFINE m == f[L]
           c == m.conflicts
           w == List(m.table)
           u == AddAll(m.table, c)
           x == List(u)
<1>8. Merging(q, v, L, m)
  BY <1>1, <1>7 DEF G
<1>9. c \in Seq(Symbols) /\ Sound(m.table) /\ m.table.mutex = None /\ DOMAIN c = 1..Len(c)
  BY <1>8 DEF Merging, Joins
<1>10. Sound(u) /\ u.mutex = None /\ Grew(w, c, Len(c), x)
  BY <1>9, AddAllFacts
<1> HIDE DEF m, u
<1>11. w \in Seq(Pairs) /\ x \in Seq(Pairs) /\ Len(w) \in Nat /\ DOMAIN w = 1..Len(w)
       /\ DOMAIN x = 1..Len(x) /\ Len(x) \in Nat
  BY <1>9, <1>10, ListType
<1> HIDE DEF w, x, c
<1>12. Len(x) >= Len(w) /\ (\A j \in 1..Len(w) : x[j] = w[j]) /\ Len(w) >= Len(q)
       /\ \A j \in 1..Len(q) : w[j] = q[j]
  BY <1>8, <1>10 DEF Grew, Merging, Prefix, w
<1>13. Prefix(q, x)
  <2>1. \A j \in 1..Len(q) : j \in 1..Len(w)
    BY <1>2, <1>11, <1>12
  <2> QED
    BY <1>2, <1>11, <1>12, <2>1 DEF Prefix
<1>14. ASSUME NEW p \in DOMAIN x PROVE Met(m, x[p][1])
  <2>1. CASE p \in 1..Len(w)
    <3>1. p \in DOMAIN w /\ x[p] = w[p]
      BY <2>1, <1>11, <1>12
    <3> QED
      BY <3>1 DEF Met, Has, w
  <2>2. CASE p \in (Len(w) + 1)..Len(x)
    <3>1. PICK j \in 1..Len(c) : x[p][1] = c[j]
      BY <2>2, <1>10 DEF Grew, Origins
    <3> QED
      BY <3>1, <1>9 DEF Met, c
  <2> QED
    BY <2>1, <2>2, <1>11
<1>15. ASSUME NEW s, Met(m, s) PROVE Has(x, s)
  <2>1. CASE Has(w, s)
    <3>1. PICK p \in DOMAIN w : w[p][1] = s
      BY <2>1 DEF Has
    <3>2. p \in DOMAIN x /\ x[p] = w[p]
      BY <1>11, <1>12
    <3> QED
      BY <3>1, <3>2 DEF Has
  <2>2. CASE \E j \in DOMAIN c : c[j] = s
    BY <2>2, <1>9, <1>10 DEF Grew
  <2> QED
    BY <1>15, <2>1, <2>2 DEF Met, w, c
<1>16. ASSUME NEW s PROVE Has(x, s) <=> Has(q, s) \/ Has(v, s)
  <2>1. Has(x, s) => Has(q, s) \/ Has(v, s)
    <3>1. Has(x, s) => Met(m, s)
      BY <1>14 DEF Has
    <3> QED
      BY <3>1, <1>8 DEF Merging
  <2>2. Has(q, s) => Has(x, s)
    <3>1. ASSUME NEW p \in DOMAIN q, q[p][1] = s PROVE Has(x, s)
      <4>1. p \in DOMAIN x /\ x[p] = q[p]
        BY <1>2, <1>11, <1>12, <1>13 DEF Prefix
      <4> QED
        BY <3>1, <4>1 DEF Has
    <3> QED
      BY <3>1 DEF Has
  <2>3. Has(v, s) => Has(x, s)
    BY <1>1, <1>8, <1>15 DEF Has, Merging
  <2> QED
    BY <2>1, <2>2, <2>3
<1>17. Merged(l, r) = u
  BY <1>4 DEF u, m, c
<1> QED
  BY <1>1, <1>10, <1>13, <1>16, <1>17 DEF x, q

-----------------------------------------------------------------------------
(* Objects.                                                                *)

Placing == impl \in [Objects -> Impls] /\ store \in [Impls -> Tables] /\ \A i \in Impls : Sound(store[i])

\* A sole user is the only one.
LEMMA SoleUser ==
  ASSUME NEW o \in Objects, UseCount(impl[o]) = 1
  PROVE  \A p \in Objects : impl[p] = impl[o] => p = o
<1> DEFINE U == {p \in Objects : impl[p] = impl[o]}
<1>1. IsFiniteSet(U)
  BY ObjectAssumption, FS_Subset
<1>2. PICK x : U = {x}
  BY <1>1, FS_Singleton DEF UseCount
<1>3. o \in U /\ \A p \in Objects : impl[p] = impl[o] => p \in U
  OBVIOUS
<1> QED
  BY <1>2, <1>3

\* When an implementation is shared, another one is free.
LEMMA SomeUnused ==
  ASSUME impl \in [Objects -> Impls], NEW o \in Objects, UseCount(impl[o]) # 1
  PROVE  \E j \in Unused : TRUE
<1>1. impl \in [Objects -> Objects] /\ IsFiniteSet(Objects)
  BY ObjectAssumption DEF Impls
<1> SUFFICES ASSUME \A j \in Objects : j \notin Unused PROVE FALSE
  BY DEF Impls, Unused
<1>2. ASSUME NEW j \in Objects PROVE \E p \in Objects : impl[p] = j
  <2> SUFFICES ASSUME \A p \in Objects : impl[p] # j PROVE FALSE
    OBVIOUS
  <2>1. {p \in Objects : impl[p] = j} = {}
    OBVIOUS
  <2>2. UseCount(j) = 0
    BY <2>1, FS_EmptySet DEF UseCount
  <2> QED
    BY <2>2 DEF Unused, Impls
<1>3. impl \in Surjection(Objects, Objects)
  BY <1>1, <1>2 DEF Surjection
<1>4. impl \in Injection(Objects, Objects)
  BY <1>1, <1>3, FS_Surjection
<1>5. \A p \in Objects : impl[p] = impl[o] => p = o
  BY <1>4 DEF Injection, IsInjective
<1>6. {p \in Objects : impl[p] = impl[o]} = {o}
  BY <1>5
<1>7. UseCount(impl[o]) = 1
  BY <1>6, FS_Singleton DEF UseCount
<1> QED
  BY <1>7

\* An unused implementation is nobody's.
LEMMA UnusedFree ==
  ASSUME NEW j \in Unused
  PROVE  j \in Impls /\ \A p \in Objects : impl[p] # j
<1> DEFINE U == {p \in Objects : impl[p] = j}
<1>1. IsFiniteSet(U) /\ Cardinality(U) = 0 /\ j \in Impls
  BY ObjectAssumption, FS_Subset DEF Unused, UseCount
<1>2. U = {}
  BY <1>1, FS_EmptySet
<1> QED
  BY <1>1, <1>2

\* Object o has table t now, the others have what they had.
Changed(o, t) ==
    /\ impl' \in [Objects -> Impls] /\ store' \in [Impls -> Tables]
    /\ \A i \in Impls : Sound(store'[i])
    /\ \A p \in Objects \ {o} : store'[impl'[p]] = store[impl[p]]
    /\ List(store'[impl'[o]]) = List(t)

\* A copy of an implementation is sound and has the same list.
LEMMA CopySound ==
  ASSUME NEW t, Sound(t)
  PROVE  Sound(CopyOf(t)) /\ List(CopyOf(t)) = List(t)
<1> DEFINE c == CopyOf(t)
<1>1. t \in Tables
  BY DEF Sound
<1>2. /\ c \in Tables /\ c.symbols = t.symbols /\ c.buckets = t.buckets /\ c.idx_key = t.idx_key
      /\ c.dense_key_limit = t.dense_key_limit /\ c.key_map = t.key_map
      /\ c.available_key = t.available_key /\ c.check_sum_finalized = FALSE
  BY <1>1 DEF CopyOf, Tables
<1> HIDE DEF c
<1>3. Sound(c)
  BY <1>2 DEF Sound, SumsSound
<1>4. List(c) = List(t)
  BY <1>2 DEF List, GetNthKey, NumSymbols
<1> QED
  BY <1>3, <1>4 DEF c

\* A table is put in place i, which o has to itself or nobody has.
LEMMA Put ==
  ASSUME Placing, NEW o \in Objects, NEW i \in Impls, \A p \in Objects \ {o} : impl[p] # i,
         NEW t, Sound(t), store' = [store EXCEPT ![i] = t], impl' = [impl EXCEPT ![o] = i]
  PROVE  Changed(o, t)
<1>1. t \in Tables /\ impl \in [Objects -> Impls] /\ store \in [Impls -> Tables]
      /\ \A j \in Impls : Sound(store[j])
  BY DEF Sound, Placing
<1>2. impl' \in [Objects -> Impls] /\ store' \in [Impls -> Tables]
  BY <1>1
<1>3. \A j \in Impls : Sound(store'[j])
  BY <1>1
<1>4. \A p \in Objects \ {o} : store'[impl'[p]] = store[impl[p]]
  BY <1>1
<1>5. store'[impl'[o]] = t
  BY <1>1
<1> QED
  BY <1>2, <1>3, <1>4, <1>5 DEF Changed

\* A change after MutateCheck shows in no other object, whoever shared the implementation.
LEMMA MutateFacts ==
  ASSUME Placing, NEW o \in Objects, NEW t, Sound(t), Mutate(o, t)
  PROVE  Changed(o, t)
<1>1. impl \in [Objects -> Impls] /\ impl[o] \in Impls
  BY DEF Placing
<1>2. CASE UseCount(impl[o]) = 1
  <2>1. \A p \in Objects \ {o} : impl[p] # impl[o]
    BY <1>2, SoleUser
  <2>2. store' = [store EXCEPT ![impl[o]] = t] /\ impl' = impl
    BY <1>2 DEF Mutate
  <2>3. impl' = [impl EXCEPT ![o] = impl[o]]
    BY <1>1, <2>2
  <2> QED
    BY <1>1, <2>1, <2>2, <2>3, Put
<1>3. CASE UseCount(impl[o]) # 1
  <2> DEFINE i == CHOOSE j \in Unused : TRUE
  <2>1. i \in Unused
    BY <1>1, <1>3, SomeUnused
  <2>2. store' = [store EXCEPT ![i] = CopyOf(t)] /\ impl' = [impl EXCEPT ![o] = i]
    BY <1>3 DEF Mutate
  <2> HIDE DEF i
  <2>3. i \in Impls /\ \A p \in Objects \ {o} : impl[p] # i
    BY <2>1, UnusedFree
  <2>4. Sound(CopyOf(t)) /\ List(CopyOf(t)) = List(t)
    BY CopySound
  <2>5. Changed(o, CopyOf(t))
    BY <2>2, <2>3, <2>4, Put
  <2> QED
    BY <2>4, <2>5 DEF Changed
<1> QED
  BY <1>2, <1>3

\* A new implementation for an object shows in no other object.
LEMMA AssignFacts ==
  ASSUME Placing, NEW o \in Objects, NEW t, Sound(t), Assign(o, t)
  PROVE  Changed(o, t)
<1> DEFINE i == IF UseCount(impl[o]) = 1 THEN impl[o] ELSE CHOOSE j \in Unused : TRUE
<1>1. impl \in [Objects -> Impls] /\ impl[o] \in Impls
  BY DEF Placing
<1>2. i \in Impls /\ \A p \in Objects \ {o} : impl[p] # i
  <2>1. CASE UseCount(impl[o]) = 1
    BY <2>1, <1>1, SoleUser
  <2>2. CASE UseCount(impl[o]) # 1
    <3>1. (CHOOSE j \in Unused : TRUE) \in Unused
      BY <1>1, <2>2, SomeUnused
    <3> QED
      BY <2>2, <3>1, UnusedFree
  <2> QED
    BY <2>1, <2>2
<1>3. store' = [store EXCEPT ![i] = t] /\ impl' = [impl EXCEPT ![o] = i]
  BY DEF Assign
<1> HIDE DEF i
<1> QED
  BY <1>2, <1>3, Put

\* A copy of an object shares the implementation and shows in no other object.
LEMMA ShareFacts ==
  ASSUME Placing, NEW o \in Objects, NEW p \in Objects, Share(o, p)
  PROVE  Changed(o, store[impl[p]]) /\ store'[impl'[o]] = store[impl[p]]
<1>1. impl \in [Objects -> Impls] /\ store \in [Impls -> Tables] /\ \A i \in Impls : Sound(store[i])
  BY DEF Placing
<1>2. impl' = [impl EXCEPT ![o] = impl[p]]
  BY DEF Share
<1>3. impl' \in [Objects -> Impls]
  BY <1>1, <1>2
<1>4. store' = [i \in Impls |-> IF impl[o] = i /\ UseCount(i) = 1 /\ impl[p] # i THEN EmptyTable ELSE store[i]]
  BY DEF Share
<1>5. \A i \in Impls : store'[i] = EmptyTable \/ store'[i] = store[i]
  BY <1>4
<1>6. Sound(EmptyTable) /\ EmptyTable \in Tables
  BY EmptyIsSound DEF Sound
<1>7. \A i \in Impls : Sound(store'[i]) /\ store'[i] \in Tables
  BY <1>1, <1>5, <1>6 DEF Sound
<1>8. store' \in [Impls -> Tables]
  BY <1>4, <1>7
<1>9. store'[impl'[o]] = store[impl[p]]
  BY <1>1, <1>2, <1>4
<1>10. ASSUME NEW q \in Objects \ {o} PROVE store'[impl'[q]] = store[impl[q]]
  <2>1. impl'[q] = impl[q] /\ impl[q] \in Impls
    BY <1>1, <1>2
  <2>2. ~ (impl[o] = impl[q] /\ UseCount(impl[q]) = 1)
    BY SoleUser
  <2> QED
    BY <1>4, <2>1, <2>2
<1> QED
  BY <1>3, <1>7, <1>8, <1>9, <1>10 DEF Changed

-----------------------------------------------------------------------------
(* Steps.                                                                  *)

PcType == pc \in [Objects -> {"idle", "lock", "sum", "labeled", "return"}]

\* A thread that has computed the first sum or is about to return.
SumSteps ==
    \A o \in Objects : /\ pc[o] = "labeled" => store[impl[o]].check_sum
                       /\ pc[o] = "return" => store[impl[o]].check_sum_finalized

\* The inductive invariant.
Inv == Placing /\ PcType /\ SumSteps

\* What an operation of the abstract specification makes of the list of o.
Allowed(o, w) ==
    \/ Abstract!Add(List(Table(o)), w)
    \/ Abstract!RemoveOne(List(Table(o)), w)
    \/ \E p \in Objects : \/ Abstract!Reread(List(Table(p)), w)
                          \/ Abstract!AddTable(List(Table(o)), List(Table(p)), w)
                          \/ Abstract!Compact(List(Table(p)), w)
                          \/ Abstract!Prune(List(Table(p)), w)
    \/ \E l, r \in Objects : Abstract!Merge(List(Table(l)), List(Table(r)), w)

\* An operation on o, when its thread is in no checksum call.
Move(o) == /\ pc[o] = "idle" /\ pc' = pc
           /\ \E t : Sound(t) /\ Changed(o, t) /\ Allowed(o, List(t))

\* A list that an object has already may be the list of any object.
LEMMA Same ==
  ASSUME NEW o, NEW p \in Objects, NEW w, w = List(Table(p))
  PROVE  Allowed(o, w)
<1>1. Abstract!Reread(List(Table(p)), w)
  BY DEF Abstract!Reread
<1> QED
  BY <1>1 DEF Allowed

\* The table of an object.
LEMMA TableSound ==
  ASSUME Placing, NEW o \in Objects
  PROVE  Sound(Table(o)) /\ impl[o] \in Impls /\ Table(o) = store[impl[o]]
BY DEF Placing, Table

\* Adding a symbol is an operation of the abstract specification.
LEMMA AddedAllowed ==
  ASSUME NEW o \in Objects, Sound(Table(o)), NEW s \in Symbols, NEW k \in Int, NEW u, Added(Table(o), s, k, u)
  PROVE  Allowed(o, List(u))
<1> DEFINE q == List(Table(o))
<1>1. q \in Seq(Pairs) /\ Len(q) \in Nat
  BY ListType
<1>2. CASE Has(q, s)
  BY <1>2, Same DEF Added
<1>3. CASE ~ Has(q, s)
  <2>1. List(u) = Append(q, << s, k >>) /\ << s, k >> \in Pairs
    BY <1>3 DEF Added, Pairs
  <2>2. Len(List(u)) = Len(q) + 1 /\ List(u) \in Seq(Pairs) /\ \A i \in DOMAIN q : List(u)[i] = q[i]
    BY <1>1, <2>1, Appended
  <2>3. Prefix(q, List(u))
    BY <1>1, <2>2 DEF Prefix
  <2>4. SubSeq(List(u), 1, Len(q)) = q
    BY <1>1, <2>2, <2>3, SubSeqIs
  <2>5. Abstract!Add(q, List(u))
    BY <2>2, <2>4 DEF Abstract!Add
  <2> QED
    BY <2>5 DEF Allowed
<1> QED
  BY <1>2, <1>3

\* Each operation makes its object move as the abstract specification allows.
LEMMA AddSymbolMoves ==
  ASSUME Placing, NEW o \in Objects, NEW s \in Symbols, NEW k \in Keys \cup {kNoSymbol}, DoAddSymbol(o, s, k)
  PROVE  Move(o)
<1> DEFINE t == Table(o)
           u == AddSymbol(t, s, k)
<1>1. k \in Int /\ pc[o] = "idle" /\ pc' = pc /\ ~ Used(t, k) /\ Mutate(o, u)
  BY KeyAssumption DEF DoAddSymbol, kNoSymbol, Idle
<1>2. Sound(t)
  BY TableSound
<1>3. ~ HasKey(List(t), k)
  <2>1. Entries(t) = List(t)
    BY <1>2, ListFacts
  <2> QED
    BY <1>1, <2>1 DEF Used, HasKey, Range
<1>4. Sound(u) /\ Allowed(o, List(u))
  <2>1. CASE k = kNoSymbol
    <3>1. u = t
      BY <2>1 DEF AddSymbol
    <3> QED
      BY <3>1, <1>2, Same
  <2>2. CASE k # kNoSymbol
    <3>1. Added(t, s, k, u)
      BY <1>1, <1>2, <1>3, <2>2, SymbolAdded
    <3> QED
      BY <3>1, <1>1, <1>2, AddedAllowed DEF Added
  <2> QED
    BY <2>1, <2>2
<1>5. Changed(o, u)
  BY <1>1, <1>4, MutateFacts
<1> QED
  BY <1>1, <1>4, <1>5 DEF Move

LEMMA AddNewMoves ==
  ASSUME Placing, NEW o \in Objects, NEW s \in Symbols, DoAddNew(o, s)
  PROVE  Move(o)
<1> DEFINE t == Table(o)
           k == t.available_key
           u == AddNew(t, s)
<1>1. pc[o] = "idle" /\ pc' = pc /\ Mutate(o, u)
  BY DEF DoAddNew, Idle
<1>2. Sound(t) /\ k \in Nat
  BY TableSound, ListType
<1>3. ~ HasKey(List(t), k) /\ k # kNoSymbol /\ k \in Int
  <2>1. \A i \in DOMAIN List(t) : List(t)[i][2] < k /\ List(t)[i][2] \in Int
    BY <1>2, ListFacts, ListType
  <2> QED
    BY <1>2, <2>1 DEF HasKey, kNoSymbol
<1>4. Added(t, s, k, u)
  BY <1>2, <1>3, SymbolAdded DEF AddNew
<1>5. Sound(u) /\ Allowed(o, List(u))
  BY <1>2, <1>3, <1>4, AddedAllowed DEF Added
<1>6. Changed(o, u)
  BY <1>1, <1>5, MutateFacts
<1> QED
  BY <1>1, <1>5, <1>6 DEF Move

LEMMA RemoveMoves ==
  ASSUME Placing, NEW o \in Objects, NEW k \in Keys \cup 0..MaxKey, DoRemoveSymbol(o, k)
  PROVE  Move(o)
<1> DEFINE t == Table(o)
           u == RemoveSymbol(t, k)
<1>1. k \in Int /\ pc[o] = "idle" /\ pc' = pc /\ Mutate(o, u)
  BY KeyAssumption DEF DoRemoveSymbol, Idle
<1>2. Sound(t)
  BY TableSound
<1>3. Sound(u) /\ (u = t \/ \E i \in DOMAIN List(t) : List(u) = RemoveAt(List(t), i))
  BY <1>1, <1>2, RemoveSymbolFacts
<1>4. Allowed(o, List(u))
  <2>1. CASE u = t
    BY <2>1, Same
  <2>2. CASE \E i \in DOMAIN List(t) : List(u) = RemoveAt(List(t), i)
    <3>1. Abstract!RemoveOne(List(t), List(u))
      BY <2>2 DEF Abstract!RemoveOne, Abstract!RemoveAt, RemoveAt
    <3> QED
      BY <3>1 DEF Allowed
  <2> QED
    BY <1>3, <2>1, <2>2
<1>5. Changed(o, u)
  BY <1>1, <1>3, MutateFacts
<1> QED
  BY <1>1, <1>3, <1>4, <1>5 DEF Move

LEMMA AddTableMoves ==
  ASSUME Placing, NEW o \in Objects, NEW p \in Objects, DoAddTable(o, p)
  PROVE  Move(o)
<1> DEFINE u == AddTable(Table(o), Table(p))
<1>1. pc[o] = "idle" /\ pc' = pc /\ Mutate(o, u)
  BY DEF DoAddTable, Idle
<1>2. Sound(Table(o)) /\ Sound(Table(p))
  BY TableSound
<1>3. Sound(u) /\ Abstract!AddTable(List(Table(o)), List(Table(p)), List(u))
  BY <1>2, AddTableFacts
<1>4. Allowed(o, List(u))
  BY <1>3 DEF Allowed
<1>5. Changed(o, u)
  BY <1>1, <1>3, MutateFacts
<1> QED
  BY <1>1, <1>3, <1>4, <1>5 DEF Move

LEMMA CopyMoves ==
  ASSUME Placing, NEW o \in Objects, NEW p \in Objects, Copy(o, p)
  PROVE  Move(o)
<1>1. pc[o] = "idle" /\ pc' = pc /\ Share(o, p)
  BY DEF Copy, Idle
<1>2. Sound(Table(p)) /\ Changed(o, Table(p))
  BY <1>1, TableSound, ShareFacts
<1>3. Allowed(o, List(Table(p)))
  BY Same
<1> QED
  BY <1>1, <1>2, <1>3 DEF Move

LEMMA RenewMoves ==
  ASSUME Placing, NEW o \in Objects, Renew(o)
  PROVE  Move(o)
<1> DEFINE t == Table(o)
           v == List(t)
<1>1. pc[o] = "idle" /\ pc' = pc
  BY DEF Renew, Idle
<1>2. Sound(t) /\ v \in Seq(Pairs) /\ DOMAIN v = 1..Len(v) /\ OneToOne(v)
  BY TableSound, ListType, ListFacts
<1>3. PICK u : /\ Assign(o, u)
               /\ \/ u = Read(Written(t)) \/ u = ReadText(Entries(t))
                  \/ u = CompactSymbolTable(t) \/ u = PruneSymbolTable(t, {1})
  BY DEF Renew
<1>4. Sound(u) /\ Allowed(o, List(u))
  <2>1. CASE u = Read(Written(t))
    <3>1. Sound(u) /\ Len(List(u)) = Len(v) /\ Range(List(u)) = Range(v)
      BY <1>2, <2>1, ReadFacts
    <3>2. Abstract!Reread(v, List(u))
      BY <3>1, SymbolsInIs DEF Abstract!Reread
    <3> QED
      BY <3>1, <3>2 DEF Allowed
  <2>2. CASE u = ReadText(Entries(t))
    <3>1. Sound(u) /\ List(u) = v
      BY <1>2, <2>2, ReadTextFacts
    <3> QED
      BY <3>1, Same
  <2>3. CASE u = CompactSymbolTable(t)
    <3>1. Sound(u) /\ Abstract!Compact(v, List(u))
      BY <1>2, <2>3, CompactFacts
    <3> QED
      BY <3>1 DEF Allowed
  <2>4. CASE u = PruneSymbolTable(t, {1})
    <3> DEFINE w == List(u)
    <3>1. Sound(u) /\ Picked(v, Len(v), w)
      BY <1>2, <2>4, PruneFacts
    <3>2. w \in Seq(Pairs) /\ DOMAIN w = 1..Len(w)
      BY <3>1, ListType
    <3> HIDE DEF v, w
    <3>3. Abstract!Range(w) \subseteq Abstract!Range(v)
      <4>1. \A p \in DOMAIN w : \E j \in DOMAIN v : w[p] = v[j]
        BY <3>1, <1>2 DEF Picked
      <4> QED
        BY <4>1 DEF Abstract!Range
    <3>4. Abstract!InOrderOf(v, w, 0)
      <4>1. (0 + 1)..Len(w) = DOMAIN w
        BY <3>2
      <4> QED
        BY <4>1, <3>1 DEF Abstract!InOrderOf, Picked
    <3>5. Abstract!Prune(v, w)
      BY <3>3, <3>4 DEF Abstract!Prune
    <3> QED
      BY <3>1, <3>5 DEF Allowed, v, w
  <2> QED
    BY <1>3, <2>1, <2>2, <2>3, <2>4
<1>5. Changed(o, u)
  BY <1>3, <1>4, AssignFacts
<1> QED
  BY <1>1, <1>4, <1>5 DEF Move

\* RightHasAll and LeftHasAll are about the lists.
LEMMA HasAll ==
  ASSUME NEW t, Sound(t), NEW u, Sound(u)
  PROVE  RightHasAll(t, u) <=> \A s : Has(List(t), s) => Has(List(u), s)
<1>1. t \in Tables /\ t.symbols \in Seq(Symbols)
  BY Fields DEF Sound
<1>2. \A s : s \in Range(t.symbols) <=> Has(List(t), s)
  BY <1>1, SymbolInList DEF Has
<1>3. \A s \in Range(t.symbols) : s \in Symbols
  BY <1>1 DEF Range
<1>4. ASSUME NEW s \in Symbols PROVE FindSymbol(u, s) # kNoSymbol <=> Has(List(u), s)
  <2>1. FindSymbol(u, s) = kNoSymbol <=> \A i \in DOMAIN List(u) : s # List(u)[i][1]
    BY LookUp
  <2> QED
    BY <2>1 DEF Has
<1> QED
  BY <1>2, <1>3, <1>4 DEF RightHasAll

\* The three outcomes of MergeSymbolTable.
LEMMA MergeCases ==
  ASSUME NEW l, NEW r, MergeSymbolTable(l, r)
  PROVE  LET right == RightHasAll(Table(l), Table(r))
             left == LeftHasAll(Table(l), Table(r))
         IN  /\ pc[r] = "idle" /\ pc' = pc /\ l # r
             /\ \/ right /\ impl' = impl /\ store' = store
                \/ ~ right /\ left /\ Share(r, l)
                \/ ~ right /\ ~ left /\ Assign(r, Merged(Table(l), Table(r)))
<1> DEFINE R == RightHasAll(Table(l), Table(r))
           K == LeftHasAll(Table(l), Table(r))
           a == UNCHANGED << impl, store >>
           b == Share(r, l)
           c == Assign(r, Merged(Table(l), Table(r)))
<1>1. /\ pc[r] = "idle" /\ pc' = pc /\ l # r
      /\ CASE R -> a [] ~ R /\ K -> b [] OTHER -> c
  BY DEF MergeSymbolTable, Idle
<1>2. \/ R /\ a
      \/ ~ R /\ K /\ b
      \/ ~ R /\ ~ K /\ c
  <2> HIDE DEF R, K, a, b, c
  <2> QED
    BY <1>1, Zenon
<1> QED
  BY <1>1, <1>2

\* Object r has all symbols after it: those it had, those of l if it lacked
\* none, or a new table.
MergedTable(l, r, u) ==
    /\ Sound(u) /\ Changed(r, u)
    /\ \A s : Has(List(u), s) <=> Has(List(Table(l)), s) \/ Has(List(Table(r)), s)
    /\ Prefix(List(Table(l)), List(u)) \/ List(u) = List(Table(r))

\* MergeSymbolTable in all its cases: one side has all symbols, or a new table is made.
LEMMA MergeOutcome ==
  ASSUME Placing, NEW l \in Objects, NEW r \in Objects, MergeSymbolTable(l, r)
  PROVE  \E u : MergedTable(l, r, u) /\ Allowed(r, List(u))
<1> DEFINE R == RightHasAll(Table(l), Table(r))
           K == LeftHasAll(Table(l), Table(r))
           q == List(Table(l))
           v == List(Table(r))
<1>1. /\ Sound(Table(l)) /\ Sound(Table(r)) /\ Table(r) = store[impl[r]]
      /\ q \in Seq(Pairs) /\ v \in Seq(Pairs)
  BY TableSound, ListType
<1>2. \/ R /\ impl' = impl /\ store' = store
      \/ ~ R /\ K /\ Share(r, l)
      \/ ~ R /\ ~ K /\ Assign(r, Merged(Table(l), Table(r)))
  BY MergeCases
<1>3. R <=> \A s : Has(q, s) => Has(v, s)
  BY <1>1, HasAll
<1>4. K <=> \A s : Has(v, s) => Has(q, s)
  <2>1. K <=> RightHasAll(Table(r), Table(l))
    BY DEF LeftHasAll, RightHasAll
  <2> QED
    BY <1>1, <2>1, HasAll
<1>5. Len(q) \in Nat /\ Prefix(q, q)
  BY <1>1 DEF Prefix
<1> HIDE DEF R, K
<1>6. CASE R /\ impl' = impl /\ store' = store
  <2>1. Changed(r, Table(r))
    BY <1>1, <1>6 DEF Changed, Placing
  <2>2. MergedTable(l, r, Table(r))
    BY <1>1, <1>3, <1>6, <2>1 DEF MergedTable
  <2> QED
    BY <2>2, Same
<1>7. CASE ~ R /\ K /\ Share(r, l)
  <2>1. Changed(r, Table(l))
    BY <1>7, ShareFacts, TableSound
  <2>2. MergedTable(l, r, Table(l))
    BY <1>1, <1>4, <1>5, <1>7, <2>1 DEF MergedTable
  <2> QED
    BY <2>2, Same
<1>8. CASE ~ R /\ ~ K /\ Assign(r, Merged(Table(l), Table(r)))
  <2> DEFINE u == Merged(Table(l), Table(r))
             w == List(u)
  <2>1. Sound(u) /\ Prefix(q, w) /\ \A s : Has(w, s) <=> Has(q, s) \/ Has(v, s)
    BY <1>1, MergedFacts
  <2>2. Changed(r, u)
    BY <1>8, <2>1, AssignFacts
  <2>3. MergedTable(l, r, u)
    BY <2>1, <2>2 DEF MergedTable
  <2>4. Abstract!SymbolsIn(w) = Abstract!SymbolsIn(q) \cup Abstract!SymbolsIn(v)
    <3>1. \A s : s \in Abstract!SymbolsIn(w) <=> s \in Abstract!SymbolsIn(q) \cup Abstract!SymbolsIn(v)
      BY <2>1, SymbolsInIs
    <3> QED
      BY <3>1
  <2>5. SubSeq(w, 1, Len(q)) = q
    BY <1>1, <2>1, ListType, SubSeqIs
  <2>6. Abstract!Merge(q, v, w)
    BY <2>4, <2>5 DEF Abstract!Merge
  <2>7. Allowed(r, w)
    BY <2>6 DEF Allowed
  <2> QED
    BY <2>3, <2>7
<1> QED
  BY <1>2, <1>6, <1>7, <1>8

LEMMA MergeMoves ==
  ASSUME Placing, NEW l \in Objects, NEW r \in Objects, MergeSymbolTable(l, r)
  PROVE  Move(r)
BY MergeCases, MergeOutcome DEF Move, MergedTable

\* Every operation on a table is a move of its object.
LEMMA StepCases ==
  ASSUME Placing, Step
  PROVE  (\E o \in Objects : Move(o)) \/ (\E o \in Objects : CheckSumStep(o))
<1>1. ASSUME NEW o \in Objects, NEW s \in Symbols,
             DoAddNew(o, s) \/ \E k \in Keys \cup {kNoSymbol} : DoAddSymbol(o, s, k)
      PROVE  Move(o)
  BY <1>1, AddNewMoves, AddSymbolMoves
<1>2. ASSUME NEW o \in Objects, NEW k \in Keys \cup 0..MaxKey, DoRemoveSymbol(o, k)
      PROVE  Move(o)
  BY <1>2, RemoveMoves
<1>3. ASSUME NEW o \in Objects, NEW p \in Objects, DoAddTable(o, p) \/ Copy(o, p)
      PROVE  Move(o)
  BY <1>3, AddTableMoves, CopyMoves
<1>4. ASSUME NEW o \in Objects, Renew(o) PROVE Move(o)
  BY <1>4, RenewMoves
<1>5. ASSUME NEW l \in Objects, NEW r \in Objects, MergeSymbolTable(l, r) PROVE Move(r)
  BY <1>5, MergeMoves
<1> QED
  BY <1>1, <1>2, <1>3, <1>4, <1>5 DEF Step

\* A move keeps the invariant: the other objects have what they had, and no
\* checksum call of o is under way.
LEMMA MoveKeeps ==
  ASSUME Inv, NEW o \in Objects, Move(o)
  PROVE  Inv'
<1>1. PICK t : Changed(o, t)
  BY DEF Move
<1>2. Placing'
  BY <1>1 DEF Changed, Placing
<1>3. PcType'
  BY DEF Move, Inv, PcType
<1>4. SumSteps'
  <2> SUFFICES ASSUME NEW p \in Objects
               PROVE  /\ pc'[p] = "labeled" => store'[impl'[p]].check_sum
                      /\ pc'[p] = "return" => store'[impl'[p]].check_sum_finalized
    BY DEF SumSteps
  <2>1. CASE p = o
    BY <2>1 DEF Move
  <2>2. CASE p # o
    <3>1. store'[impl'[p]] = store[impl[p]] /\ pc'[p] = pc[p]
      BY <2>2, <1>1 DEF Changed, Move
    <3> QED
      BY <3>1 DEF Inv, SumSteps
  <2> QED
    BY <2>1, <2>2
<1> QED
  BY <1>2, <1>3, <1>4 DEF Inv

\* A table with other sums and another holder of the lock.
LEMMA OtherSums ==
  ASSUME NEW t, Sound(t), NEW u \in Tables, SumsSound(u),
         u.symbols = t.symbols, u.buckets = t.buckets, u.dense_key_limit = t.dense_key_limit,
         u.idx_key = t.idx_key, u.key_map = t.key_map, u.available_key = t.available_key
  PROVE  Sound(u) /\ List(u) = List(t)
<1>1. Sound(u)
  BY DEF Sound
<1>2. List(u) = List(t)
  BY DEF List, GetNthKey, NumSymbols
<1> QED
  BY <1>1, <1>2

\* What a step of a checksum call keeps: the objects' lists and the sums
\* that are there.
Kept == /\ Placing'
        /\ impl' = impl
        /\ \A i \in Impls : /\ List(store'[i]) = List(store[i])
                            /\ store[i].check_sum => store'[i].check_sum
                            /\ store[i].check_sum_finalized => store'[i].check_sum_finalized

\* A step that keeps the lists and takes no sum back keeps the invariant.
LEMMA Updated ==
  ASSUME Placing, NEW i \in Impls, NEW u, Sound(u), List(u) = List(store[i]),
         store[i].check_sum => u.check_sum, store[i].check_sum_finalized => u.check_sum_finalized,
         impl' = impl, store' = [store EXCEPT ![i] = u]
  PROVE  Kept
<1>1. /\ impl \in [Objects -> Impls] /\ store \in [Impls -> Tables]
      /\ (\A j \in Impls : Sound(store[j])) /\ u \in Tables
  BY DEF Placing, Sound
<1>2. store' \in [Impls -> Tables] /\ \A j \in Impls : Sound(store'[j])
  BY <1>1
<1>3. Placing'
  BY <1>1, <1>2 DEF Placing
<1>4. \A j \in Impls : store'[j] = IF j = i THEN u ELSE store[j]
  BY <1>1
<1> QED
  BY <1>3, <1>4 DEF Kept

\* So does a step that touches no table.
LEMMA Untouched ==
  ASSUME Placing, impl' = impl, store' = store
  PROVE  Kept
BY DEF Placing, Kept

\* The thread of o goes to a step whose promise its table keeps.
LEMMA Advanced ==
  ASSUME Inv, NEW o \in Objects, Kept,
         NEW x \in {"idle", "lock", "sum", "labeled", "return"}, pc' = [pc EXCEPT ![o] = x],
         x = "labeled" => store'[impl[o]].check_sum,
         x = "return" => store'[impl[o]].check_sum_finalized
  PROVE  Inv' /\ \A p \in Objects : List(store'[impl'[p]]) = List(store[impl[p]])
<1>1. pc \in [Objects -> {"idle", "lock", "sum", "labeled", "return"}] /\ impl \in [Objects -> Impls]
  BY DEF Inv, PcType, Placing
<1>2. PcType' /\ \A p \in Objects : pc'[p] = IF p = o THEN x ELSE pc[p]
  BY <1>1 DEF PcType
<1>3. SumSteps'
  <2> SUFFICES ASSUME NEW p \in Objects
               PROVE  /\ pc'[p] = "labeled" => store'[impl'[p]].check_sum
                      /\ pc'[p] = "return" => store'[impl'[p]].check_sum_finalized
    BY DEF SumSteps
  <2>1. impl'[p] = impl[p] /\ impl[p] \in Impls
    BY <1>1 DEF Kept
  <2>2. CASE p = o
    BY <1>2, <2>1, <2>2
  <2>3. CASE p # o
    <3>1. pc'[p] = pc[p]
      BY <1>2, <2>3
    <3> QED
      BY <3>1, <2>1 DEF Inv, SumSteps, Kept
  <2> QED
    BY <2>2, <2>3
<1>4. \A p \in Objects : List(store'[impl'[p]]) = List(store[impl[p]])
  BY <1>1 DEF Kept
<1> QED
  BY <1>2, <1>3, <1>4 DEF Inv, Kept

\* The steps of a checksum call.
LEMMA CheckSumKeeps ==
  ASSUME Inv, NEW o \in Objects, CheckSumStep(o)
  PROVE  Inv' /\ \A p \in Objects : List(store'[impl'[p]]) = List(store[impl[p]])
<1> DEFINE i == impl[o]
           t == store[i]
           Steps == {"idle", "lock", "sum", "labeled", "return"}
<1>1. Placing /\ i \in Impls /\ Sound(t) /\ t \in Tables /\ Table(o) = t
      /\ store \in [Impls -> Tables]
  BY DEF Inv, Placing, Sound, Table
<1>2. t.check_sum_finalized \in BOOLEAN /\ t.check_sum \in BOOLEAN
  BY <1>1, Fields
<1>3. CASE Look(o)
  <2>1. Kept
    BY <1>1, <1>3, Untouched DEF Look
  <2> DEFINE x == IF t.check_sum_finalized THEN "return" ELSE "lock"
  <2>2. pc' = [pc EXCEPT ![o] = x] /\ store' = store
    BY <1>1, <1>3 DEF Look
  <2>3. x \in Steps /\ x # "labeled" /\ (x = "return" => t.check_sum_finalized)
    OBVIOUS
  <2> HIDE DEF x
  <2> QED
    BY <2>1, <2>2, <2>3, Advanced
<1>4. CASE Lock(o)
  <2>1. CASE t.check_sum_finalized
    <3>1. Kept
      BY <1>1, <1>4, <2>1, Untouched DEF Lock
    <3>2. pc' = [pc EXCEPT ![o] = "return"] /\ store' = store
      BY <1>1, <1>4, <2>1 DEF Lock
    <3>3. "return" \in Steps /\ "return" # "labeled"
      OBVIOUS
    <3> QED
      BY <2>1, <3>1, <3>2, <3>3, Advanced
  <2>2. CASE ~ t.check_sum_finalized
    <3> DEFINE u == [t EXCEPT !.mutex = o]
    <3>1. pc' = [pc EXCEPT ![o] = "sum"] /\ store' = [store EXCEPT ![i] = u] /\ impl' = impl
      BY <1>1, <1>4, <2>2 DEF Lock
    <3>2. /\ u \in Tables /\ u.symbols = t.symbols /\ u.buckets = t.buckets /\ u.idx_key = t.idx_key
          /\ u.dense_key_limit = t.dense_key_limit /\ u.key_map = t.key_map
          /\ u.available_key = t.available_key /\ u.check_sum_finalized = t.check_sum_finalized
          /\ u.check_sum = t.check_sum
      BY <1>1 DEF Tables
    <3> HIDE DEF u
    <3>3. Sound(u) /\ List(u) = List(t)
      <4>1. SumsSound(u)
        BY <2>2, <3>2 DEF SumsSound
      <4> HIDE DEF t
      <4> QED
        BY <1>1, <3>2, <4>1, OtherSums
    <3>4. Kept
      BY <1>1, <3>1, <3>2, <3>3, Updated
    <3>5. "sum" \in Steps /\ "sum" # "labeled" /\ "sum" # "return"
      OBVIOUS
    <3> QED
      BY <3>1, <3>4, <3>5, Advanced
  <2> QED
    BY <2>1, <2>2
<1>5. CASE Sum(o)
  <2> DEFINE u == [t EXCEPT !.check_sum = TRUE]
  <2>1. pc' = [pc EXCEPT ![o] = "labeled"] /\ store' = [store EXCEPT ![i] = u] /\ impl' = impl
    BY <1>1, <1>5 DEF Sum
  <2>2. /\ u \in Tables /\ u.symbols = t.symbols /\ u.buckets = t.buckets /\ u.idx_key = t.idx_key
        /\ u.dense_key_limit = t.dense_key_limit /\ u.key_map = t.key_map
        /\ u.available_key = t.available_key /\ u.check_sum_finalized = t.check_sum_finalized
        /\ u.check_sum = TRUE /\ u.labeled_check_sum = t.labeled_check_sum /\ u.removed = t.removed
    BY <1>1 DEF Tables
  <2>3. store'[i] = u
    BY <1>1, <2>1
  <2> HIDE DEF u
  <2>4. Sound(u) /\ List(u) = List(t)
    <3>1. SumsSound(u)
      BY <1>1, <2>2 DEF SumsSound, Sound
    <3> HIDE DEF t
    <3> QED
      BY <1>1, <2>2, <3>1, OtherSums
  <2>5. Kept
    BY <1>1, <2>1, <2>2, <2>4, Updated
  <2>6. "labeled" \in Steps /\ "labeled" # "return"
    OBVIOUS
  <2> QED
    BY <2>1, <2>2, <2>3, <2>5, <2>6, Advanced
<1>6. CASE Finalize(o)
  <2> DEFINE u == [t EXCEPT !.labeled_check_sum = TRUE, !.check_sum_finalized = TRUE,
                            !.mutex = None, !.removed = FALSE]
  <2>1. pc' = [pc EXCEPT ![o] = "return"] /\ store' = [store EXCEPT ![i] = u] /\ impl' = impl
    BY <1>1, <1>6 DEF Finalize
  <2>2. /\ u \in Tables /\ u.symbols = t.symbols /\ u.buckets = t.buckets /\ u.idx_key = t.idx_key
        /\ u.dense_key_limit = t.dense_key_limit /\ u.key_map = t.key_map
        /\ u.available_key = t.available_key /\ u.check_sum_finalized = TRUE
        /\ u.check_sum = t.check_sum /\ u.labeled_check_sum = TRUE
    BY <1>1 DEF Tables
  <2>3. store'[i] = u
    BY <1>1, <2>1
  <2> HIDE DEF u
  <2>4. t.check_sum
    BY <1>6 DEF Finalize, Inv, SumSteps
  <2>5. Sound(u) /\ List(u) = List(t)
    <3>1. SumsSound(u)
      BY <2>2, <2>4 DEF SumsSound
    <3> HIDE DEF t
    <3> QED
      BY <1>1, <2>2, <3>1, OtherSums
  <2>6. Kept
    BY <1>1, <2>1, <2>2, <2>5, Updated
  <2>7. "return" \in Steps /\ "return" # "labeled"
    OBVIOUS
  <2> QED
    BY <2>1, <2>2, <2>3, <2>6, <2>7, Advanced
<1>7. CASE Return(o)
  <2>1. Kept
    BY <1>1, <1>7, Untouched DEF Return
  <2>2. pc' = [pc EXCEPT ![o] = "idle"] /\ store' = store
    BY <1>7 DEF Return
  <2>3. "idle" \in Steps /\ "idle" # "labeled" /\ "idle" # "return"
    OBVIOUS
  <2> QED
    BY <2>1, <2>2, <2>3, Advanced
<1> QED
  BY <1>3, <1>4, <1>5, <1>6, <1>7 DEF CheckSumStep

-----------------------------------------------------------------------------
(* Theorems.                                                               *)

\* The invariant holds initially.
LEMMA InitInv == Init => Inv
<1> SUFFICES ASSUME Init PROVE Inv
  OBVIOUS
<1>1. Sound(EmptyTable) /\ EmptyTable \in Tables
  BY EmptyIsSound DEF Sound
<1>2. Placing
  BY <1>1 DEF Init, Placing, Impls
<1>3. PcType /\ SumSteps
  BY DEF Init, PcType, SumSteps
<1> QED
  BY <1>2, <1>3 DEF Inv

\* Every step keeps the invariant.
LEMMA NextInv == Inv /\ [Next]_vars => Inv'
<1> SUFFICES ASSUME Inv, [Next]_vars PROVE Inv'
  OBVIOUS
<1>1. CASE UNCHANGED << impl, store, pc >>
  BY <1>1 DEF Inv, Placing, PcType, SumSteps
<1>2. CASE MergeReturned
  BY <1>1, <1>2 DEF MergeReturned
<1>3. CASE Step
  BY <1>3, StepCases, MoveKeeps, CheckSumKeeps DEF Inv
<1>4. CASE UNCHANGED vars
  BY <1>1, <1>4 DEF vars
<1> QED
  BY <1>2, <1>3, <1>4 DEF Next

\* Every step keeps all tables sound: the buckets find every symbol, dense and
\* sparse keys divide the positions between them, and no key and no symbol occurs
\* twice (symbol-table.cc).
THEOREM TablesSound == Spec => []Inv
BY InitInv, NextInv, PTL DEF Spec

\* Find of a key, Find of a symbol and iteration agree, in tables of any size
\* with any hash function, whatever was added, removed, copied, read, pruned,
\* compacted or merged before.
THEOREM AllLookupsAgree == Spec => []LookupsAgree
<1>1. Inv => LookupsAgree
  <2> SUFFICES ASSUME Inv, NEW o \in Objects
               PROVE  LET t == Table(o)
                          Bound(s, k) == << s, k >> \in Range(Entries(t))
                      IN  /\ \A s \in Symbols : FindSymbol(t, s) = kNoSymbol => s \notin Range(t.symbols)
                          /\ \A s \in Range(t.symbols) : Bound(s, FindSymbol(t, s))
                          /\ \A k \in Keys \cup 0..MaxKey : FindKey(t, k) # NoString => Bound(FindKey(t, k), k)
                          /\ \A e \in Range(Entries(t)) : FindKey(t, e[2]) = e[1] /\ e[2] < t.available_key
    BY DEF LookupsAgree
  <2> DEFINE t == Table(o)
             q == List(t)
  <2>1. Sound(t) /\ t \in Tables
    BY TableSound DEF Inv, Sound
  <2>2. Entries(t) = q /\ OneToOne(q) /\ \A i \in DOMAIN q : q[i][2] < t.available_key
    BY <2>1, ListFacts
  <2>3. \A i \in DOMAIN q : q[i] = << q[i][1], q[i][2] >>
    BY <2>2 DEF OneToOne, Pairs
  <2>4. \A i \in DOMAIN q : q[i] \in Range(q)
    BY DEF Range
  <2>5. \A i \in DOMAIN q : FindKey(t, q[i][2]) = q[i][1] /\ FindSymbol(t, q[i][1]) = q[i][2]
    BY <2>1, LookUp
  <2>6. \A s \in Symbols : FindSymbol(t, s) = kNoSymbol => s \notin Range(t.symbols)
    BY <2>1, LookUp, SymbolInList
  <2>7. ASSUME NEW s \in Range(t.symbols) PROVE << s, FindSymbol(t, s) >> \in Range(q)
    <3>1. PICK i \in DOMAIN q : q[i][1] = s
      BY <2>1, SymbolInList
    <3>2. << s, FindSymbol(t, s) >> = q[i]
      BY <3>1, <2>3, <2>5
    <3> QED
      BY <3>2, <2>4
  <2>8. ASSUME NEW k \in Keys \cup 0..MaxKey, FindKey(t, k) # NoString
        PROVE  << FindKey(t, k), k >> \in Range(q)
    <3>1. k \in Int
      BY KeyAssumption
    <3>2. PICK i \in DOMAIN q : k = q[i][2]
      BY <3>1, <2>1, <2>8, LookUp
    <3>3. << FindKey(t, k), k >> = q[i]
      BY <3>2, <2>3, <2>5
    <3> QED
      BY <3>3, <2>4
  <2>9. ASSUME NEW e \in Range(q) PROVE FindKey(t, e[2]) = e[1] /\ e[2] < t.available_key
    <3>1. PICK i \in DOMAIN q : e = q[i]
      BY DEF Range
    <3> QED
      BY <3>1, <2>2, <2>5
  <2> HIDE DEF t, q
  <2> QED
    BY <2>2, <2>6, <2>7, <2>8, <2>9 DEF t
<1> QED
  BY <1>1, TablesSound, PTL

\* A checksum call returns the sums of what the table has, unless a symbol
\* was removed since they were computed.
THEOREM CheckSumsAreTrue == Spec => []CheckSumsTrue
<1>1. Inv => CheckSumsTrue
  <2> SUFFICES ASSUME Inv, NEW o \in Objects, pc[o] = "return", ~ Table(o).removed
               PROVE  Table(o).check_sum /\ Table(o).labeled_check_sum
    BY DEF CheckSumsTrue
  <2>1. Sound(Table(o)) /\ Table(o) = store[impl[o]]
    BY TableSound DEF Inv
  <2>2. Table(o).check_sum_finalized
    BY <2>1 DEF Inv, SumSteps
  <2> QED
    BY <2>1, <2>2 DEF Sound, SumsSound
<1> QED
  BY <1>1, TablesSound, PTL

\* As many keys as pairs.
LEMMA KeyCount ==
  ASSUME NEW v, OneToOne(v)
  PROVE  Cardinality(KeysOf(v)) = Len(v)
<1> DEFINE n == Len(v)
           K == KeysOf(v)
           f == [i \in 1..n |-> v[i][2]]
<1>1. v \in Seq(Pairs) /\ n \in Nat /\ DOMAIN v = 1..n
  BY DEF OneToOne
<1>2. (\A i \in 1..n : v[i][2] \in K) /\ \A k \in K : \E i \in 1..n : v[i][2] = k
  BY <1>1 DEF KeysOf, Range
<1> HIDE DEF K
<1>3. f \in Injection(1..n, K)
  BY <1>1, <1>2 DEF Injection, IsInjective, OneToOne
<1>4. f \in Surjection(1..n, K)
  BY <1>2 DEF Surjection
<1>5. IsFiniteSet(1..n) /\ Cardinality(1..n) = n
  BY <1>1, UpTo
<1> HIDE DEF f
<1> QED
  BY <1>3, <1>4, <1>5, FS_Surjection DEF K

\* The lists of the two tables and of the merged one.
WellMerged(left, right, merged) ==
    /\ SymbolsOf(merged) = SymbolsOf(left) \cup SymbolsOf(right)
    /\ Cardinality(KeysOf(merged)) = Len(merged)
    /\ Range(left) \subseteq Range(merged) \/ merged = right

\* What MergeComplete says of a call.
LEMMA MergeIsComplete ==
  ASSUME Inv, NEW l \in Objects, NEW r \in Objects, MergeSymbolTable(l, r)
  PROVE  WellMerged(Entries(Table(l)), Entries(Table(r)), Entries(store'[impl'[r]]))
<1> DEFINE q == List(Table(l))
           v == List(Table(r))
           w == List(store'[impl'[r]])
<1>1. Placing /\ Sound(Table(l)) /\ Sound(Table(r))
  BY TableSound DEF Inv
<1>2. PICK u : MergedTable(l, r, u)
  BY <1>1, MergeOutcome
<1>3. Sound(store'[impl'[r]]) /\ w = List(u)
  BY <1>2 DEF MergedTable, Changed
<1>4. Entries(Table(l)) = q /\ Entries(Table(r)) = v /\ Entries(store'[impl'[r]]) = w /\ OneToOne(w)
  BY <1>1, <1>3, ListFacts
<1>5. (\A s : Has(w, s) <=> Has(q, s) \/ Has(v, s)) /\ (Prefix(q, w) \/ w = v)
  BY <1>2, <1>3 DEF MergedTable
<1>6. q \in Seq(Pairs) /\ w \in Seq(Pairs)
  BY <1>1, <1>3, ListType
<1> HIDE DEF q, v, w
<1>7. \A x : \A s : s \in SymbolsOf(x) <=> Has(x, s)
  BY DEF SymbolsOf, Range, Has
<1>8. SymbolsOf(w) = SymbolsOf(q) \cup SymbolsOf(v)
  <2>1. \A s : s \in SymbolsOf(w) <=> s \in SymbolsOf(q) \cup SymbolsOf(v)
    BY <1>5, <1>7
  <2> QED
    BY <2>1
<1>9. Prefix(q, w) => Range(q) \subseteq Range(w)
  <2> SUFFICES ASSUME Prefix(q, w), NEW i \in DOMAIN q PROVE q[i] \in Range(w)
    BY DEF Range
  <2>1. i \in DOMAIN w /\ w[i] = q[i]
    BY <1>6 DEF Prefix
  <2> QED
    BY <2>1 DEF Range
<1>10. Cardinality(KeysOf(w)) = Len(w)
  BY <1>4, KeyCount
<1> QED
  BY <1>4, <1>5, <1>8, <1>9, <1>10 DEF WellMerged

\* Only MergeSymbolTable puts out a merged table.
LEMMA OnlyMergeCalls ==
  ASSUME Step, ~ merge.called, merge'.called
  PROVE  \E l, r \in Objects : /\ MergeSymbolTable(l, r) /\ merge'.left = l /\ merge'.right = r
<1>1. merge' # merge
  OBVIOUS
<1>2. \A o, s : DoAddNew(o, s) => merge' = merge
  BY DEF DoAddNew
<1>3. \A o, s, k : DoAddSymbol(o, s, k) => merge' = merge
  BY DEF DoAddSymbol
<1>4. \A o, k : DoRemoveSymbol(o, k) => merge' = merge
  BY DEF DoRemoveSymbol
<1>5. \A o, p : DoAddTable(o, p) \/ Copy(o, p) => merge' = merge
  BY DEF DoAddTable, Copy
<1>6. \A o : Renew(o) => merge' = merge
  BY DEF Renew
<1>7. \A o : CheckSumStep(o) => merge' = merge
  BY DEF CheckSumStep, Look, Lock, Sum, Finalize, Return
<1>8. PICK l \in Objects, r \in Objects : MergeSymbolTable(l, r)
  BY <1>1, <1>2, <1>3, <1>4, <1>5, <1>6, <1>7 DEF Step
<1>9. merge'.left = l /\ merge'.right = r
  BY <1>8 DEF MergeSymbolTable
<1> QED
  BY <1>8, <1>9

\* MergeSymbolTable puts out a table with the symbols of both, no key twice,
\* and the keys of the left side, unless the right side has all symbols.
THEOREM MergesAreComplete == Spec => MergeComplete
<1>1. ASSUME Inv, Next, merge'.called
      PROVE  WellMerged(Entries(Table(merge'.left)), Entries(Table(merge'.right)),
                        Entries(store'[impl'[merge'.right]]))
  <2>1. ~ MergeReturned
    BY <1>1 DEF MergeReturned, NoMerge
  <2>2. Step /\ ~ merge.called
    BY <1>1, <2>1 DEF Next
  <2>3. PICK l \in Objects, r \in Objects : MergeSymbolTable(l, r) /\ merge'.left = l /\ merge'.right = r
    BY <1>1, <2>2, OnlyMergeCalls
  <2> QED
    BY <1>1, <2>3, MergeIsComplete
<1>2. Inv /\ [Next]_vars =>
        [MergeStep(LAMBDA left, right, merged :
            /\ SymbolsOf(merged) = SymbolsOf(left) \cup SymbolsOf(right)
            /\ Cardinality(KeysOf(merged)) = Len(merged)
            /\ Range(left) \subseteq Range(merged) \/ merged = right)]_vars
  BY <1>1 DEF MergeStep, WellMerged, Table
<1> QED
  BY <1>2, TablesSound, PTL DEF Spec, MergeComplete

\* Every table behaves as a list of its own of symbols and keys, as SymbolMap
\* describes: no operation on an object shows in another one.
THEOREM TablesAreMaps == Spec => ImplementsMap
<1> DEFINE tab == [o \in Objects |-> List(Table(o))]
<1>1. Init => Abstract!Init
  <2> SUFFICES ASSUME Init PROVE tab = [o \in Objects |-> <<>>]
    BY DEF Abstract!Init
  <2>1. \A o \in Objects : Table(o) = EmptyTable
    BY DEF Init, Table, Impls
  <2> QED
    BY <2>1, EmptyIsSound
<1>2. ASSUME Inv, NEW o \in Objects, Move(o) PROVE Abstract!Next
  <2>1. PICK t : Sound(t) /\ Changed(o, t) /\ Allowed(o, List(t))
    BY <1>2 DEF Move
  <2>2. \A p \in Objects : tab[p] = List(Table(p)) /\ tab'[p] = List(store'[impl'[p]])
    BY DEF Table
  <2>3. \A p \in Objects \ {o} : tab'[p] = tab[p]
    BY <2>1, <2>2 DEF Changed, Table
  <2>4. tab'[o] = List(t)
    BY <2>1, <2>2 DEF Changed
  <2>5. Abstract!Bijective(tab'[o])
    BY <2>1, <2>4, ListFacts, BijectiveIs
  <2>6. \/ Abstract!Add(tab[o], tab'[o]) \/ Abstract!RemoveOne(tab[o], tab'[o])
        \/ \E p \in Objects : \/ Abstract!Reread(tab[p], tab'[o]) \/ Abstract!AddTable(tab[o], tab[p], tab'[o])
                              \/ Abstract!Compact(tab[p], tab'[o]) \/ Abstract!Prune(tab[p], tab'[o])
        \/ \E l, r \in Objects : Abstract!Merge(tab[l], tab[r], tab'[o])
    <3> HIDE DEF tab
    <3> QED
      BY <2>1, <2>2, <2>4 DEF Allowed
  <2> QED
    BY <2>3, <2>5, <2>6 DEF Abstract!Next
<1>3. ASSUME \A p \in Objects : List(store'[impl'[p]]) = List(store[impl[p]])
      PROVE  tab' = tab
  BY <1>3 DEF Table
<1>4. Inv /\ [Next]_vars => [Abstract!Next]_tab
  <2> SUFFICES ASSUME Inv, [Next]_vars PROVE Abstract!Next \/ tab' = tab
    OBVIOUS
  <2>1. CASE Step
    <3>1. CASE \E o \in Objects : Move(o)
      BY <1>2, <3>1
    <3>2. CASE \E o \in Objects : CheckSumStep(o)
      BY <1>3, <3>2, CheckSumKeeps
    <3> QED
      BY <2>1, <3>1, <3>2, StepCases DEF Inv
  <2>2. CASE MergeReturned
    BY <2>2 DEF MergeReturned, Table
  <2>3. CASE UNCHANGED vars
    BY <2>3 DEF vars, Table
  <2> QED
    BY <2>1, <2>2, <2>3 DEF Next
<1> QED
  BY <1>1, <1>4, TablesSound, PTL DEF Spec, ImplementsMap, Abstract!Spec
=============================================================================
