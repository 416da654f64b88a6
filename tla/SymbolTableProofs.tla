------------------------- MODULE SymbolTableProofs -------------------------
(***************************************************************************)
(* Symbol tables of any size, with any hash function, any keys and any     *)
(* number of objects and threads.                                          *)
(*                                                                         *)
(* Sound(t) is what every operation on an implementation keeps: a linear   *)
(* probe from its hash leads every symbol to its own position and ends     *)
(* (Holds); the sparse keys and idx_key_ are inverse to each other, apart  *)
(* from the dense keys and below available_key_ (KeysSound); and the sums  *)
(* are true unless a symbol was removed (SumsSound).                       *)
(***************************************************************************)
EXTENDS SymbolTable, FiniteSetTheorems, WellFoundedInduction, NaturalsInduction, TLAPS

-----------------------------------------------------------------------------
(* Natural numbers, and functions by recursion on them.                    *)

\* Induction on the naturals, for a set instead of a predicate.
LEMMA NatInduct ==
  ASSUME NEW S, 0 \in S, \A n \in Nat : n \in S => n + 1 \in S
  PROVE  Nat \subseteq S
<1> SUFFICES ASSUME Nat \ S # {} PROVE FALSE
  OBVIOUS
<1> DEFINE T == Nat \ S
<1>1. IsWellFoundedOn(OpToRel(<, Nat), Nat)
  BY NatLessThanWellFounded
<1>2. T \subseteq Nat /\ T # {}
  OBVIOUS
<1> HIDE DEF T
<1>3. PICK x \in T : \A y \in T : ~ (<<y, x>> \in OpToRel(<, Nat))
  BY <1>1, <1>2, WFMin
<1>4. x \in Nat /\ x # 0 /\ x \notin S
  BY <1>2 DEF T
<1>5. x - 1 \in Nat /\ (x - 1) + 1 = x /\ x - 1 < x
  BY <1>4
<1>6. x - 1 \in T
  BY <1>5, <1>4 DEF T
<1>7. <<x - 1, x>> \in OpToRel(<, Nat)
  BY <1>5, <1>4 DEF OpToRel
<1> QED
  BY <1>3, <1>6, <1>7

\* A nonempty set of naturals has a least element.
LEMMA LeastNat ==
  ASSUME NEW S \in SUBSET Nat, S # {}
  PROVE  \E x \in S : \A y \in S : x <= y
<1>1. IsWellFoundedOn(OpToRel(<, Nat), Nat)
  BY NatLessThanWellFounded
<1>2. PICK x \in S : \A y \in S : ~ (<<y, x>> \in OpToRel(<, Nat))
  BY <1>1, WFMin
<1>3. ASSUME NEW y \in S PROVE x <= y
  <2>1. ~ (y < x)
    BY <1>2 DEF OpToRel
  <2> QED
    BY <2>1
<1> QED
  BY <1>2, <1>3

\* The states of a loop of n rounds.
States(h, S, base, n, step) ==
    h \in [0..n -> S] /\ h[0] = base /\ \A i \in 1..n : h[i] = step[i][h[i - 1]]
Rounds(S, n, step) == \A i \in 1..n : \A x \in S : step[i][x] \in S

\* A loop of n rounds has a state after each of them.
LEMMA LoopStates ==
  ASSUME NEW S, NEW base \in S, NEW n \in Nat, NEW step, Rounds(S, n, step)
  PROVE  \E h : States(h, S, base, n, step)
<1> DEFINE Good(m) == \E h \in [0..m -> S] : h[0] = base /\ \A i \in 1..m : h[i] = step[i][h[i - 1]]
           G == {m \in Nat : m <= n => Good(m)}
<1>1. 0 \in G
  <2> DEFINE h == [i \in 0..0 |-> base]
  <2>1. h \in [0..0 -> S] /\ h[0] = base
    OBVIOUS
  <2>2. \A i \in 1..0 : FALSE
    OBVIOUS
  <2> HIDE DEF h
  <2>3. Good(0)
    BY <2>1, <2>2
  <2> QED
    BY <2>3
<1>2. ASSUME NEW m \in Nat, m \in G PROVE m + 1 \in G
  <2> SUFFICES ASSUME m + 1 <= n PROVE Good(m + 1)
    OBVIOUS
  <2>1. PICK h \in [0..m -> S] : h[0] = base /\ \A i \in 1..m : h[i] = step[i][h[i - 1]]
    BY <1>2
  <2> DEFINE g == [i \in 0..(m + 1) |-> IF i = m + 1 THEN step[m + 1][h[m]] ELSE h[i]]
  <2>2. h[m] \in S /\ step[m + 1][h[m]] \in S
    BY <2>1 DEF Rounds
  <2>3. g \in [0..(m + 1) -> S]
    BY <2>1, <2>2
  <2>4. g[0] = base
    BY <2>1
  <2>5. ASSUME NEW i \in 1..(m + 1) PROVE g[i] = step[i][g[i - 1]]
    <3>1. g[i - 1] = h[i - 1]
      OBVIOUS
    <3>2. CASE i = m + 1
      <4>1. g[i] = step[m + 1][h[m]]
        BY <3>2
      <4>2. i - 1 = m
        BY <3>2
      <4> QED
        BY <3>1, <3>2, <4>1, <4>2
    <3>3. CASE i # m + 1
      BY <3>1, <3>3, <2>1
    <3> QED
      BY <3>2, <3>3
  <2> QED
    BY <2>3, <2>4, <2>5
<1>3. Nat \subseteq G
  BY <1>1, <1>2, NatInduct
<1>4. Good(n)
  BY <1>3
<1> QED
  BY <1>4 DEF States

\* A property of the first state of a loop that every round keeps.
LEMMA LoopInvariant ==
  ASSUME NEW n \in Nat, NEW G, 0 \in G, \A i \in 1..n : i - 1 \in G => i \in G
  PROVE  \A i \in 0..n : i \in G
<1> DEFINE T == {i \in Nat : i <= n => i \in G}
<1>1. 0 \in T
  OBVIOUS
<1>2. ASSUME NEW m \in Nat, m \in T PROVE m + 1 \in T
  <2> SUFFICES ASSUME m + 1 <= n PROVE m + 1 \in G
    OBVIOUS
  <2>1. m \in G /\ m + 1 \in 1..n /\ (m + 1) - 1 = m
    BY <1>2
  <2> QED
    BY <2>1
<1>3. Nat \subseteq T
  <2> HIDE DEF T
  <2> QED
    BY <1>1, <1>2, NatInduct
<1> QED
  BY <1>3

\* Two facts of arithmetic that the provers do not find by themselves.
LEMMA AtLeastOnce ==
  ASSUME NEW x \in Int, NEW n \in Nat, x >= 1
  PROVE  x * n >= n
OBVIOUS

LEMMA TimesMinus ==
  ASSUME NEW p \in Int, NEW q \in Int, NEW n \in Int
  PROVE  (p - q) * n = p * n - q * n
OBVIOUS

\* The remainder is what is left of whole multiples.
LEMMA Remainder ==
  ASSUME NEW n \in Nat, n > 0, NEW q \in Int, NEW r \in 0..(n - 1)
  PROVE  (q * n + r) % n = r
<1> DEFINE a == q * n + r
           p == a \div n
           s == a % n
<1>1. a \in Int /\ p \in Int /\ s \in 0..(n - 1) /\ a = p * n + s
  OBVIOUS
<1>2. (p - q) * n = r - s
  BY <1>1, TimesMinus
<1> HIDE DEF p, s, a
<1>3. ~ (p - q >= 1)
  BY <1>1, <1>2, AtLeastOnce
<1>4. ~ (q - p >= 1)
  <2>1. (q - p) * n = s - r
    BY <1>1, <1>2, TimesMinus
  <2> QED
    BY <1>1, <2>1, AtLeastOnce
<1>5. p = q
  BY <1>3, <1>4, <1>1
<1>6. r = s
  BY <1>2, <1>5, <1>1
<1> QED
  BY <1>6 DEF s, a

\* Linear probing comes to every bucket.
LEMMA ProbesAll ==
  ASSUME NEW h \in Nat, NEW n \in Nat, n > 0, NEW j \in 0..(n - 1)
  PROVE  \E d \in 0..(n - 1) : (h + d) % n = j
<1>1. PICK q, r \in Int : q = h \div n /\ r = h % n /\ h = q * n + r /\ r \in 0..(n - 1)
  OBVIOUS
<1>2. CASE j >= r
  <2>1. h + (j - r) = q * n + j
    BY <1>1
  <2>2. (q * n + j) % n = j
    BY Remainder, <1>1
  <2>3. (j - r) \in 0..(n - 1)
    BY <1>1, <1>2
  <2> QED
    BY <2>1, <2>2, <2>3
<1>3. CASE j < r
  <2>1. h + (n + j - r) = (q + 1) * n + j
    <3>1. (q + 1) * n = q * n + n
      BY <1>1
    <3> QED
      BY <1>1, <3>1
  <2>2. ((q + 1) * n + j) % n = j
    <3>1. q + 1 \in Int
      BY <1>1
    <3> QED
      BY Remainder, <3>1
  <2>3. (n + j - r) \in 0..(n - 1)
    BY <1>1, <1>3
  <2> QED
    BY <2>1, <2>2, <2>3
<1> QED
  BY <1>1, <1>2, <1>3

-----------------------------------------------------------------------------
(* The buckets.                                                            *)

Distinct(q) == \A i, j \in DOMAIN q : q[i] = q[j] => i = j

\* The search for s looks at d buckets before it comes to this one.
Probe(s, d, n) == (Hash[s] + d) % n

\* The n buckets b hold the first m symbols, each within reach of its search.
Reaches(symbols, b, n, j) ==
    \E d \in 0..(n - 1) : /\ b[Probe(symbols[j + 1], d, n)] = j
                          /\ \A e \in 0..(d - 1) : b[Probe(symbols[j + 1], e, n)] # kEmptyBucket
Holds(symbols, b, n, m) ==
    /\ n \in Nat /\ m \in Nat /\ m <= Len(symbols)
    /\ b \in [0..(n - 1) -> Int]
    /\ \A x \in 0..(n - 1) : b[x] >= -1 /\ b[x] < m
    /\ \A x, y \in 0..(n - 1) : b[x] = b[y] /\ b[x] # kEmptyBucket => x = y
    /\ \A j \in 0..(m - 1) : Reaches(symbols, b, n, j)

\* A search stays within the buckets.
LEMMA ProbeType ==
  ASSUME NEW s \in Symbols, NEW n \in Nat, n > 0, NEW d \in Nat
  PROVE  Probe(s, d, n) \in 0..(n - 1)
<1>1. Hash[s] + d \in Nat
  BY SymbolAssumption
<1> QED
  BY <1>1 DEF Probe

\* The number of buckets, which the code keeps as a power of 2.
LEMMA SizeOfBuckets ==
  ASSUME NEW n \in Nat, NEW b, DOMAIN b = 0..(n - 1)
  PROVE  Cardinality(DOMAIN b) = n
<1>1. 0 \in Int /\ n - 1 \in Int
  OBVIOUS
<1>2. Cardinality(0..(n - 1)) = IF 0 > n - 1 THEN 0 ELSE (n - 1) - 0 + 1
  BY <1>1, FS_Interval
<1> QED
  BY <1>2

\* Fewer symbols than buckets: one is empty.
LEMMA EmptyOne ==
  ASSUME NEW symbols, NEW b, NEW n, NEW m, Holds(symbols, b, n, m), m < n
  PROVE  \E x \in 0..(n - 1) : b[x] = kEmptyBucket
<1> SUFFICES ASSUME \A x \in 0..(n - 1) : b[x] # kEmptyBucket PROVE FALSE
  OBVIOUS
<1>1. n \in Nat /\ m \in Nat /\ b \in [0..(n - 1) -> Int]
  BY DEF Holds
<1>2. \A x \in 0..(n - 1) : b[x] \in 0..(m - 1)
  BY <1>1 DEF Holds, kEmptyBucket
<1>3. b \in [0..(n - 1) -> 0..(m - 1)]
  BY <1>1, <1>2
<1>4. /\ IsFiniteSet(0..(n - 1)) /\ Cardinality(0..(n - 1)) = n
      /\ IsFiniteSet(0..(m - 1)) /\ Cardinality(0..(m - 1)) = m
  <2>1. n - 1 \in Int /\ m - 1 \in Int /\ 0 \in Int
    BY <1>1
  <2>2. /\ IsFiniteSet(0..(n - 1)) /\ Cardinality(0..(n - 1)) = IF 0 > n - 1 THEN 0 ELSE (n - 1) - 0 + 1
        /\ IsFiniteSet(0..(m - 1)) /\ Cardinality(0..(m - 1)) = IF 0 > m - 1 THEN 0 ELSE (m - 1) - 0 + 1
    BY <2>1, FS_Interval
  <2> QED
    BY <2>2, <1>1
<1>5. \E x, y \in 0..(n - 1) : x # y /\ b[x] = b[y]
  BY <1>3, <1>4, FS_PigeonHole
<1> QED
  BY <1>5 DEF Holds

\* Where a search ends: the buckets before are those of other symbols.
EndsAt(symbols, b, n, s, x) ==
    \E d \in 0..(n - 1) : /\ x = Probe(s, d, n)
                          /\ \A e \in 0..(d - 1) : /\ b[Probe(s, e, n)] # kEmptyBucket
                                                   /\ symbols[b[Probe(s, e, n)] + 1] # s
                          /\ b[x] = kEmptyBucket \/ symbols[b[x] + 1] = s

\* The search ends.
LEMMA SlotEnds ==
  ASSUME NEW symbols, NEW b, NEW n, NEW m, Holds(symbols, b, n, m), m < n, NEW s \in Symbols
  PROVE  /\ EndsAt(symbols, b, n, s, Slot(symbols, b, s))
         /\ Slot(symbols, b, s) \in 0..(n - 1)
<1>1. n \in Nat /\ n > 0 /\ m \in Nat /\ DOMAIN b = 0..(n - 1)
  BY DEF Holds
<1>2. Cardinality(DOMAIN b) = n
  BY <1>1, SizeOfBuckets
<1> DEFINE At(d) == Probe(s, d, n)
           Ends(d) == b[At(d)] = kEmptyBucket \/ symbols[b[At(d)] + 1] = s
           First(d) == Ends(d) /\ \A e \in 0..(d - 1) : ~ Ends(e)
<1>3. Slot(symbols, b, s) = At(CHOOSE d \in 0..(n - 1) : First(d))
  BY <1>2 DEF Slot, Mask, Probe
<1>4. \E d \in 0..(n - 1) : Ends(d)
  <2>1. PICK x \in 0..(n - 1) : b[x] = kEmptyBucket
    BY EmptyOne
  <2>a. Hash[s] \in Nat
    BY SymbolAssumption
  <2>2. PICK d \in 0..(n - 1) : (Hash[s] + d) % n = x
    BY <1>1, <2>a, ProbesAll
  <2> QED
    BY <2>1, <2>2 DEF Probe
<1>5. \E d \in 0..(n - 1) : First(d)
  <2> DEFINE E == {d \in 0..(n - 1) : Ends(d)}
  <2>1. E \in SUBSET Nat /\ E # {}
    BY <1>4, <1>1
  <2>2. PICK d \in E : \A e \in E : d <= e
    BY <2>1, LeastNat
  <2>3. d \in 0..(n - 1) /\ Ends(d)
    BY <2>2
  <2>4. ASSUME NEW e \in 0..(d - 1) PROVE ~ Ends(e)
    <3>1. e \in 0..(n - 1) /\ ~ (d <= e)
      BY <2>3, <1>1
    <3> QED
      BY <3>1, <2>2
  <2> QED
    BY <2>3, <2>4
<1> DEFINE d == CHOOSE d \in 0..(n - 1) : First(d)
<1>6. d \in 0..(n - 1) /\ First(d)
  <2> HIDE DEF First
  <2> QED
    BY <1>5
<1>7. Slot(symbols, b, s) = At(d)
  BY <1>3
<1> HIDE DEF d
<1>a. d \in Nat
  BY <1>6, <1>1
<1>8. At(d) \in 0..(n - 1)
  BY <1>a, <1>1, ProbeType
<1> QED
  BY <1>6, <1>7, <1>8 DEF EndsAt

\* The search finds a symbol at its position.
LEMMA SlotFinds ==
  ASSUME NEW symbols \in Seq(Symbols), Distinct(symbols), NEW b, NEW n, NEW m,
         Holds(symbols, b, n, m), m < n, NEW j \in 0..(m - 1)
  PROVE  b[Slot(symbols, b, symbols[j + 1])] = j
<1> DEFINE s == symbols[j + 1]
           x == Slot(symbols, b, s)
<1>1. n \in Nat /\ n > 0 /\ m \in Nat /\ m <= Len(symbols) /\ b \in [0..(n - 1) -> Int]
  BY DEF Holds
<1>2. j + 1 \in DOMAIN symbols /\ s \in Symbols
  BY <1>1
<1>3. EndsAt(symbols, b, n, s, x) /\ x \in 0..(n - 1)
  BY <1>2, SlotEnds
<1>4. PICK d \in 0..(n - 1) : /\ x = Probe(s, d, n)
                              /\ \A e \in 0..(d - 1) : /\ b[Probe(s, e, n)] # kEmptyBucket
                                                       /\ symbols[b[Probe(s, e, n)] + 1] # s
                              /\ b[x] = kEmptyBucket \/ symbols[b[x] + 1] = s
  BY <1>3 DEF EndsAt
<1>5. PICK c \in 0..(n - 1) : /\ b[Probe(s, c, n)] = j
                              /\ \A e \in 0..(c - 1) : b[Probe(s, e, n)] # kEmptyBucket
  BY DEF Holds, Reaches
<1> HIDE DEF x, s
<1>6. ~ (c < d)
  <2> SUFFICES ASSUME c < d PROVE FALSE
    OBVIOUS
  <2>1. c \in 0..(d - 1)
    BY <1>1
  <2> QED
    BY <2>1, <1>4, <1>5 DEF s
<1>7. b[x] # kEmptyBucket
  <2>1. CASE d = c
    BY <1>4, <1>5, <2>1 DEF kEmptyBucket
  <2>2. CASE d # c
    <3>1. d \in 0..(c - 1)
      BY <1>1, <1>6, <2>2
    <3> QED
      BY <3>1, <1>4, <1>5
  <2> QED
    BY <2>1, <2>2
<1>8. symbols[b[x] + 1] = s
  BY <1>7, <1>4
<1>9. b[x] \in 0..(m - 1)
  BY <1>7, <1>3, <1>1 DEF Holds, kEmptyBucket
<1>10. b[x] + 1 \in DOMAIN symbols
  BY <1>9, <1>1
<1>11. b[x] + 1 = j + 1
  BY <1>8, <1>10, <1>2 DEF Distinct, s
<1> QED
  BY <1>11, <1>9 DEF x, s

\* The search for a symbol that is not among the first m ends at an empty bucket.
LEMMA SlotMisses ==
  ASSUME NEW symbols, NEW b, NEW n, NEW m, Holds(symbols, b, n, m), m < n, NEW s \in Symbols,
         \A j \in 0..(m - 1) : symbols[j + 1] # s
  PROVE  b[Slot(symbols, b, s)] = kEmptyBucket
<1> DEFINE x == Slot(symbols, b, s)
<1>1. EndsAt(symbols, b, n, s, x) /\ x \in 0..(n - 1)
  BY SlotEnds
<1>2. b[x] = kEmptyBucket \/ symbols[b[x] + 1] = s
  BY <1>1 DEF EndsAt
<1>3. b[x] # kEmptyBucket => b[x] \in 0..(m - 1)
  BY <1>1 DEF Holds, kEmptyBucket
<1> QED
  BY <1>2, <1>3

\* A new symbol goes to the bucket where its search ends.
LEMMA BucketAdded ==
  ASSUME NEW symbols, NEW b, NEW n, NEW m, Holds(symbols, b, n, m), m < n, NEW s \in Symbols,
         \A j \in 0..(m - 1) : symbols[j + 1] # s /\ symbols[j + 1] \in Symbols,
         NEW longer \in Seq(Symbols), Len(longer) >= m + 1, longer[m + 1] = s,
         \A j \in 0..(m - 1) : longer[j + 1] = symbols[j + 1]
  PROVE  Holds(longer, [b EXCEPT ![Slot(symbols, b, s)] = m], n, m + 1)
<1> DEFINE x == Slot(symbols, b, s)
           c == [b EXCEPT ![x] = m]
<1>1. n \in Nat /\ n > 0 /\ m \in Nat /\ b \in [0..(n - 1) -> Int]
  BY DEF Holds
<1>2. EndsAt(symbols, b, n, s, x) /\ x \in 0..(n - 1)
  BY SlotEnds
<1>3. b[x] = kEmptyBucket
  BY SlotMisses
<1> HIDE DEF x
<1>4. c \in [0..(n - 1) -> Int] /\ c[x] = m /\ \A y \in 0..(n - 1) : y # x => c[y] = b[y]
  BY <1>1, <1>2
<1>5. \A y \in 0..(n - 1) : b[y] >= -1 /\ b[y] < m
  BY DEF Holds
<1> HIDE DEF c
<1>6. ASSUME NEW y \in 0..(n - 1) PROVE c[y] >= -1 /\ c[y] < m + 1
  <2>1. b[y] \in Int /\ b[y] >= -1 /\ b[y] < m
    BY <1>5, <1>1
  <2>2. c[y] = b[y] \/ c[y] = m
    BY <1>4
  <2> QED
    BY <2>1, <2>2, <1>1
<1>7. ASSUME NEW y \in 0..(n - 1), NEW z \in 0..(n - 1), c[y] = c[z], c[y] # kEmptyBucket PROVE y = z
  <2>1. CASE y = x
    BY <2>1, <1>4, <1>5, <1>7, <1>1
  <2>2. CASE z = x
    BY <2>2, <1>4, <1>5, <1>7, <1>1
  <2>3. CASE y # x /\ z # x
    <3>1. b[y] = b[z] /\ b[y] # kEmptyBucket
      BY <2>3, <1>4, <1>7
    <3> QED
      BY <3>1 DEF Holds
  <2> QED
    BY <2>1, <2>2, <2>3
<1>8. \A y \in 0..(n - 1) : b[y] # kEmptyBucket => c[y] = b[y]
  BY <1>4, <1>3
<1>9. \A y \in 0..(n - 1) : b[y] # kEmptyBucket => c[y] # kEmptyBucket
  BY <1>8
<1>10. ASSUME NEW j \in 0..(m - 1) PROVE Reaches(longer, c, n, j)
  <2> DEFINE w == symbols[j + 1]
  <2>1. w \in Symbols /\ longer[j + 1] = w
    BY <1>1
  <2>2. PICK d \in 0..(n - 1) : /\ b[Probe(w, d, n)] = j
                                /\ \A e \in 0..(d - 1) : b[Probe(w, e, n)] # kEmptyBucket
    BY DEF Holds, Reaches
  <2> HIDE DEF w
  <2>3. \A e \in 0..d : Probe(w, e, n) \in 0..(n - 1)
    BY <2>1, <1>1, ProbeType
  <2>4. c[Probe(w, d, n)] = j
    <3>1. d \in 0..d /\ j # kEmptyBucket
      BY <1>1 DEF kEmptyBucket
    <3> QED
      BY <2>2, <2>3, <1>8, <3>1
  <2>5. ASSUME NEW e \in 0..(d - 1) PROVE c[Probe(w, e, n)] # kEmptyBucket
    <3>1. e \in 0..d
      OBVIOUS
    <3> QED
      BY <3>1, <2>2, <2>3, <1>9
  <2> QED
    BY <2>1, <2>4, <2>5 DEF Reaches
<1>11. Reaches(longer, c, n, m)
  <2>1. PICK d \in 0..(n - 1) : /\ x = Probe(s, d, n)
                                /\ \A e \in 0..(d - 1) : b[Probe(s, e, n)] # kEmptyBucket
    BY <1>2 DEF EndsAt
  <2>2. c[Probe(s, d, n)] = m
    BY <2>1, <1>4
  <2>3. ASSUME NEW e \in 0..(d - 1) PROVE c[Probe(s, e, n)] # kEmptyBucket
    <3>1. Probe(s, e, n) \in 0..(n - 1)
      BY <1>1, ProbeType
    <3> QED
      BY <3>1, <2>1, <1>9
  <2> QED
    BY <2>2, <2>3 DEF Reaches
<1>12. \A j \in 0..m : j \in 0..(m - 1) \/ j = m
  BY <1>1
<1>13. \A j \in 0..((m + 1) - 1) : Reaches(longer, c, n, j)
  BY <1>10, <1>11, <1>12, <1>1
<1>14. m + 1 \in Nat /\ m + 1 <= Len(longer)
  BY <1>1
<1>15. Holds(longer, c, n, m + 1)
  BY <1>1, <1>4, <1>6, <1>7, <1>13, <1>14 DEF Holds
<1> QED
  BY <1>15 DEF c, x

\* New buckets hold no symbol.
LEMMA NoneHeld ==
  ASSUME NEW symbols \in Seq(Symbols), NEW n \in Nat
  PROVE  Holds(symbols, EmptyBuckets(n), n, 0) /\ EmptyBuckets(n) \in [0..(n - 1) -> Int]
<1>1. \A j \in 0..(0 - 1) : FALSE
  OBVIOUS
<1> QED
  BY <1>1 DEF Holds, EmptyBuckets, kEmptyBucket

\* A changed function has the type of the function.
LEMMA ExceptType ==
  ASSUME NEW S, NEW T, NEW f \in [S -> T], NEW x, NEW v \in T
  PROVE  [f EXCEPT ![x] = v] \in [S -> T]
OBVIOUS

\* The states of the loop of Rehash.
LEMMA RehashStates ==
  ASSUME NEW symbols \in Seq(Symbols), NEW n \in Nat
  PROVE  \E f \in [0..Len(symbols) -> [0..(n - 1) -> Int]] :
            /\ Rehash(symbols, n) = f[Len(symbols)]
            /\ f[0] = EmptyBuckets(n)
            /\ \A i \in 1..Len(symbols) :
                  f[i] = [f[i - 1] EXCEPT ![Slot(symbols, f[i - 1], symbols[i])] = i - 1]
<1> DEFINE S == [0..(n - 1) -> Int]
           L == Len(symbols)
           Put(b, i) == [b EXCEPT ![Slot(symbols, b, symbols[i])] = i - 1]
           step == [i \in 1..L |-> [b \in S |-> Put(b, i)]]
           F(f) == [i \in 0..L |-> IF i = 0 THEN EmptyBuckets(n) ELSE Put(f[i - 1], i)]
<1>1. L \in Nat /\ EmptyBuckets(n) \in S
  BY DEF EmptyBuckets, kEmptyBucket
<1>2. \A i \in 1..L : \A b \in S : Put(b, i) \in S
  <2>1. \A i \in 1..L : i - 1 \in Int
    BY <1>1
  <2> QED
    BY <2>1, ExceptType
<1>a. Rehash(symbols, n) = (CHOOSE f : f = F(f))[L]
  BY DEF Rehash
<1> HIDE DEF S, L, Put
<1>3. Rounds(S, L, step)
  BY <1>2 DEF Rounds
<1>b. PICK h : States(h, S, EmptyBuckets(n), L, step)
  <2> HIDE DEF step
  <2> QED
    BY <1>1, <1>3, LoopStates
<1>4. h \in [0..L -> S] /\ h[0] = EmptyBuckets(n) /\ \A i \in 1..L : h[i] = step[i][h[i - 1]]
  BY <1>b DEF States
<1>5. ASSUME NEW i \in 0..L PROVE h[i] = F(h)[i]
  <2>1. CASE i = 0
    BY <2>1, <1>4
  <2>2. CASE i # 0
    <3>1. i \in 1..L /\ i - 1 \in 0..L
      BY <2>2, <1>1
    <3>2. h[i - 1] \in S
      BY <3>1, <1>4
    <3> QED
      BY <3>1, <3>2, <2>2, <1>4
  <2> QED
    BY <2>1, <2>2
<1>6. h = F(h)
  BY <1>4, <1>5
<1> DEFINE f == CHOOSE f : f = F(f)
<1>7. f = F(f)
  <2> HIDE DEF F
  <2> QED
    BY <1>6
<1> HIDE DEF f
<1>8. /\ DOMAIN f = 0..L /\ f[0] = EmptyBuckets(n)
      /\ \A i \in 1..L : f[i] = Put(f[i - 1], i)
  <2>1. 0 \in 0..L /\ \A i \in 1..L : i \in 0..L /\ i # 0
    BY <1>1
  <2> QED
    BY <1>7, <2>1
<1>9. \A i \in 0..L : f[i] \in S
  <2> DEFINE G == {i \in 0..L : f[i] \in S}
  <2>1. 0 \in G
    BY <1>8, <1>1
  <2>2. ASSUME NEW i \in 1..L, i - 1 \in G PROVE i \in G
    BY <1>8, <1>2, <2>2
  <2> HIDE DEF G
  <2>3. \A i \in 0..L : i \in G
    BY <2>1, <2>2, <1>1, LoopInvariant
  <2> QED
    BY <2>3 DEF G
<1>10. f = [i \in 0..L |-> f[i]]
  BY <1>7, <1>8
<1>11. f \in [0..L -> S]
  BY <1>10, <1>9
<1>12. Rehash(symbols, n) = f[L]
  BY <1>a DEF f
<1> QED
  BY <1>8, <1>11, <1>12 DEF S, L, Put

\* Rehash makes n buckets.
LEMMA RehashType ==
  ASSUME NEW symbols \in Seq(Symbols), NEW n \in Nat
  PROVE  Rehash(symbols, n) \in [0..(n - 1) -> Int]
<1>1. Len(symbols) \in 0..Len(symbols)
  OBVIOUS
<1>2. PICK f \in [0..Len(symbols) -> [0..(n - 1) -> Int]] : Rehash(symbols, n) = f[Len(symbols)]
  BY RehashStates
<1> QED
  BY <1>1, <1>2

\* Rehash puts all symbols within reach.
LEMMA RehashHolds ==
  ASSUME NEW symbols \in Seq(Symbols), Distinct(symbols), NEW n \in Nat, Len(symbols) <= n
  PROVE  Holds(symbols, Rehash(symbols, n), n, Len(symbols))
<1> DEFINE L == Len(symbols)
<1>1. PICK f \in [0..L -> [0..(n - 1) -> Int]] :
            /\ Rehash(symbols, n) = f[L]
            /\ f[0] = EmptyBuckets(n)
            /\ \A i \in 1..L : f[i] = [f[i - 1] EXCEPT ![Slot(symbols, f[i - 1], symbols[i])] = i - 1]
  BY RehashStates
<1> DEFINE G == {i \in 0..L : Holds(symbols, f[i], n, i)}
<1>2. L \in Nat
  OBVIOUS
<1>3. 0 \in G
  BY <1>1, <1>2, NoneHeld
<1>4. ASSUME NEW i \in 1..L, i - 1 \in G PROVE i \in G
  <2> DEFINE m == i - 1
  <2>1. Holds(symbols, f[m], n, m) /\ m \in Nat /\ m < n /\ m + 1 = i
    BY <1>4, <1>2
  <2>2. symbols[i] \in Symbols /\ i \in 0..L
    BY <1>2
  <2>3. ASSUME NEW j \in 0..(m - 1) PROVE symbols[j + 1] # symbols[i] /\ symbols[j + 1] \in Symbols
    <3>1. j + 1 \in DOMAIN symbols /\ i \in DOMAIN symbols /\ j + 1 # i
      BY <1>2
    <3> QED
      BY <3>1 DEF Distinct
  <2>4. Len(symbols) >= m + 1 /\ symbols[m + 1] = symbols[i]
    BY <2>1, <1>2
  <2> HIDE DEF m
  <2>5. Holds(symbols, [f[m] EXCEPT ![Slot(symbols, f[m], symbols[i])] = m], n, m + 1)
    BY <2>1, <2>2, <2>3, <2>4, BucketAdded
  <2>6. f[i] = [f[m] EXCEPT ![Slot(symbols, f[m], symbols[i])] = m]
    BY <1>1 DEF m
  <2> QED
    BY <2>1, <2>2, <2>5, <2>6
<1> HIDE DEF G
<1>5. \A i \in 0..L : i \in G
  BY <1>2, <1>3, <1>4, LoopInvariant
<1> QED
  BY <1>1, <1>2, <1>5 DEF G

-----------------------------------------------------------------------------
(* Tables.                                                                 *)

BucketArrays == UNION {[0..(n - 1) -> Int] : n \in Nat}
KeyMaps == UNION {[S -> Int] : S \in SUBSET Int}

Tables ==
    [symbols : Seq(Symbols), buckets : BucketArrays,
     dense_key_limit : Int, idx_key : Seq(Int), key_map : KeyMaps,
     available_key : Int, check_sum_finalized : BOOLEAN, check_sum : BOOLEAN,
     labeled_check_sum : BOOLEAN, mutex : Objects \cup {None}, removed : BOOLEAN]

\* The buckets hold all symbols, and are at most three quarters full before
\* the last one was added.
BucketsSound(symbols, b) ==
    \E n \in Nat : /\ n >= 4 /\ 4 * (Len(symbols) - 1) < 3 * n
                   /\ Holds(symbols, b, n, Len(symbols))

\* Of L positions the first D have themselves as keys; idx_key and key_map
\* are inverse to each other on the others, whose keys are no dense ones.
KeysSound(L, D, idx, map, available) ==
    /\ D \in Nat /\ D <= L /\ Len(idx) = L - D /\ available >= D
    /\ \A p \in D..(L - 1) : /\ idx[p - D + 1] \in DOMAIN map /\ map[idx[p - D + 1]] = p
                             /\ idx[p - D + 1] < 0 \/ idx[p - D + 1] >= D
                             /\ idx[p - D + 1] # kNoSymbol /\ idx[p - D + 1] < available
    /\ \A k \in DOMAIN map : map[k] \in D..(L - 1) /\ idx[map[k] - D + 1] = k

\* Final sums are those of the contents, or of those before a removal.
SumsSound(t) == t.check_sum_finalized => t.removed \/ (t.check_sum /\ t.labeled_check_sum)

Sound(t) ==
    /\ t \in Tables
    /\ SumsSound(t)
    /\ Distinct(t.symbols)
    /\ BucketsSound(t.symbols, t.buckets)
    /\ KeysSound(Len(t.symbols), t.dense_key_limit, t.idx_key, t.key_map, t.available_key)

Positions(t) == 0..(Len(t.symbols) - 1)

\* The types of the members of SymbolTableImpl.
LEMMA Fields ==
  ASSUME NEW t \in Tables
  PROVE  /\ t.symbols \in Seq(Symbols) /\ Len(t.symbols) \in Nat
         /\ \E n \in Nat : t.buckets \in [0..(n - 1) -> Int] /\ Cardinality(DOMAIN t.buckets) = n
         /\ t.dense_key_limit \in Int
         /\ t.idx_key \in Seq(Int)
         /\ \E S \in SUBSET Int : t.key_map \in [S -> Int]
         /\ t.available_key \in Int
         /\ t.check_sum_finalized \in BOOLEAN /\ t.check_sum \in BOOLEAN
         /\ t.labeled_check_sum \in BOOLEAN /\ t.removed \in BOOLEAN
         /\ t.mutex \in Objects \cup {None}
<1>1. t.symbols \in Seq(Symbols) /\ Len(t.symbols) \in Nat
  BY DEF Tables
<1>2. PICK n \in Nat : t.buckets \in [0..(n - 1) -> Int]
  BY DEF Tables, BucketArrays
<1>3. DOMAIN t.buckets = 0..(n - 1)
  BY <1>2
<1>4. Cardinality(DOMAIN t.buckets) = n
  BY <1>3, SizeOfBuckets
<1>5. \E S \in SUBSET Int : t.key_map \in [S -> Int]
  BY DEF Tables, KeyMaps
<1> QED
  BY <1>1, <1>2, <1>4, <1>5 DEF Tables

\* The key of a position.
LEMMA NthKey ==
  ASSUME NEW t \in Tables, NEW p \in Positions(t)
  PROVE  GetNthKey(t, p) = IF p < t.dense_key_limit THEN p ELSE t.idx_key[p - t.dense_key_limit + 1]
<1>1. Len(t.symbols) \in Nat
  BY Fields
<1>2. ~ (p < 0 \/ p >= NumSymbols(t))
  BY <1>1 DEF NumSymbols, Positions
<1> QED
  BY <1>2 DEF GetNthKey

\* GetNthKey: no two positions have one key, and all keys are below available_key_.
LEMMA NthKeyFacts ==
  ASSUME NEW t, Sound(t), NEW p \in Positions(t)
  PROVE  /\ GetNthKey(t, p) \in Int /\ GetNthKey(t, p) # kNoSymbol
         /\ GetNthKey(t, p) < t.available_key
         /\ \A q \in Positions(t) : GetNthKey(t, p) = GetNthKey(t, q) => p = q
<1> DEFINE L == Len(t.symbols)
           D == t.dense_key_limit
           idx == t.idx_key
<1>1. t \in Tables /\ L \in Nat /\ D \in Nat /\ D <= L /\ idx \in Seq(Int) /\ t.available_key \in Int
  BY Fields DEF Sound, KeysSound
<1>2. KeysSound(L, D, idx, t.key_map, t.available_key)
  BY DEF Sound
<1>3. \A q \in Positions(t) : GetNthKey(t, q) = IF q < D THEN q ELSE idx[q - D + 1]
  BY <1>1, NthKey
<1>4. \A q \in Positions(t) : q \in Int /\ 0 <= q /\ q < L
  BY <1>1 DEF Positions
<1> HIDE DEF L, D, idx
<1>5. \A q \in Positions(t) : q < D \/ q \in D..(L - 1)
  BY <1>1, <1>4
<1>6. D <= t.available_key /\ Len(idx) = L - D
  BY <1>2 DEF KeysSound
<1>7. \A q \in D..(L - 1) : idx[q - D + 1] \in Int
  <2>1. \A q \in D..(L - 1) : q - D + 1 \in 1..(L - D)
    BY <1>1
  <2> QED
    BY <2>1, <1>1, <1>6
<1>8. \A q \in D..(L - 1) : /\ t.key_map[idx[q - D + 1]] = q
                            /\ idx[q - D + 1] < 0 \/ idx[q - D + 1] >= D
                            /\ idx[q - D + 1] # kNoSymbol /\ idx[q - D + 1] < t.available_key
  BY <1>2 DEF KeysSound
<1>9. CASE p < D
  <2>1. GetNthKey(t, p) = p
    BY <1>9, <1>3
  <2>2. ASSUME NEW q \in Positions(t), GetNthKey(t, p) = GetNthKey(t, q) PROVE p = q
    <3>1. CASE q < D
      BY <3>1, <2>1, <2>2, <1>3
    <3>2. CASE ~ (q < D)
      <4>1. q \in D..(L - 1) /\ GetNthKey(t, q) = idx[q - D + 1]
        BY <3>2, <1>3, <1>5
      <4>2. p = idx[q - D + 1] /\ (p < 0 \/ p >= D)
        BY <4>1, <1>8, <2>1, <2>2
      <4> QED
        BY <4>2, <1>4, <1>9, <1>1
    <3> QED
      BY <3>1, <3>2
  <2>3. p \in Int /\ p # kNoSymbol /\ p < t.available_key
    BY <1>4, <1>6, <1>9, <1>1 DEF kNoSymbol
  <2> QED
    BY <2>1, <2>2, <2>3
<1>10. CASE ~ (p < D)
  <2>1. p \in D..(L - 1) /\ GetNthKey(t, p) = idx[p - D + 1]
    BY <1>10, <1>3, <1>5
  <2>2. ASSUME NEW q \in Positions(t), GetNthKey(t, p) = GetNthKey(t, q) PROVE p = q
    <3>1. CASE q < D
      <4>1. GetNthKey(t, q) = q
        BY <3>1, <1>3
      <4>2. q = idx[p - D + 1] /\ (q < 0 \/ q >= D)
        BY <4>1, <1>8, <2>1, <2>2
      <4> QED
        BY <4>2, <3>1, <1>4, <1>1
    <3>2. CASE ~ (q < D)
      <4>1. q \in D..(L - 1) /\ GetNthKey(t, q) = idx[q - D + 1]
        BY <3>2, <1>3, <1>5
      <4> QED
        BY <4>1, <2>1, <2>2, <1>8
    <3> QED
      BY <3>1, <3>2
  <2> QED
    BY <2>1, <2>2, <1>7, <1>8
<1> QED
  BY <1>9, <1>10

\* The search for a key finds the symbol at its position.
LEMMA FindKeyFacts ==
  ASSUME NEW t, Sound(t)
  PROVE  /\ \A p \in Positions(t) : FindKey(t, GetNthKey(t, p)) = t.symbols[p + 1]
         /\ \A k \in Int : FindKey(t, k) # NoString => \E p \in Positions(t) : k = GetNthKey(t, p)
         /\ \A k \in Int : k \notin DOMAIN t.key_map /\ (k < 0 \/ k >= t.dense_key_limit)
                              => FindKey(t, k) = NoString
<1> DEFINE L == Len(t.symbols)
           D == t.dense_key_limit
           idx == t.idx_key
           map == t.key_map
<1>1. t \in Tables /\ L \in Nat /\ D \in Nat /\ D <= L /\ idx \in Seq(Int) /\ t.available_key \in Int
  BY Fields DEF Sound, KeysSound
<1>2. KeysSound(L, D, idx, map, t.available_key)
  BY DEF Sound
<1>3. \A q \in Positions(t) : GetNthKey(t, q) = IF q < D THEN q ELSE idx[q - D + 1]
  BY <1>1, NthKey
<1>4. \A q \in Positions(t) : q \in Int /\ 0 <= q /\ q < L
  BY <1>1 DEF Positions
<1>5. \A q : q \in Int /\ 0 <= q /\ q < L => q \in Positions(t)
  BY <1>1 DEF Positions
<1>6. ASSUME NEW k
      PROVE  LET i == IF ~ (k < 0 \/ k >= D) THEN k ELSE IF k \in DOMAIN map THEN map[k] ELSE -1
             IN  FindKey(t, k) = IF i < 0 \/ i >= L THEN NoString ELSE t.symbols[i + 1]
  BY DEF FindKey, NumSymbols
<1> HIDE DEF L, D, idx, map
<1>7. ASSUME NEW p \in Positions(t) PROVE FindKey(t, GetNthKey(t, p)) = t.symbols[p + 1]
  <2>1. CASE p < D
    <3>1. GetNthKey(t, p) = p /\ ~ (p < 0 \/ p >= D) /\ ~ (p < 0 \/ p >= L)
      BY <2>1, <1>3, <1>4, <1>1
    <3> QED
      BY <3>1, <1>6
  <2>2. CASE ~ (p < D)
    <3>1. p \in D..(L - 1) /\ GetNthKey(t, p) = idx[p - D + 1]
      BY <2>2, <1>3, <1>4, <1>1
    <3> DEFINE k == idx[p - D + 1]
    <3>2. k \in DOMAIN map /\ map[k] = p /\ (k < 0 \/ k >= D)
      BY <3>1, <1>2 DEF KeysSound
    <3>3. ~ (p < 0 \/ p >= L)
      BY <1>4, <1>1
    <3> HIDE DEF k
    <3> QED
      BY <3>1, <3>2, <3>3, <1>6 DEF k
  <2> QED
    BY <2>1, <2>2
<1>8. ASSUME NEW k \in Int, FindKey(t, k) # NoString PROVE \E p \in Positions(t) : k = GetNthKey(t, p)
  <2>1. CASE k < 0 \/ k >= D
    <3>1. k \in DOMAIN map
      BY <1>8, <2>1, <1>6
    <3>2. map[k] \in D..(L - 1) /\ idx[map[k] - D + 1] = k
      BY <3>1, <1>2 DEF KeysSound
    <3>3. map[k] \in Positions(t) /\ ~ (map[k] < D)
      BY <3>2, <1>5, <1>1
    <3> QED
      BY <3>2, <3>3, <1>3
  <2>2. CASE ~ (k < 0 \/ k >= D)
    <3>1. k \in Positions(t) /\ k < D
      BY <2>2, <1>5, <1>1
    <3> QED
      BY <3>1, <1>3
  <2> QED
    BY <2>1, <2>2
<1>9. ASSUME NEW k \in Int, k \notin DOMAIN map, k < 0 \/ k >= D PROVE FindKey(t, k) = NoString
  BY <1>9, <1>6
<1> QED
  BY <1>7, <1>8, <1>9 DEF map, D

\* The search for a symbol finds the key of its position.
LEMMA FindSymbolFacts ==
  ASSUME NEW t, Sound(t)
  PROVE  /\ \A p \in Positions(t) : FindSymbol(t, t.symbols[p + 1]) = GetNthKey(t, p)
         /\ \A s \in Symbols : FindSymbol(t, s) = kNoSymbol <=> s \notin Range(t.symbols)
<1> DEFINE L == Len(t.symbols)
           D == t.dense_key_limit
<1>1. t \in Tables /\ t.symbols \in Seq(Symbols) /\ L \in Nat /\ D \in Int
  BY Fields DEF Sound
<1>2. PICK n \in Nat : n >= 4 /\ 4 * (L - 1) < 3 * n /\ Holds(t.symbols, t.buckets, n, L)
  BY DEF Sound, BucketsSound
<1>3. L < n
  BY <1>2, <1>1
<1>4. ASSUME NEW p \in Positions(t) PROVE FindSymbol(t, t.symbols[p + 1]) = GetNthKey(t, p)
  <2>1. p \in 0..(L - 1)
    BY DEF Positions
  <2>2. Position(t, t.symbols[p + 1]) = p
    BY <2>1, <1>1, <1>2, <1>3, SlotFinds DEF Position, Sound
  <2>3. p # kNoSymbol
    BY <2>1, <1>1 DEF kNoSymbol
  <2> QED
    BY <2>2, <2>3, <1>1, NthKey DEF FindSymbol
<1>5. ASSUME NEW s \in Symbols, s \notin Range(t.symbols) PROVE FindSymbol(t, s) = kNoSymbol
  <2>1. \A j \in 0..(L - 1) : j + 1 \in DOMAIN t.symbols
    BY <1>1
  <2>2. \A j \in 0..(L - 1) : t.symbols[j + 1] # s
    BY <2>1, <1>5 DEF Range
  <2>3. Position(t, s) = kNoSymbol
    BY <2>2, <1>2, <1>3, SlotMisses DEF Position, kNoSymbol, kEmptyBucket
  <2> QED
    BY <2>3 DEF FindSymbol
<1>6. ASSUME NEW s \in Range(t.symbols) PROVE FindSymbol(t, s) # kNoSymbol
  <2>1. PICK i \in DOMAIN t.symbols : s = t.symbols[i]
    BY DEF Range
  <2>2. i - 1 \in Positions(t) /\ (i - 1) + 1 = i
    BY <2>1, <1>1 DEF Positions
  <2> QED
    BY <2>1, <2>2, <1>4, NthKeyFacts
<1> QED
  BY <1>4, <1>5, <1>6

-----------------------------------------------------------------------------
(* The list of a table.                                                    *)

Pairs == Symbols \X Int

\* No symbol and no key twice; a key is not kNoSymbol.
OneToOne(q) ==
    /\ q \in Seq(Pairs)
    /\ \A i, j \in DOMAIN q : q[i][1] = q[j][1] \/ q[i][2] = q[j][2] => i = j
    /\ \A i \in DOMAIN q : q[i][2] # kNoSymbol

\* A function on 1..n is a sequence.
LEMMA SeqByIndex ==
  ASSUME NEW S, NEW n \in Nat, NEW q, q = [i \in 1..n |-> q[i]], \A i \in 1..n : q[i] \in S
  PROVE  q \in Seq(S) /\ Len(q) = n
<1>1. q \in [1..n -> S]
  OBVIOUS
<1> QED
  BY <1>1

\* The list of a table has a pair for every position.
LEMMA ListShape ==
  ASSUME NEW t \in Tables
  PROVE  /\ DOMAIN List(t) = 1..Len(t.symbols) /\ Len(List(t)) = Len(t.symbols)
         /\ \A i \in 1..Len(t.symbols) : List(t)[i] = << t.symbols[i], GetNthKey(t, i - 1) >>
<1>1. t.symbols \in Seq(Symbols) /\ Len(t.symbols) \in Nat
  BY Fields
<1>2. DOMAIN t.symbols = 1..Len(t.symbols)
  BY <1>1
<1>3. DOMAIN List(t) = 1..Len(t.symbols)
  BY <1>2 DEF List
<1>4. Len(List(t)) = Len(t.symbols)
  BY <1>1, <1>2 DEF List
<1> QED
  BY <1>2, <1>3, <1>4 DEF List

\* The iterator shows the list of a sound table, in which nothing occurs twice.
LEMMA ListFacts ==
  ASSUME NEW t, Sound(t)
  PROVE  /\ OneToOne(List(t))
         /\ \A i \in DOMAIN List(t) : List(t)[i][2] < t.available_key
         /\ Entries(t) = List(t)
<1>1. t \in Tables /\ t.symbols \in Seq(Symbols) /\ Len(t.symbols) \in Nat
  BY Fields DEF Sound
<1>2. /\ DOMAIN List(t) = 1..Len(t.symbols) /\ Len(List(t)) = Len(t.symbols)
      /\ \A i \in 1..Len(t.symbols) : List(t)[i] = << t.symbols[i], GetNthKey(t, i - 1) >>
  BY <1>1, ListShape
<1>3. \A i \in 1..Len(t.symbols) : i - 1 \in Positions(t) /\ (i - 1) + 1 = i /\ t.symbols[i] \in Symbols
  BY <1>1 DEF Positions
<1>4. \A i \in 1..Len(t.symbols) : List(t)[i] \in Pairs
  <2>1. \A i \in 1..Len(t.symbols) : GetNthKey(t, i - 1) \in Int
    BY <1>3, NthKeyFacts
  <2>2. \A i \in 1..Len(t.symbols) : << t.symbols[i], GetNthKey(t, i - 1) >> \in Pairs
    BY <2>1, <1>3 DEF Pairs
  <2> QED
    BY <2>2, <1>2
<1>5. List(t) \in Seq(Pairs)
  <2>1. List(t) = [i \in 1..Len(t.symbols) |-> List(t)[i]]
    BY <1>2 DEF List
  <2> QED
    BY <2>1, <1>4, <1>1, SeqByIndex
<1>6. ASSUME NEW i \in DOMAIN List(t), NEW j \in DOMAIN List(t),
             List(t)[i][1] = List(t)[j][1] \/ List(t)[i][2] = List(t)[j][2]
      PROVE  i = j
  <2>1. i \in DOMAIN t.symbols /\ j \in DOMAIN t.symbols /\ i \in Int /\ j \in Int
    BY <1>1, <1>2
  <2>2. CASE List(t)[i][1] = List(t)[j][1]
    <3>1. t.symbols[i] = t.symbols[j]
      BY <2>2, <1>2
    <3> QED
      BY <3>1, <2>1 DEF Sound, Distinct
  <2>3. CASE List(t)[i][2] = List(t)[j][2]
    <3>1. GetNthKey(t, i - 1) = GetNthKey(t, j - 1)
      BY <2>3, <1>2
    <3>2. i - 1 = j - 1
      BY <3>1, <1>2, <1>3, NthKeyFacts
    <3> QED
      BY <3>2, <2>1
  <2> QED
    BY <1>6, <2>2, <2>3
<1>7. \A i \in DOMAIN List(t) : List(t)[i][2] # kNoSymbol /\ List(t)[i][2] < t.available_key
  BY <1>2, <1>3, NthKeyFacts
<1>8. Entries(t) = List(t)
  <2>1. DOMAIN t.symbols = 1..Len(t.symbols)
    BY <1>1
  <2>2. \A i \in 1..Len(t.symbols) : FindKey(t, GetNthKey(t, i - 1)) = t.symbols[i]
    BY <1>3, FindKeyFacts
  <2> QED
    BY <2>1, <2>2 DEF Entries, List
<1> QED
  BY <1>5, <1>6, <1>7, <1>8 DEF OneToOne

\* Looking up in terms of the list.
LEMMA LookUp ==
  ASSUME NEW t, Sound(t)
  PROVE  /\ \A i \in DOMAIN List(t) : /\ FindKey(t, List(t)[i][2]) = List(t)[i][1]
                                      /\ FindSymbol(t, List(t)[i][1]) = List(t)[i][2]
         /\ \A k \in Int : FindKey(t, k) # NoString => \E i \in DOMAIN List(t) : k = List(t)[i][2]
         /\ \A s \in Symbols : FindSymbol(t, s) = kNoSymbol <=> \A i \in DOMAIN List(t) : s # List(t)[i][1]
<1>1. t \in Tables /\ t.symbols \in Seq(Symbols) /\ Len(t.symbols) \in Nat
  BY Fields DEF Sound
<1>2. /\ DOMAIN List(t) = 1..Len(t.symbols)
      /\ \A i \in 1..Len(t.symbols) : List(t)[i] = << t.symbols[i], GetNthKey(t, i - 1) >>
  BY <1>1, ListShape
<1>3. \A i \in 1..Len(t.symbols) : i - 1 \in Positions(t) /\ (i - 1) + 1 = i
  BY <1>1 DEF Positions
<1>4. \A p \in Positions(t) : p + 1 \in 1..Len(t.symbols) /\ (p + 1) - 1 = p
  BY <1>1 DEF Positions
<1>5. \A i \in DOMAIN List(t) : /\ FindKey(t, List(t)[i][2]) = List(t)[i][1]
                                /\ FindSymbol(t, List(t)[i][1]) = List(t)[i][2]
  <2>1. \A i \in 1..Len(t.symbols) : /\ FindKey(t, GetNthKey(t, i - 1)) = t.symbols[i]
                                     /\ FindSymbol(t, t.symbols[i]) = GetNthKey(t, i - 1)
    BY <1>3, FindKeyFacts, FindSymbolFacts
  <2> QED
    BY <2>1, <1>2
<1>6. ASSUME NEW k \in Int, FindKey(t, k) # NoString PROVE \E i \in DOMAIN List(t) : k = List(t)[i][2]
  <2>1. PICK p \in Positions(t) : k = GetNthKey(t, p)
    BY <1>6, FindKeyFacts
  <2> QED
    BY <2>1, <1>2, <1>4
<1>7. ASSUME NEW s \in Symbols
      PROVE  s \notin Range(t.symbols) <=> \A i \in DOMAIN List(t) : s # List(t)[i][1]
  <2>1. DOMAIN t.symbols = 1..Len(t.symbols)
    BY <1>1
  <2> QED
    BY <2>1, <1>2 DEF Range
<1> QED
  BY <1>5, <1>6, <1>7, FindSymbolFacts

-----------------------------------------------------------------------------
(* Adding a symbol.                                                        *)

\* Growing changes the buckets only.
LEMMA GrownType ==
  ASSUME NEW t \in Tables
  PROVE  /\ Grown(t) \in Tables
         /\ Grown(t) = [t EXCEPT !.buckets = Grown(t).buckets]
<1>1. PICK n \in Nat : t.buckets \in [0..(n - 1) -> Int] /\ Cardinality(DOMAIN t.buckets) = n
  BY Fields
<1>2. t.symbols \in Seq(Symbols) /\ 2 * n \in Nat
  BY <1>1, Fields
<1>3. Rehash(t.symbols, 2 * n) \in BucketArrays
  BY <1>2, RehashType DEF BucketArrays
<1>4. Grown(t) = t \/ Grown(t) = [t EXCEPT !.buckets = Rehash(t.symbols, 2 * n)]
  BY <1>1 DEF Grown
<1>5. CASE Grown(t) = t
  BY <1>5 DEF Tables
<1>6. CASE Grown(t) = [t EXCEPT !.buckets = Rehash(t.symbols, 2 * n)]
  BY <1>6, <1>3 DEF Tables
<1> QED
  BY <1>4, <1>5, <1>6

\* After growing there is room for one more symbol.
LEMMA GrownRoom ==
  ASSUME NEW t, Sound(t)
  PROVE  \E n \in Nat : /\ n >= 4 /\ 4 * Len(t.symbols) < 3 * n
                        /\ Holds(t.symbols, Grown(t).buckets, n, Len(t.symbols))
<1> DEFINE L == Len(t.symbols)
<1>1. t \in Tables /\ t.symbols \in Seq(Symbols) /\ L \in Nat /\ Distinct(t.symbols)
  BY Fields DEF Sound
<1>2. PICK n \in Nat : n >= 4 /\ 4 * (L - 1) < 3 * n /\ Holds(t.symbols, t.buckets, n, L)
  BY DEF Sound, BucketsSound
<1>3. Cardinality(DOMAIN t.buckets) = n
  BY <1>2, SizeOfBuckets DEF Holds
<1>4. CASE 4 * L >= 3 * n
  <2>1. Grown(t).buckets = Rehash(t.symbols, 2 * n)
    BY <1>1, <1>3, <1>4 DEF Grown, Tables
  <2>2. 2 * n \in Nat /\ 2 * n >= 4 /\ L <= 2 * n /\ 4 * L < 3 * (2 * n)
    BY <1>1, <1>2
  <2>3. Holds(t.symbols, Rehash(t.symbols, 2 * n), 2 * n, L)
    BY <2>2, <1>1, RehashHolds
  <2> QED
    BY <2>1, <2>2, <2>3
<1>5. CASE ~ (4 * L >= 3 * n)
  <2>1. Grown(t) = t
    BY <1>3, <1>5 DEF Grown
  <2>2. 4 * L < 3 * n
    BY <1>1, <1>2, <1>5
  <2> QED
    BY <2>1, <2>2, <1>2
<1> QED
  BY <1>4, <1>5

\* DenseSymbolMap::InsertOrFind returns a table.
LEMMA InsertOrFindType ==
  ASSUME NEW t \in Tables, NEW s \in Symbols
  PROVE  InsertOrFind(t, s) \in Tables
<1> DEFINE g == Grown(t)
           x == Slot(g.symbols, g.buckets, s)
           u == [g EXCEPT !.symbols = Append(g.symbols, s), !.buckets = [g.buckets EXCEPT ![x] = Len(g.symbols)]]
<1>1. g \in Tables
  BY GrownType
<1>2. InsertOrFind(t, s) = g \/ InsertOrFind(t, s) = u
  BY DEF InsertOrFind
<1> HIDE DEF g, x
<1>3. PICK n \in Nat : g.buckets \in [0..(n - 1) -> Int]
  BY <1>1, Fields
<1>4. Append(g.symbols, s) \in Seq(Symbols) /\ Len(g.symbols) \in Int
  BY <1>1, Fields
<1>5. [g.buckets EXCEPT ![x] = Len(g.symbols)] \in [0..(n - 1) -> Int]
  BY <1>3, <1>4, ExceptType
<1>6. [g.buckets EXCEPT ![x] = Len(g.symbols)] \in BucketArrays
  BY <1>5 DEF BucketArrays
<1>7. u \in Tables
  <2> DEFINE b == [g.buckets EXCEPT ![x] = Len(g.symbols)]
             q == Append(g.symbols, s)
  <2>1. b \in BucketArrays /\ q \in Seq(Symbols)
    BY <1>4, <1>6
  <2> HIDE DEF b, q
  <2> QED
    BY <1>1, <2>1 DEF Tables, b, q
<1> QED
  BY <1>1, <1>2, <1>7

\* A known symbol is found; the table may have grown.
LEMMA InsertKnown ==
  ASSUME NEW t, Sound(t), NEW s \in Range(t.symbols)
  PROVE  InsertOrFind(t, s) = Grown(t) /\ Sound(Grown(t))
<1> DEFINE L == Len(t.symbols)
           b == Grown(t).buckets
<1>1. t \in Tables /\ t.symbols \in Seq(Symbols) /\ L \in Nat /\ Distinct(t.symbols)
  BY Fields DEF Sound
<1>2. Grown(t) \in Tables /\ Grown(t) = [t EXCEPT !.buckets = b]
  BY <1>1, GrownType
<1>3. PICK n \in Nat : n >= 4 /\ 4 * L < 3 * n /\ Holds(t.symbols, b, n, L)
  BY GrownRoom
<1>4. PICK i \in DOMAIN t.symbols : s = t.symbols[i]
  BY DEF Range
<1>5. i - 1 \in 0..(L - 1) /\ (i - 1) + 1 = i /\ L < n
  BY <1>1, <1>3
<1>6. b[Slot(t.symbols, b, s)] = i - 1
  BY <1>1, <1>3, <1>4, <1>5, SlotFinds
<1>7. i - 1 # kEmptyBucket
  BY <1>5, <1>1 DEF kEmptyBucket
<1>8. Grown(t).symbols = t.symbols
  BY <1>1, <1>2 DEF Tables
<1>9. InsertOrFind(t, s) = Grown(t)
  BY <1>6, <1>7, <1>8 DEF InsertOrFind
<1>10. BucketsSound(t.symbols, b)
  <2>1. 4 * (L - 1) < 3 * n
    BY <1>1, <1>3
  <2> QED
    BY <2>1, <1>3 DEF BucketsSound
<1> HIDE DEF b
<1>11. Sound([t EXCEPT !.buckets = b])
  <2>1. [t EXCEPT !.buckets = b] \in Tables
    BY <1>2
  <2> QED
    BY <1>1, <1>10, <2>1 DEF Sound, SumsSound, Tables
<1> QED
  BY <1>2, <1>9, <1>11

\* A new symbol is put at the end.
LEMMA InsertNew ==
  ASSUME NEW t, Sound(t), NEW s \in Symbols, s \notin Range(t.symbols)
  PROVE  LET u == InsertOrFind(t, s)
         IN  /\ u \in Tables
             /\ u = [t EXCEPT !.symbols = Append(t.symbols, s), !.buckets = u.buckets]
             /\ Distinct(Append(t.symbols, s))
             /\ BucketsSound(Append(t.symbols, s), u.buckets)
<1> DEFINE L == Len(t.symbols)
           b == Grown(t).buckets
           x == Slot(t.symbols, b, s)
           c == [b EXCEPT ![x] = L]
           q == Append(t.symbols, s)
<1>1. t \in Tables /\ t.symbols \in Seq(Symbols) /\ L \in Nat /\ Distinct(t.symbols)
  BY Fields DEF Sound
<1>2. Grown(t) \in Tables /\ Grown(t) = [t EXCEPT !.buckets = b]
  BY <1>1, GrownType
<1>3. PICK n \in Nat : n >= 4 /\ 4 * L < 3 * n /\ Holds(t.symbols, b, n, L)
  BY GrownRoom
<1>4. L < n /\ \A j \in 0..(L - 1) : j + 1 \in DOMAIN t.symbols
  BY <1>1, <1>3
<1>5. \A j \in 0..(L - 1) : t.symbols[j + 1] # s /\ t.symbols[j + 1] \in Symbols
  BY <1>1, <1>4 DEF Range
<1>6. b[x] = kEmptyBucket
  BY <1>3, <1>4, <1>5, SlotMisses
<1>7. Grown(t).symbols = t.symbols
  BY <1>1, <1>2 DEF Tables
<1>8. InsertOrFind(t, s) = [Grown(t) EXCEPT !.symbols = q, !.buckets = c]
  BY <1>6, <1>7 DEF InsertOrFind
<1>9. q \in Seq(Symbols) /\ Len(q) = L + 1 /\ q[L + 1] = s /\ \A j \in 0..(L - 1) : q[j + 1] = t.symbols[j + 1]
  BY <1>1, <1>4
<1>10. Holds(q, c, n, L + 1)
  <2> HIDE DEF b, q
  <2>1. Len(q) >= L + 1
    BY <1>9, <1>1
  <2> QED
    BY <1>3, <1>4, <1>5, <1>9, <2>1, BucketAdded
<1>11. Distinct(q)
  <2> SUFFICES ASSUME NEW i \in DOMAIN q, NEW j \in DOMAIN q, q[i] = q[j] PROVE i = j
    BY DEF Distinct
  <2>1. \A h \in DOMAIN q : h \in DOMAIN t.symbols \/ h = L + 1
    BY <1>1, <1>9
  <2>2. \A h \in DOMAIN t.symbols : q[h] = t.symbols[h] /\ q[h] # s
    BY <1>1 DEF Range
  <2>3. \A h \in DOMAIN t.symbols : q[h] # q[L + 1]
    BY <2>2, <1>9
  <2> QED
    BY <2>1, <2>2, <2>3, <1>1 DEF Distinct
<1> HIDE DEF q, c
<1>12. BucketsSound(q, c)
  <2>1. 4 * (Len(q) - 1) < 3 * n
    BY <1>9, <1>1, <1>3
  <2> QED
    BY <2>1, <1>3, <1>9, <1>10 DEF BucketsSound
<1>13. InsertOrFind(t, s) = [t EXCEPT !.symbols = q, !.buckets = c]
  BY <1>8, <1>2, <1>1 DEF Tables
<1>14. InsertOrFind(t, s).buckets = c
  BY <1>13, <1>1 DEF Tables
<1> QED
  BY <1>1, <1>11, <1>12, <1>13, <1>14, InsertOrFindType DEF q

\* key_map_ with one key more.
LEMMA MapAdded ==
  ASSUME NEW map \in KeyMaps, NEW k \in Int, NEW p \in Int
  PROVE  /\ With(map, k, p) \in KeyMaps
         /\ DOMAIN With(map, k, p) = DOMAIN map \cup {k}
         /\ With(map, k, p)[k] = p
         /\ \A j \in DOMAIN map : j # k => With(map, k, p)[j] = map[j]
<1>1. PICK S \in SUBSET Int : map \in [S -> Int]
  BY DEF KeyMaps
<1> DEFINE m == With(map, k, p)
<1>2. m = [x \in {k} \cup S |-> IF x = k THEN p ELSE map[x]]
  BY <1>1 DEF With
<1> HIDE DEF m
<1>3. m \in [{k} \cup S -> Int] /\ {k} \cup S \in SUBSET Int
  BY <1>1, <1>2
<1>4. m \in KeyMaps
  BY <1>3 DEF KeyMaps
<1> QED
  BY <1>1, <1>2, <1>4 DEF m

\* One key more: what With makes of a key_map.
OneMore(m, map, k, p) == /\ DOMAIN m = DOMAIN map \cup {k} /\ m[k] = p
                         /\ \A j \in DOMAIN map : j # k => m[j] = map[j]

LEMMA MapExtended ==
  ASSUME NEW map \in KeyMaps, NEW k \in Int, NEW p \in Int
  PROVE  OneMore(With(map, k, p), map, k, p)
BY MapAdded DEF OneMore

\* Marking the sums as out of date changes nothing else.
LEMMA InvalidateType ==
  ASSUME NEW t \in Tables
  PROVE  /\ Invalidate(t) \in Tables
         /\ Invalidate(t) = [t EXCEPT !.check_sum = FALSE, !.labeled_check_sum = FALSE,
                                      !.check_sum_finalized = FALSE, !.removed = FALSE]
BY DEF Invalidate, Outdated, Tables

\* The table with the new symbol, as AddSymbol places its key.
Placed(u, k) ==
    LET dense == k + 1 = NumSymbols(u) /\ k = u.dense_key_limit
        placed == IF dense THEN [u EXCEPT !.dense_key_limit = @ + 1]
                  ELSE [u EXCEPT !.idx_key = Append(@, k), !.key_map = With(@, k, NumSymbols(u) - 1)]
    IN  Invalidate([placed EXCEPT !.available_key = IF k >= @ THEN k + 1 ELSE @])

\* Which members AddSymbol changes for a new symbol.
LEMMA PlacedFacts ==
  ASSUME NEW u \in Tables, NEW k \in Int
  PROVE  LET dense == k + 1 = Len(u.symbols) /\ k = u.dense_key_limit
             w == Placed(u, k)
         IN  /\ w \in Tables
             /\ w.symbols = u.symbols /\ w.buckets = u.buckets /\ w.mutex = u.mutex
             /\ w.dense_key_limit = IF dense THEN u.dense_key_limit + 1 ELSE u.dense_key_limit
             /\ w.idx_key = IF dense THEN u.idx_key ELSE Append(u.idx_key, k)
             /\ w.key_map = IF dense THEN u.key_map ELSE With(u.key_map, k, Len(u.symbols) - 1)
             /\ w.available_key = IF k >= u.available_key THEN k + 1 ELSE u.available_key
             /\ w.check_sum_finalized = FALSE
<1> DEFINE dense == k + 1 = Len(u.symbols) /\ k = u.dense_key_limit
           D == IF dense THEN u.dense_key_limit + 1 ELSE u.dense_key_limit
           idx == IF dense THEN u.idx_key ELSE Append(u.idx_key, k)
           map == IF dense THEN u.key_map ELSE With(u.key_map, k, Len(u.symbols) - 1)
           ak == IF k >= u.available_key THEN k + 1 ELSE u.available_key
           v == [u EXCEPT !.dense_key_limit = D, !.idx_key = idx, !.key_map = map, !.available_key = ak]
<1>1. /\ Len(u.symbols) \in Nat /\ u.dense_key_limit \in Int /\ u.available_key \in Int
      /\ u.idx_key \in Seq(Int) /\ u.key_map \in KeyMaps
  BY DEF Tables
<1>2. D \in Int /\ idx \in Seq(Int) /\ ak \in Int
  BY <1>1
<1>3. map \in KeyMaps
  <2>1. Len(u.symbols) - 1 \in Int
    BY <1>1
  <2> QED
    BY <1>1, <2>1, MapAdded
<1>4. Placed(u, k) = Invalidate(v)
  <2>1. CASE dense
    <3>1. v = [[u EXCEPT !.dense_key_limit = u.dense_key_limit + 1] EXCEPT !.available_key = ak]
      BY <2>1 DEF Tables
    <3>2. [u EXCEPT !.dense_key_limit = u.dense_key_limit + 1].available_key = u.available_key
      BY DEF Tables
    <3> QED
      BY <2>1, <3>1, <3>2 DEF Placed, NumSymbols
  <2>2. CASE ~ dense
    <3>1. v = [[u EXCEPT !.idx_key = Append(u.idx_key, k),
                         !.key_map = With(u.key_map, k, Len(u.symbols) - 1)] EXCEPT !.available_key = ak]
      BY <2>2 DEF Tables
    <3>2. [u EXCEPT !.idx_key = Append(u.idx_key, k),
                    !.key_map = With(u.key_map, k, Len(u.symbols) - 1)].available_key = u.available_key
      BY DEF Tables
    <3> QED
      BY <2>2, <3>1, <3>2 DEF Placed, NumSymbols
  <2> QED
    BY <2>1, <2>2
<1> HIDE DEF D, idx, map, ak
<1>5. v \in Tables
  BY <1>2, <1>3 DEF Tables
<1>6. Placed(u, k) \in Tables
  BY <1>4, <1>5, InvalidateType
<1>7. Placed(u, k) = [v EXCEPT !.check_sum = FALSE, !.labeled_check_sum = FALSE,
                               !.check_sum_finalized = FALSE, !.removed = FALSE]
  BY <1>4, <1>5, InvalidateType
<1>8. LET w == Placed(u, k)
      IN  /\ w.symbols = u.symbols /\ w.buckets = u.buckets /\ w.mutex = u.mutex
          /\ w.dense_key_limit = D /\ w.idx_key = idx /\ w.key_map = map
          /\ w.available_key = ak /\ w.check_sum_finalized = FALSE
  BY <1>7 DEF Tables
<1> QED
  BY <1>6, <1>8 DEF D, idx, map, ak

\* AddSymbol: no key, a known symbol, a new one.
LEMMA AddSymbolCases ==
  ASSUME NEW t, NEW s, NEW k
  PROVE  AddSymbol(t, s, k) = IF k = kNoSymbol THEN t
                              ELSE IF Len(InsertOrFind(t, s).symbols) = Len(t.symbols)
                              THEN InsertOrFind(t, s) ELSE Placed(InsertOrFind(t, s), k)
BY DEF AddSymbol, Placed, NumSymbols

\* AddSymbol returns a table.
LEMMA AddSymbolType ==
  ASSUME NEW t \in Tables, NEW s \in Symbols, NEW k \in Int
  PROVE  AddSymbol(t, s, k) \in Tables
<1>1. InsertOrFind(t, s) \in Tables
  BY InsertOrFindType
<1>2. Placed(InsertOrFind(t, s), k) \in Tables
  BY <1>1, PlacedFacts
<1> QED
  BY <1>1, <1>2, AddSymbolCases

\* What AddSymbol does to idx_key and key_map.
LEMMA KeysAdded ==
  ASSUME NEW L \in Nat, NEW D \in Nat, NEW idx \in Seq(Int), NEW map \in KeyMaps, NEW available \in Int,
         KeysSound(L, D, idx, map, available),
         NEW k \in Int, k # kNoSymbol, k \notin DOMAIN map, k < 0 \/ k >= D
  PROVE  LET dense == k = L /\ k = D
         IN  KeysSound(L + 1, IF dense THEN D + 1 ELSE D,
                       IF dense THEN idx ELSE Append(idx, k),
                       IF dense THEN map ELSE With(map, k, L),
                       IF k >= available THEN k + 1 ELSE available)
<1> DEFINE ak == IF k >= available THEN k + 1 ELSE available
<1>1. ak \in Int /\ ak >= available /\ k < ak
  OBVIOUS
<1>2. /\ D <= L /\ Len(idx) = L - D /\ available >= D
      /\ \A p \in D..(L - 1) : /\ idx[p - D + 1] \in DOMAIN map /\ map[idx[p - D + 1]] = p
                               /\ idx[p - D + 1] < 0 \/ idx[p - D + 1] >= D
                               /\ idx[p - D + 1] # kNoSymbol /\ idx[p - D + 1] < available
      /\ \A j \in DOMAIN map : map[j] \in D..(L - 1) /\ idx[map[j] - D + 1] = j
  BY DEF KeysSound
<1>3. CASE k = L /\ k = D
  <2>1. \A p \in (D + 1)..((L + 1) - 1) : FALSE
    BY <1>3
  <2>2. \A j \in DOMAIN map : FALSE
    BY <1>2, <1>3
  <2>3. D + 1 \in Nat /\ D + 1 <= L + 1 /\ Len(idx) = (L + 1) - (D + 1)
    BY <1>2, <1>3
  <2>4. ak >= D + 1
    BY <1>1, <1>3
  <2>5. KeysSound(L + 1, D + 1, idx, map, ak)
    BY <2>1, <2>2, <2>3, <2>4 DEF KeysSound
  <2> QED
    BY <1>3, <2>5
<1>4. CASE ~ (k = L /\ k = D)
  <2> DEFINE jdx == Append(idx, k)
             m == With(map, k, L)
  <2>1. /\ DOMAIN m = DOMAIN map \cup {k} /\ m[k] = L
        /\ \A j \in DOMAIN map : m[j] = map[j]
    <3>1. L \in Int
      OBVIOUS
    <3>2. OneMore(m, map, k, L)
      BY <3>1, MapExtended
    <3>3. \A j \in DOMAIN map : j # k
      OBVIOUS
    <3> HIDE DEF m
    <3> QED
      BY <3>2, <3>3 DEF OneMore
  <2>2. Len(jdx) = (L + 1) - D /\ jdx[L - D + 1] = k
    BY <1>2
  <2>3. \A p \in D..(L - 1) : jdx[p - D + 1] = idx[p - D + 1] /\ idx[p - D + 1] \in Int
    <3>1. \A p \in D..(L - 1) : p - D + 1 \in 1..Len(idx)
      BY <1>2
    <3> QED
      BY <3>1
  <2> HIDE DEF jdx, m, ak
  <2>4. \A p \in D..((L + 1) - 1) : p \in D..(L - 1) \/ p = L
    OBVIOUS
  <2>5. ASSUME NEW p \in D..((L + 1) - 1)
        PROVE  /\ jdx[p - D + 1] \in DOMAIN m /\ m[jdx[p - D + 1]] = p
               /\ jdx[p - D + 1] < 0 \/ jdx[p - D + 1] >= D
               /\ jdx[p - D + 1] # kNoSymbol /\ jdx[p - D + 1] < ak
    <3>1. CASE p \in D..(L - 1)
      <4>1. /\ idx[p - D + 1] \in DOMAIN map /\ map[idx[p - D + 1]] = p
            /\ idx[p - D + 1] < 0 \/ idx[p - D + 1] >= D
            /\ idx[p - D + 1] # kNoSymbol /\ idx[p - D + 1] < available
        BY <1>2, <3>1
      <4>2. jdx[p - D + 1] = idx[p - D + 1] /\ idx[p - D + 1] \in Int
        BY <2>3, <3>1
      <4>3. idx[p - D + 1] < ak
        BY <4>1, <4>2, <1>1
      <4> QED
        BY <4>1, <4>2, <4>3, <2>1
    <3>2. CASE p = L
      BY <3>2, <2>1, <2>2, <1>1
    <3> QED
      BY <3>1, <3>2, <2>4
  <2>6. ASSUME NEW j \in DOMAIN m PROVE m[j] \in D..((L + 1) - 1) /\ jdx[m[j] - D + 1] = j
    <3>1. CASE j = k
      BY <3>1, <2>1, <2>2, <1>2
    <3>2. CASE j \in DOMAIN map
      <4>1. m[j] = map[j] /\ map[j] \in D..(L - 1) /\ idx[map[j] - D + 1] = j
        BY <3>2, <2>1, <1>2
      <4>2. jdx[map[j] - D + 1] = idx[map[j] - D + 1]
        BY <4>1, <2>3
      <4>3. map[j] \in D..((L + 1) - 1)
        BY <4>1
      <4> QED
        BY <4>1, <4>2, <4>3
    <3> QED
      BY <3>1, <3>2, <2>1
  <2>7. D <= L + 1 /\ ak >= D
    BY <1>1, <1>2
  <2>8. KeysSound(L + 1, D, jdx, m, ak)
    BY <2>2, <2>5, <2>6, <2>7 DEF KeysSound
  <2> QED
    BY <1>4, <2>8 DEF jdx, m, ak
<1> QED
  BY <1>3, <1>4

\* Append keeps what is there.
LEMMA AppendKeeps ==
  ASSUME NEW S, NEW q \in Seq(S), NEW x \in S, NEW i \in 1..Len(q)
  PROVE  Append(q, x)[i] = q[i]
OBVIOUS

\* Sequences with the same elements are the same.
LEMMA SameSeq ==
  ASSUME NEW S, NEW p \in Seq(S), NEW q \in Seq(S), Len(p) = Len(q), \A i \in 1..Len(p) : p[i] = q[i]
  PROVE  p = q
OBVIOUS

\* A known symbol: nothing changes but the buckets.
LEMMA AddKnown ==
  ASSUME NEW t, Sound(t), NEW s \in Range(t.symbols), NEW k \in Int
  PROVE  LET u == AddSymbol(t, s, k)
         IN  Sound(u) /\ List(u) = List(t) /\ u.available_key = t.available_key /\ u.mutex = t.mutex
<1>1. t \in Tables
  BY DEF Sound
<1>2. InsertOrFind(t, s) = Grown(t) /\ Sound(Grown(t))
  BY InsertKnown
<1> DEFINE b == Grown(t).buckets
<1>3. Grown(t) = [t EXCEPT !.buckets = b]
  BY <1>1, GrownType
<1> HIDE DEF b
<1>4. AddSymbol(t, s, k) = t \/ AddSymbol(t, s, k) = Grown(t)
  <2>1. Grown(t).symbols = t.symbols
    BY <1>1, <1>3 DEF Tables
  <2> QED
    BY <2>1, <1>2, AddSymbolCases
<1>5. LET u == [t EXCEPT !.buckets = b]
      IN  List(u) = List(t) /\ u.available_key = t.available_key /\ u.mutex = t.mutex
  BY <1>1 DEF Tables, List, GetNthKey, NumSymbols
<1>6. CASE AddSymbol(t, s, k) = t
  BY <1>6
<1>7. CASE AddSymbol(t, s, k) = Grown(t)
  BY <1>7, <1>2, <1>3, <1>5
<1> QED
  BY <1>4, <1>6, <1>7

\* A key that no position has is in neither of the two ranges.
LEMMA FreeKey ==
  ASSUME NEW t, Sound(t), NEW k \in Int, \A i \in DOMAIN List(t) : List(t)[i][2] # k
  PROVE  k \notin DOMAIN t.key_map /\ (k < 0 \/ k >= t.dense_key_limit)
<1> DEFINE L == Len(t.symbols)
           D == t.dense_key_limit
<1>1. t \in Tables /\ L \in Nat /\ D \in Nat /\ D <= L
  BY Fields DEF Sound, KeysSound
<1>2. \A p \in Positions(t) : GetNthKey(t, p) # k
  <2>1. \A p \in Positions(t) : p + 1 \in 1..L /\ (p + 1) - 1 = p
    BY <1>1 DEF Positions
  <2> QED
    BY <2>1, <1>1, ListShape
<1>3. \A p \in Positions(t) : GetNthKey(t, p) = IF p < D THEN p ELSE t.idx_key[p - D + 1]
  BY <1>1, NthKey
<1>4. k \notin DOMAIN t.key_map
  <2> SUFFICES ASSUME k \in DOMAIN t.key_map PROVE FALSE
    OBVIOUS
  <2>1. t.key_map[k] \in D..(L - 1) /\ t.idx_key[t.key_map[k] - D + 1] = k
    BY DEF Sound, KeysSound
  <2>2. t.key_map[k] \in Positions(t) /\ ~ (t.key_map[k] < D)
    BY <2>1, <1>1 DEF Positions
  <2> QED
    BY <2>1, <2>2, <1>2, <1>3
<1>5. ~ (0 <= k /\ k < D)
  <2> SUFFICES ASSUME 0 <= k, k < D PROVE FALSE
    OBVIOUS
  <2>1. k \in Positions(t)
    BY <1>1 DEF Positions
  <2> QED
    BY <2>1, <1>2, <1>3
<1> QED
  BY <1>4, <1>5, <1>1

\* A new symbol with a free key comes to the end of the list.
LEMMA AddFresh ==
  ASSUME NEW t, Sound(t), NEW s \in Symbols, s \notin Range(t.symbols),
         NEW k \in Int, k # kNoSymbol, \A i \in DOMAIN List(t) : List(t)[i][2] # k
  PROVE  LET u == AddSymbol(t, s, k)
         IN  /\ Sound(u) /\ List(u) = Append(List(t), << s, k >>) /\ u.mutex = t.mutex
             /\ u.available_key = IF k >= t.available_key THEN k + 1 ELSE t.available_key
<1> DEFINE L == Len(t.symbols)
           D == t.dense_key_limit
           v == InsertOrFind(t, s)
           q == Append(t.symbols, s)
           w == AddSymbol(t, s, k)
           dense == k = L /\ k = D
<1>1. /\ t \in Tables /\ t.symbols \in Seq(Symbols) /\ L \in Nat /\ D \in Nat /\ D <= L
      /\ t.idx_key \in Seq(Int) /\ t.available_key \in Int /\ t.key_map \in KeyMaps
      /\ Len(t.idx_key) = L - D
  BY DEF Sound, KeysSound, Tables
<1>2. v \in Tables /\ v = [t EXCEPT !.symbols = q, !.buckets = v.buckets]
      /\ Distinct(q) /\ BucketsSound(q, v.buckets)
  BY InsertNew
<1>3. q \in Seq(Symbols) /\ Len(q) = L + 1 /\ q[L + 1] = s /\ \A i \in 1..L : q[i] = t.symbols[i]
  BY <1>1
<1> DEFINE c == v.buckets
<1>4. v = [t EXCEPT !.symbols = q, !.buckets = c]
  BY <1>2
<1> HIDE DEF q, c
<1>5. /\ v.symbols = q /\ v.buckets = c /\ v.dense_key_limit = D /\ v.idx_key = t.idx_key
      /\ v.key_map = t.key_map /\ v.available_key = t.available_key /\ v.mutex = t.mutex
  BY <1>1, <1>4 DEF Tables
<1>6. w = Placed(v, k)
  <2>1. Len(v.symbols) # L
    BY <1>3, <1>5, <1>1
  <2> QED
    BY <2>1, AddSymbolCases
<1> HIDE DEF v
<1>7. (k + 1 = Len(v.symbols) /\ k = v.dense_key_limit) <=> dense
  BY <1>5, <1>3, <1>1
<1>8. Len(v.symbols) - 1 = L
  BY <1>5, <1>3, <1>1
<1> DEFINE E == IF dense THEN D + 1 ELSE D
           idx == IF dense THEN t.idx_key ELSE Append(t.idx_key, k)
           map == IF dense THEN t.key_map ELSE With(t.key_map, k, L)
           ak == IF k >= t.available_key THEN k + 1 ELSE t.available_key
<1>9. LET x == Placed(v, k)
      IN  /\ x \in Tables
          /\ x.symbols = q /\ x.buckets = c /\ x.mutex = t.mutex
          /\ x.dense_key_limit = E /\ x.idx_key = idx /\ x.key_map = map
          /\ x.available_key = ak /\ x.check_sum_finalized = FALSE
  <2>1. LET x == Placed(v, k)
        IN  /\ x \in Tables
            /\ x.symbols = v.symbols /\ x.buckets = v.buckets /\ x.mutex = v.mutex
            /\ x.dense_key_limit = IF dense THEN v.dense_key_limit + 1 ELSE v.dense_key_limit
            /\ x.idx_key = IF dense THEN v.idx_key ELSE Append(v.idx_key, k)
            /\ x.key_map = IF dense THEN v.key_map ELSE With(v.key_map, k, Len(v.symbols) - 1)
            /\ x.available_key = IF k >= v.available_key THEN k + 1 ELSE v.available_key
            /\ x.check_sum_finalized = FALSE
    <3> HIDE DEF dense
    <3> QED
      BY <1>2, <1>7, PlacedFacts
  <2> HIDE DEF dense
  <2> QED
    BY <2>1, <1>5, <1>8
<1> HIDE DEF w
<1>10. /\ w \in Tables
       /\ w.symbols = q /\ w.buckets = c /\ w.mutex = t.mutex
       /\ w.dense_key_limit = E /\ w.idx_key = idx /\ w.key_map = map
       /\ w.available_key = ak /\ w.check_sum_finalized = FALSE
  BY <1>6, <1>9
<1>11. KeysSound(L + 1, E, idx, map, ak)
  <2>1. k \notin DOMAIN t.key_map /\ (k < 0 \/ k >= D)
    BY FreeKey
  <2>2. KeysSound(L, D, t.idx_key, t.key_map, t.available_key)
    BY DEF Sound
  <2> QED
    BY <1>1, <2>1, <2>2, KeysAdded
<1>12. Sound(w)
  <2> HIDE DEF E, idx, map, ak
  <2> QED
    BY <1>2, <1>3, <1>10, <1>11 DEF Sound, SumsSound, c
<1>13. \A i \in 1..(L + 1) : i - 1 \in Positions(w) /\ (i # L + 1 => i - 1 \in Positions(t) /\ i \in 1..L)
  BY <1>1, <1>3, <1>10 DEF Positions
<1>14. ASSUME NEW i \in 1..L PROVE GetNthKey(w, i - 1) = GetNthKey(t, i - 1)
  <2>0. i \in 1..(L + 1) /\ i # L + 1
    BY <1>1
  <2>1. i - 1 \in Positions(w) /\ i - 1 \in Positions(t)
    BY <2>0, <1>13
  <2>2. GetNthKey(w, i - 1) = IF i - 1 < E THEN i - 1 ELSE idx[(i - 1) - E + 1]
    BY <2>1, <1>10, NthKey
  <2>3. GetNthKey(t, i - 1) = IF i - 1 < D THEN i - 1 ELSE t.idx_key[(i - 1) - D + 1]
    BY <2>1, <1>1, NthKey
  <2>4. CASE dense
    <3>1. i - 1 < D /\ i - 1 < E
      BY <2>4, <1>1
    <3> QED
      BY <3>1, <2>2, <2>3
  <2>5. CASE ~ dense
    <3>1. E = D /\ idx = Append(t.idx_key, k)
      BY <2>5
    <3>2. CASE i - 1 < D
      BY <3>1, <3>2, <2>2, <2>3
    <3>3. CASE ~ (i - 1 < D)
      <4>1. (i - 1) - D + 1 \in 1..Len(t.idx_key)
        BY <3>3, <1>1
      <4>2. Append(t.idx_key, k)[(i - 1) - D + 1] = t.idx_key[(i - 1) - D + 1]
        BY <4>1, <1>1, AppendKeeps
      <4> HIDE DEF idx, E
      <4> QED
        BY <4>2, <3>1, <3>3, <2>2, <2>3
    <3> QED
      BY <3>2, <3>3
  <2> QED
    BY <2>4, <2>5
<1>15. GetNthKey(w, L) = k
  <2>1. L + 1 \in 1..(L + 1) /\ (L + 1) - 1 = L
    BY <1>1
  <2>2. L \in Positions(w)
    BY <2>1, <1>13
  <2>3. GetNthKey(w, L) = IF L < E THEN L ELSE idx[L - E + 1]
    BY <2>2, <1>10, NthKey
  <2>4. CASE dense
    BY <2>4, <2>3, <1>1
  <2>5. CASE ~ dense
    <3>1. idx[L - D + 1] = k
      BY <2>5, <1>1
    <3> QED
      BY <3>1, <2>3, <2>5, <1>1
  <2> QED
    BY <2>4, <2>5
<1>16. List(w) \in Seq(Pairs) /\ Len(List(w)) = L + 1
       /\ \A i \in 1..(L + 1) : List(w)[i] = << q[i], GetNthKey(w, i - 1) >>
  BY <1>12, <1>10, <1>3, ListFacts, ListShape DEF OneToOne
<1>17. List(t) \in Seq(Pairs) /\ Len(List(t)) = L
       /\ \A i \in 1..L : List(t)[i] = << t.symbols[i], GetNthKey(t, i - 1) >>
  BY <1>1, ListFacts, ListShape DEF OneToOne
<1> DEFINE r == Append(List(t), << s, k >>)
<1>18. << s, k >> \in Pairs
  BY DEF Pairs
<1>19. r \in Seq(Pairs) /\ Len(r) = L + 1 /\ r[L + 1] = << s, k >> /\ \A i \in 1..L : r[i] = List(t)[i]
  <2> HIDE DEF Pairs
  <2> QED
    BY <1>17, <1>18, <1>1
<1> HIDE DEF r
<1>20. ASSUME NEW i \in 1..(L + 1) PROVE List(w)[i] = r[i]
  <2>1. CASE i = L + 1
    <3>1. i - 1 = L
      BY <2>1, <1>1
    <3> QED
      BY <3>1, <2>1, <1>3, <1>15, <1>16, <1>19
  <2>2. CASE i # L + 1
    <3>1. i \in 1..L
      BY <2>2, <1>1
    <3>2. List(w)[i] = << q[i], GetNthKey(w, i - 1) >>
      BY <1>16
    <3>3. q[i] = t.symbols[i] /\ GetNthKey(w, i - 1) = GetNthKey(t, i - 1)
      BY <3>1, <1>3, <1>14
    <3>4. List(t)[i] = << t.symbols[i], GetNthKey(t, i - 1) >>
      BY <3>1, <1>17
    <3>5. r[i] = List(t)[i]
      BY <3>1, <1>19
    <3> QED
      BY <3>2, <3>3, <3>4, <3>5
  <2> QED
    BY <2>1, <2>2
<1>21. List(w) = r
  BY <1>16, <1>19, <1>20, SameSeq
<1> QED
  BY <1>10, <1>12, <1>21 DEF w, r

-----------------------------------------------------------------------------
(* Removing a symbol.                                                      *)

\* What a concatenation holds.
LEMMA Joining ==
  ASSUME NEW S, NEW a \in Seq(S), NEW c \in Seq(S)
  PROVE  /\ a \o c \in Seq(S) /\ Len(a \o c) = Len(a) + Len(c)
         /\ \A j \in 1..Len(a) : (a \o c)[j] = a[j]
         /\ \A j \in (Len(a) + 1)..(Len(a) + Len(c)) : (a \o c)[j] = c[j - Len(a)]
<1>1. a \o c \in Seq(S)
  OBVIOUS
<1>2. Len(a \o c) = Len(a) + Len(c)
  OBVIOUS
<1> QED
  BY <1>1, <1>2

\* What is left of a sequence without its i-th element.
LEMMA RemoveAtFacts ==
  ASSUME NEW S, NEW q \in Seq(S), NEW i \in 1..Len(q)
  PROVE  /\ RemoveAt(q, i) \in Seq(S) /\ Len(RemoveAt(q, i)) = Len(q) - 1
         /\ \A j \in 1..(Len(q) - 1) : RemoveAt(q, i)[j] = IF j < i THEN q[j] ELSE q[j + 1]
<1> DEFINE a == SubSeq(q, 1, i - 1)
           c == SubSeq(q, i + 1, Len(q))
<1>1. Len(q) \in Nat /\ i \in Int /\ 1 <= i /\ i <= Len(q)
  OBVIOUS
<1>2. a \in Seq(S) /\ Len(a) = i - 1 /\ \A j \in 1..(i - 1) : a[j] = q[j]
  BY <1>1
<1>3. c \in Seq(S) /\ Len(c) = Len(q) - i /\ \A j \in 1..(Len(q) - i) : c[j] = q[j + i]
  BY <1>1
<1>4. RemoveAt(q, i) = a \o c
  BY DEF RemoveAt
<1> HIDE DEF a, c
<1>5. a \o c \in Seq(S) /\ Len(a \o c) = Len(q) - 1
  <2>1. a \o c \in Seq(S) /\ Len(a \o c) = Len(a) + Len(c)
    BY <1>2, <1>3, Joining
  <2> QED
    BY <2>1, <1>1, <1>2, <1>3
<1>6. ASSUME NEW j \in 1..(Len(q) - 1) PROVE (a \o c)[j] = IF j < i THEN q[j] ELSE q[j + 1]
  <2>1. CASE j < i
    <3>1. j \in 1..(i - 1) /\ (a \o c)[j] = a[j]
      BY <2>1, <1>1, <1>2, <1>3
    <3> QED
      BY <3>1, <2>1, <1>2
  <2>2. CASE ~ (j < i)
    <3>1. (a \o c)[j] = c[j - (i - 1)]
      BY <2>2, <1>1, <1>2, <1>3
    <3>2. j - (i - 1) \in 1..(Len(q) - i) /\ (j - (i - 1)) + i = j + 1
      BY <2>2, <1>1
    <3> QED
      BY <3>1, <3>2, <2>2, <1>3
  <2> QED
    BY <2>1, <2>2
<1> QED
  BY <1>4, <1>5, <1>6

\* DenseSymbolMap::RemoveSymbol changes symbols_ and buckets_ only.
LEMMA RemovePositionType ==
  ASSUME NEW t \in Tables, NEW p \in Positions(t)
  PROVE  LET rest == RemoveAt(t.symbols, p + 1)
         IN  /\ rest \in Seq(Symbols)
             /\ RemovePosition(t, p) = [t EXCEPT !.symbols = rest, !.buckets = RemovePosition(t, p).buckets]
             /\ RemovePosition(t, p) \in Tables
<1> DEFINE rest == RemoveAt(t.symbols, p + 1)
<1>1. t.symbols \in Seq(Symbols) /\ p + 1 \in 1..Len(t.symbols)
  BY Fields DEF Positions
<1>2. rest \in Seq(Symbols)
  BY <1>1, RemoveAtFacts
<1>3. PICK n \in Nat : t.buckets \in [0..(n - 1) -> Int] /\ Cardinality(DOMAIN t.buckets) = n
  BY Fields
<1> DEFINE c == Rehash(rest, n)
<1>4. RemovePosition(t, p) = [t EXCEPT !.symbols = rest, !.buckets = c]
  BY <1>3 DEF RemovePosition
<1>5. c \in BucketArrays
  BY <1>2, RehashType DEF BucketArrays
<1> HIDE DEF rest, c
<1>6. [t EXCEPT !.symbols = rest, !.buckets = c] \in Tables
  BY <1>2, <1>5 DEF Tables
<1>7. [t EXCEPT !.symbols = rest, !.buckets = c].buckets = c
  BY DEF Tables
<1> QED
  BY <1>2, <1>4, <1>6, <1>7 DEF rest

\* After it the buckets lead to all symbols that are left.
LEMMA RemovePositionSound ==
  ASSUME NEW t, Sound(t), NEW p \in Positions(t)
  PROVE  LET rest == RemoveAt(t.symbols, p + 1)
         IN  Distinct(rest) /\ BucketsSound(rest, RemovePosition(t, p).buckets)
<1> DEFINE rest == RemoveAt(t.symbols, p + 1)
           L == Len(t.symbols)
<1>1. t \in Tables /\ t.symbols \in Seq(Symbols) /\ L \in Nat /\ p + 1 \in 1..L /\ p \in Nat
  BY Fields DEF Positions, Sound
<1>2. rest \in Seq(Symbols) /\ Len(rest) = L - 1
      /\ \A j \in 1..(L - 1) : rest[j] = IF j < p + 1 THEN t.symbols[j] ELSE t.symbols[j + 1]
  BY <1>1, RemoveAtFacts
<1>3. PICK n \in Nat : n >= 4 /\ 4 * (L - 1) < 3 * n /\ Holds(t.symbols, t.buckets, n, L)
  BY DEF Sound, BucketsSound
<1>4. Cardinality(DOMAIN t.buckets) = n
  BY <1>3, SizeOfBuckets DEF Holds
<1> DEFINE c == Rehash(rest, n)
<1>5. RemovePosition(t, p).buckets = c
  BY <1>1, <1>4 DEF RemovePosition, Tables
<1> HIDE DEF rest
<1>6. Distinct(rest)
  <2> SUFFICES ASSUME NEW i \in DOMAIN rest, NEW j \in DOMAIN rest, rest[i] = rest[j] PROVE i = j
    BY DEF Distinct
  <2> DEFINE at(h) == IF h < p + 1 THEN h ELSE h + 1
  <2>1. i \in 1..(L - 1) /\ j \in 1..(L - 1)
    BY <1>2, <1>1
  <2>2. at(i) \in DOMAIN t.symbols /\ at(j) \in DOMAIN t.symbols
    BY <2>1, <1>1
  <2>3. t.symbols[at(i)] = t.symbols[at(j)]
    BY <2>1, <1>2
  <2>4. at(i) = at(j)
    <3> HIDE DEF at
    <3> QED
      BY <2>2, <2>3 DEF Sound, Distinct
  <2> QED
    BY <2>1, <2>4, <1>1
<1>7. Len(rest) <= n /\ 4 * (Len(rest) - 1) < 3 * n
  BY <1>1, <1>2, <1>3
<1>8. Holds(rest, c, n, Len(rest))
  BY <1>2, <1>6, <1>7, RehashHolds
<1>9. BucketsSound(rest, c)
  BY <1>3, <1>7, <1>8 DEF BucketsSound
<1> QED
  BY <1>5, <1>6, <1>9 DEF rest

\* The key of a position, given the dense limit and idx_key.
KeyAt(D, idx, p) == IF p < D THEN p ELSE idx[p - D + 1]

\* The keys behind position i move down by one.
MovedDown(L, D, idx, E, jdx, i) ==
    \A p \in 0..(L - 2) : KeyAt(E, jdx, p) = IF p < i THEN KeyAt(D, idx, p) ELSE KeyAt(D, idx, p + 1)

\* The keys that were dense, then the sparse ones.
DenseRest(D, idx, k) == [i \in 1..Cardinality((k + 1)..(D - 1)) |-> k + i] \o idx
DenseMap(D, map, k) ==
    LET moved == (k + 1)..(D - 1)
        shifted == Shifted(map, k)
    IN  [j \in moved \cup DOMAIN shifted |-> IF j \in moved THEN j - 1 ELSE shifted[j]]

\* r is p, c keys long, and then q.
Follows(r, p, q, c) == /\ r \in Seq(Int) /\ Len(r) = c + Len(q)
                       /\ \A i \in 1..c : r[i] = p[i]
                       /\ \A i \in (c + 1)..(c + Len(q)) : r[i] = q[i - c]

\* idx_key_ with the keys that were dense before it.
LEMMA KeysJoined ==
  ASSUME NEW p \in Seq(Int), NEW q \in Seq(Int)
  PROVE  Follows(p \o q, p, q, Len(p))
BY DEF Follows

\* idx_key_ after a dense key was removed: the dense keys above it come first.
LEMMA DenseRestFacts ==
  ASSUME NEW D \in Nat, NEW idx \in Seq(Int), NEW k \in 0..(D - 1)
  PROVE  LET r == DenseRest(D, idx, k)
         IN  /\ r \in Seq(Int) /\ Len(r) = (D - 1 - k) + Len(idx)
             /\ \A i \in 1..(D - 1 - k) : r[i] = k + i
             /\ \A i \in (D - k)..((D - 1 - k) + Len(idx)) : r[i] = idx[i - (D - 1 - k)]
<1> DEFINE c == D - 1 - k
           a == [i \in 1..c |-> k + i]
<1>1. c \in Nat /\ k \in Nat
  OBVIOUS
<1>2. Cardinality((k + 1)..(D - 1)) = c
  <2>1. k + 1 \in Int /\ D - 1 \in Int
    OBVIOUS
  <2>2. Cardinality((k + 1)..(D - 1)) = IF k + 1 > D - 1 THEN 0 ELSE (D - 1) - (k + 1) + 1
    BY <2>1, FS_Interval
  <2> QED
    BY <2>2
<1>3. DenseRest(D, idx, k) = a \o idx
  BY <1>2 DEF DenseRest
<1> HIDE DEF c
<1>4. \A i \in 1..c : k + i \in Int
  BY <1>1
<1>5. a \in Seq(Int) /\ Len(a) = c
  BY <1>1, <1>4
<1>6. \A i \in 1..c : a[i] = k + i
  OBVIOUS
<1> HIDE DEF a
<1>7. /\ a \o idx \in Seq(Int) /\ Len(a \o idx) = c + Len(idx)
      /\ \A i \in 1..c : (a \o idx)[i] = a[i]
      /\ \A i \in (c + 1)..(c + Len(idx)) : (a \o idx)[i] = idx[i - c]
  <2> DEFINE z == a \o idx
  <2>1. Follows(z, a, idx, Len(a))
    BY <1>5, KeysJoined
  <2> HIDE DEF z
  <2>2. Follows(z, a, idx, c)
    BY <2>1, <1>5
  <2>3. /\ z \in Seq(Int) /\ Len(z) = c + Len(idx)
        /\ \A i \in 1..c : z[i] = a[i]
        /\ \A i \in (c + 1)..(c + Len(idx)) : z[i] = idx[i - c]
    BY <2>2, Zenon DEF Follows
  <2> QED
    BY <2>3, Zenon DEF z
<1>8. \A i \in 1..c : (a \o idx)[i] = k + i
  BY <1>6, <1>7
<1>9. \A i \in (c + 1)..(c + Len(idx)) : (a \o idx)[i] = idx[i - c]
  BY <1>7
<1>10. D - k = c + 1
  BY DEF c
<1> QED
  BY <1>3, <1>7, <1>8, <1>9, <1>10 DEF c

\* key_map_ after a dense key was removed.
LEMMA DenseMapFacts ==
  ASSUME NEW D \in Nat, NEW map \in KeyMaps, NEW k \in 0..(D - 1)
  PROVE  LET m == DenseMap(D, map, k)
         IN  /\ m \in KeyMaps /\ DOMAIN m = (k + 1)..(D - 1) \cup DOMAIN map
             /\ \A j \in (k + 1)..(D - 1) : m[j] = j - 1
             /\ \A j \in DOMAIN map : j \notin (k + 1)..(D - 1) =>
                   m[j] = IF map[j] > k THEN map[j] - 1 ELSE map[j]
<1>1. PICK S \in SUBSET Int : map \in [S -> Int]
  BY DEF KeyMaps
<1> DEFINE moved == (k + 1)..(D - 1)
           m == DenseMap(D, map, k)
<1>2. m = [j \in moved \cup S |-> IF j \in moved THEN j - 1 ELSE IF map[j] > k THEN map[j] - 1 ELSE map[j]]
  BY <1>1 DEF DenseMap, Shifted
<1>3. \A j \in moved \cup S : (IF j \in moved THEN j - 1 ELSE IF map[j] > k THEN map[j] - 1 ELSE map[j]) \in Int
  BY <1>1
<1>4. moved \cup S \in SUBSET Int
  BY <1>1
<1> HIDE DEF m, moved
<1>5. m \in [moved \cup S -> Int]
  BY <1>2, <1>3
<1>6. m \in KeyMaps
  BY <1>4, <1>5 DEF KeyMaps
<1> QED
  BY <1>1, <1>2, <1>6 DEF m, moved

\* Removing a dense key leaves sound keys, and every key behind it moves down by one.
LEMMA DenseRemoved ==
  ASSUME NEW L \in Nat, NEW D \in Nat, NEW idx \in Seq(Int), NEW map \in KeyMaps, NEW available \in Int,
         KeysSound(L, D, idx, map, available), NEW k \in 0..(D - 1)
  PROVE  /\ KeysSound(L - 1, k, DenseRest(D, idx, k), DenseMap(D, map, k),
                      IF k = available - 1 THEN k ELSE available)
         /\ MovedDown(L, D, idx, k, DenseRest(D, idx, k), k)
<1> DEFINE r == DenseRest(D, idx, k)
           m == DenseMap(D, map, k)
           c == D - 1 - k
           ak == IF k = available - 1 THEN k ELSE available
<1>1. /\ D <= L /\ Len(idx) = L - D /\ available >= D
      /\ \A p \in D..(L - 1) : /\ idx[p - D + 1] \in DOMAIN map /\ map[idx[p - D + 1]] = p
                               /\ idx[p - D + 1] < 0 \/ idx[p - D + 1] >= D
                               /\ idx[p - D + 1] # kNoSymbol /\ idx[p - D + 1] < available
      /\ \A j \in DOMAIN map : map[j] \in D..(L - 1) /\ idx[map[j] - D + 1] = j
  BY DEF KeysSound
<1>2. /\ r \in Seq(Int) /\ Len(r) = c + Len(idx)
      /\ \A i \in 1..c : r[i] = k + i
      /\ \A i \in (D - k)..(c + Len(idx)) : r[i] = idx[i - c]
  BY DenseRestFacts
<1>3. /\ m \in KeyMaps /\ DOMAIN m = (k + 1)..(D - 1) \cup DOMAIN map
      /\ \A j \in (k + 1)..(D - 1) : m[j] = j - 1
      /\ \A j \in DOMAIN map : j \notin (k + 1)..(D - 1) =>
            m[j] = IF map[j] > k THEN map[j] - 1 ELSE map[j]
  BY DenseMapFacts
<1>4. DOMAIN map \subseteq Int
  BY DEF KeyMaps
<1>5. c \in Nat /\ k \in Nat /\ k < D /\ ak \in Int
  OBVIOUS
<1> HIDE DEF r, m
\* Old sparse keys are not among the moved ones, and their positions go down by one.
<1>6. ASSUME NEW j \in DOMAIN map
      PROVE  /\ j \in Int /\ (j < 0 \/ j >= D) /\ j \notin (k + 1)..(D - 1) /\ j # kNoSymbol /\ j < available
             /\ map[j] \in D..(L - 1) /\ m[j] = map[j] - 1 /\ idx[map[j] - D + 1] = j
  <2>1. map[j] \in D..(L - 1) /\ idx[map[j] - D + 1] = j
    BY <1>1
  <2>2. (j < 0 \/ j >= D) /\ j # kNoSymbol /\ j < available
    BY <1>1, <2>1
  <2>3. j \in Int
    BY <1>4
  <2>4. j \notin (k + 1)..(D - 1) /\ map[j] > k
    BY <2>1, <2>2, <2>3, <1>5
  <2> QED
    BY <2>1, <2>2, <2>3, <2>4, <1>3
<1>7. ASSUME NEW p \in k..(L - 2), p + 1 < D
      PROVE  r[p - k + 1] = p + 1 /\ p + 1 \in (k + 1)..(D - 1) /\ m[p + 1] = p
  <2>1. p - k + 1 \in 1..c /\ k + (p - k + 1) = p + 1
    BY <1>5, <1>7
  <2>2. p + 1 \in (k + 1)..(D - 1) /\ (p + 1) - 1 = p
    BY <1>5, <1>7
  <2> QED
    BY <2>1, <2>2, <1>2, <1>3
<1>8. ASSUME NEW p \in k..(L - 2), ~ (p + 1 < D)
      PROVE  r[p - k + 1] = idx[(p + 1) - D + 1] /\ p + 1 \in D..(L - 1)
  <2>1. p - k + 1 \in (D - k)..(c + Len(idx)) /\ (p - k + 1) - c = (p + 1) - D + 1
    BY <1>1, <1>5, <1>8
  <2>2. p + 1 \in D..(L - 1)
    BY <1>1, <1>5, <1>8
  <2> QED
    BY <2>1, <2>2, <1>2
<1>9. ASSUME NEW p \in k..((L - 1) - 1)
      PROVE  /\ r[p - k + 1] \in DOMAIN m /\ m[r[p - k + 1]] = p
             /\ r[p - k + 1] < 0 \/ r[p - k + 1] >= k
             /\ r[p - k + 1] # kNoSymbol /\ r[p - k + 1] < ak
  <2>0. p \in k..(L - 2) /\ p \in Int /\ k <= p
    OBVIOUS
  <2>1. CASE p + 1 < D
    <3>1. r[p - k + 1] = p + 1 /\ p + 1 \in DOMAIN m /\ m[p + 1] = p
      BY <2>0, <2>1, <1>3, <1>7
    <3>2. p + 1 >= k /\ p + 1 # kNoSymbol /\ p + 1 < ak
      BY <2>0, <2>1, <1>1, <1>5 DEF kNoSymbol
    <3> QED
      BY <3>1, <3>2
  <2>2. CASE ~ (p + 1 < D)
    <3>1. r[p - k + 1] = idx[(p + 1) - D + 1] /\ p + 1 \in D..(L - 1)
      BY <2>0, <2>2, <1>8
    <3> DEFINE j == idx[(p + 1) - D + 1]
    <3>2. j \in DOMAIN map /\ map[j] = p + 1
      BY <3>1, <1>1
    <3> HIDE DEF j
    <3>3. m[j] = p /\ j \in Int /\ (j < 0 \/ j >= D) /\ j # kNoSymbol /\ j < available
      BY <3>2, <1>6, <2>0
    <3>4. (j < 0 \/ j >= k) /\ j < ak
      BY <3>3, <1>5
    <3> QED
      BY <3>1, <3>2, <3>3, <3>4, <1>3 DEF j
  <2> QED
    BY <2>1, <2>2
<1>10. ASSUME NEW j \in DOMAIN m PROVE m[j] \in k..((L - 1) - 1) /\ r[m[j] - k + 1] = j
  <2>1. CASE j \in DOMAIN map
    <3>1. map[j] \in D..(L - 1) /\ m[j] = map[j] - 1 /\ idx[map[j] - D + 1] = j
      BY <2>1, <1>6
    <3>2. m[j] \in k..((L - 1) - 1) /\ m[j] \in k..(L - 2) /\ ~ (m[j] + 1 < D) /\ m[j] + 1 = map[j]
      <4> DEFINE x == map[j]
                 y == m[j]
      <4>1. x \in D..(L - 1) /\ y = x - 1
        BY <3>1
      <4> HIDE DEF x, y
      <4>2. x \in Int /\ D <= x /\ x <= L - 1 /\ y \in Int
        BY <4>1, <1>5
      <4>3. y \in k..((L - 1) - 1) /\ y \in k..(L - 2) /\ ~ (y + 1 < D) /\ y + 1 = x
        BY <4>1, <4>2, <1>5
      <4> QED
        BY <4>3 DEF x, y
    <3>3. r[m[j] - k + 1] = idx[(m[j] + 1) - D + 1]
      BY <3>2, <1>8
    <3> QED
      BY <3>1, <3>2, <3>3
  <2>2. CASE j \in (k + 1)..(D - 1)
    <3>1. m[j] = j - 1 /\ j - 1 \in k..(L - 2) /\ (j - 1) + 1 < D /\ (j - 1) + 1 = j
      BY <2>2, <1>1, <1>3, <1>5
    <3>2. r[(j - 1) - k + 1] = j
      BY <3>1, <1>7
    <3>3. j - 1 \in k..((L - 1) - 1)
      BY <3>1
    <3> QED
      BY <3>1, <3>2, <3>3
  <2> QED
    BY <2>1, <2>2, <1>3
<1>11. k <= L - 1 /\ Len(r) = (L - 1) - k /\ ak >= k
  BY <1>1, <1>2, <1>5
<1>12. KeysSound(L - 1, k, r, m, ak)
  <2> HIDE DEF ak
  <2> QED
    BY <1>5, <1>9, <1>10, <1>11 DEF KeysSound
<1>13. ASSUME NEW p \in 0..(L - 2)
       PROVE  KeyAt(k, r, p) = IF p < k THEN KeyAt(D, idx, p) ELSE KeyAt(D, idx, p + 1)
  <2>1. CASE p < k
    BY <2>1, <1>5 DEF KeyAt
  <2>2. CASE ~ (p < k)
    <3>1. p \in k..(L - 2)
      BY <2>2, <1>5
    <3>2. CASE p + 1 < D
      BY <3>1, <3>2, <2>2, <1>7 DEF KeyAt
    <3>3. CASE ~ (p + 1 < D)
      BY <3>1, <3>3, <2>2, <1>8 DEF KeyAt
    <3> QED
      BY <3>2, <3>3
  <2> QED
    BY <2>1, <2>2
<1> QED
  BY <1>12, <1>13 DEF MovedDown, r, m

SparseMap(map, k) == Shifted(Without(map, k), map[k])

\* key_map_ after a sparse key was removed.
LEMMA SparseMapFacts ==
  ASSUME NEW map \in KeyMaps, NEW k \in DOMAIN map
  PROVE  LET m == SparseMap(map, k)
         IN  /\ m \in KeyMaps /\ DOMAIN m = DOMAIN map \ {k}
             /\ \A j \in DOMAIN map \ {k} : m[j] = IF map[j] > map[k] THEN map[j] - 1 ELSE map[j]
<1>1. PICK S \in SUBSET Int : map \in [S -> Int]
  BY DEF KeyMaps
<1> DEFINE m == SparseMap(map, k)
<1>2. m = [j \in S \ {k} |-> IF map[j] > map[k] THEN map[j] - 1 ELSE map[j]]
  BY <1>1 DEF SparseMap, Shifted, Without
<1>3. \A j \in S \ {k} : (IF map[j] > map[k] THEN map[j] - 1 ELSE map[j]) \in Int
  BY <1>1
<1> HIDE DEF m
<1>4. m \in [S \ {k} -> Int] /\ S \ {k} \in SUBSET Int
  BY <1>1, <1>2, <1>3
<1>5. m \in KeyMaps
  BY <1>4 DEF KeyMaps
<1> QED
  BY <1>1, <1>2, <1>5 DEF m

\* Removing a sparse key leaves sound keys, and every key behind it moves down by one.
LEMMA SparseRemoved ==
  ASSUME NEW L \in Nat, NEW D \in Nat, NEW idx \in Seq(Int), NEW map \in KeyMaps, NEW available \in Int,
         KeysSound(L, D, idx, map, available), NEW k \in DOMAIN map
  PROVE  /\ KeysSound(L - 1, D, RemoveAt(idx, map[k] - D + 1), SparseMap(map, k),
                      IF k = available - 1 THEN k ELSE available)
         /\ MovedDown(L, D, idx, D, RemoveAt(idx, map[k] - D + 1), map[k])
<1> DEFINE i == map[k]
           r == RemoveAt(idx, i - D + 1)
           m == SparseMap(map, k)
           ak == IF k = available - 1 THEN k ELSE available
<1>1. /\ D <= L /\ Len(idx) = L - D /\ available >= D
      /\ \A p \in D..(L - 1) : /\ idx[p - D + 1] \in DOMAIN map /\ map[idx[p - D + 1]] = p
                               /\ idx[p - D + 1] < 0 \/ idx[p - D + 1] >= D
                               /\ idx[p - D + 1] # kNoSymbol /\ idx[p - D + 1] < available
      /\ \A j \in DOMAIN map : map[j] \in D..(L - 1) /\ idx[map[j] - D + 1] = j
  BY DEF KeysSound
<1>2. i \in D..(L - 1) /\ idx[i - D + 1] = k
  BY <1>1
<1> HIDE DEF i
<1>3. i - D + 1 \in 1..Len(idx)
  BY <1>1, <1>2
<1>4. /\ r \in Seq(Int) /\ Len(r) = Len(idx) - 1
      /\ \A j \in 1..(Len(idx) - 1) : r[j] = IF j < i - D + 1 THEN idx[j] ELSE idx[j + 1]
  BY <1>3, RemoveAtFacts
<1>5. /\ m \in KeyMaps /\ DOMAIN m = DOMAIN map \ {k}
      /\ \A j \in DOMAIN map \ {k} : m[j] = IF map[j] > i THEN map[j] - 1 ELSE map[j]
  BY SparseMapFacts DEF i
<1>6. DOMAIN map \subseteq Int /\ k \in Int
  BY DEF KeyMaps
<1>7. (k < 0 \/ k >= D) /\ k # kNoSymbol /\ k < available
  BY <1>1, <1>2
<1> HIDE DEF r, m
<1>8. ak \in Int /\ ak >= D
  BY <1>1, <1>6, <1>7 DEF kNoSymbol
<1>9. ASSUME NEW p \in D..(L - 2)
      PROVE  /\ p < i => r[p - D + 1] = idx[p - D + 1] /\ p \in D..(L - 1)
             /\ ~ (p < i) => r[p - D + 1] = idx[(p + 1) - D + 1] /\ p + 1 \in D..(L - 1)
  <2>1. p - D + 1 \in 1..(Len(idx) - 1) /\ (p - D + 1) + 1 = (p + 1) - D + 1
    BY <1>1
  <2>2. (p - D + 1 < i - D + 1) <=> p < i
    BY <1>2
  <2>3. p \in D..(L - 1) /\ p + 1 \in D..(L - 1)
    OBVIOUS
  <2>4. r[p - D + 1] = IF p - D + 1 < i - D + 1 THEN idx[p - D + 1] ELSE idx[(p - D + 1) + 1]
    BY <2>1, <1>4
  <2> QED
    BY <2>1, <2>2, <2>3, <2>4
<1>10. ASSUME NEW q \in D..(L - 1), q # i
       PROVE  LET j == idx[q - D + 1]
              IN  /\ j \in DOMAIN m /\ m[j] = (IF q > i THEN q - 1 ELSE q)
                  /\ j < 0 \/ j >= D
                  /\ j # kNoSymbol /\ j < ak
  <2> DEFINE j == idx[q - D + 1]
  <2>1. j \in DOMAIN map /\ map[j] = q /\ (j < 0 \/ j >= D) /\ j # kNoSymbol /\ j < available
    BY <1>1
  <2> HIDE DEF j
  <2>2. j # k
    BY <2>1, <1>10 DEF i
  <2>3. j \in DOMAIN m /\ m[j] = (IF q > i THEN q - 1 ELSE q)
    BY <2>1, <2>2, <1>5
  <2>4. j < ak
    BY <2>1, <2>2, <1>6, <1>7
  <2> QED
    BY <2>1, <2>3, <2>4 DEF j
<1>11. ASSUME NEW p \in D..((L - 1) - 1)
       PROVE  /\ r[p - D + 1] \in DOMAIN m /\ m[r[p - D + 1]] = p
              /\ r[p - D + 1] < 0 \/ r[p - D + 1] >= D
              /\ r[p - D + 1] # kNoSymbol /\ r[p - D + 1] < ak
  <2>0. p \in D..(L - 2) /\ i \in Int
    BY <1>2
  <2> HIDE DEF ak
  <2>1. CASE p < i
    <3>1. r[p - D + 1] = idx[p - D + 1] /\ p \in D..(L - 1) /\ p # i /\ ~ (p > i)
      BY <2>0, <2>1, <1>9
    <3> QED
      BY <3>1, <1>10
  <2>2. CASE ~ (p < i)
    <3>1. r[p - D + 1] = idx[(p + 1) - D + 1] /\ p + 1 \in D..(L - 1) /\ p + 1 # i /\ p + 1 > i /\ (p + 1) - 1 = p
      BY <2>0, <2>2, <1>9
    <3> DEFINE q == p + 1
    <3>2. r[p - D + 1] = idx[q - D + 1] /\ q \in D..(L - 1) /\ q # i /\ q > i /\ q - 1 = p
      BY <3>1
    <3> HIDE DEF q
    <3> QED
      BY <3>2, <1>10
  <2> QED
    BY <2>1, <2>2
<1>12. ASSUME NEW j \in DOMAIN m PROVE m[j] \in D..((L - 1) - 1) /\ r[m[j] - D + 1] = j
  <2>1. j \in DOMAIN map /\ j # k
    BY <1>5
  <2>2. map[j] \in D..(L - 1) /\ idx[map[j] - D + 1] = j
    BY <2>1, <1>1
  <2>3. map[j] # i
    BY <2>1, <2>2, <1>2
  <2>4. m[j] = IF map[j] > i THEN map[j] - 1 ELSE map[j]
    BY <2>1, <1>5
  <2> DEFINE x == map[j]
             y == m[j]
  <2>7. x \in D..(L - 1) /\ idx[x - D + 1] = j /\ x # i /\ y = IF x > i THEN x - 1 ELSE x
    BY <2>2, <2>3, <2>4
  <2> SUFFICES y \in D..((L - 1) - 1) /\ r[y - D + 1] = j
    OBVIOUS
  <2> HIDE DEF x, y
  <2>8. x \in Int /\ i \in Int /\ y \in Int /\ D <= x /\ x <= L - 1
    BY <2>7, <1>2
  <2>5. CASE x > i
    <3>1. y = x - 1 /\ y + 1 = x
      BY <2>5, <2>7, <2>8
    <3>2. y \in D..(L - 2) /\ ~ (y < i) /\ y \in D..((L - 1) - 1)
      BY <3>1, <2>5, <2>8, <1>2
    <3>3. r[y - D + 1] = idx[(y + 1) - D + 1]
      BY <3>2, <1>9
    <3> QED
      BY <3>1, <3>2, <3>3, <2>7
  <2>6. CASE ~ (x > i)
    <3>1. y = x /\ x < i
      BY <2>6, <2>7, <2>8
    <3>2. y \in D..(L - 2) /\ y < i /\ y \in D..((L - 1) - 1)
      BY <3>1, <2>8, <1>2
    <3>3. r[y - D + 1] = idx[y - D + 1]
      BY <3>2, <1>9
    <3> QED
      BY <3>1, <3>2, <3>3, <2>7
  <2> QED
    BY <2>5, <2>6
<1>13. D <= L - 1 /\ Len(r) = (L - 1) - D
  BY <1>1, <1>2, <1>4
<1>14. KeysSound(L - 1, D, r, m, ak)
  <2> HIDE DEF ak
  <2> QED
    BY <1>8, <1>11, <1>12, <1>13 DEF KeysSound
<1>15. ASSUME NEW p \in 0..(L - 2)
       PROVE  KeyAt(D, r, p) = IF p < i THEN KeyAt(D, idx, p) ELSE KeyAt(D, idx, p + 1)
  <2>1. CASE p < D
    <3>1. p < i
      BY <2>1, <1>2
    <3> QED
      BY <3>1, <2>1 DEF KeyAt
  <2>2. CASE ~ (p < D)
    <3>1. p \in D..(L - 2) /\ ~ (p + 1 < D)
      BY <2>2
    <3> QED
      BY <3>1, <2>2, <1>9 DEF KeyAt
  <2> QED
    BY <2>1, <2>2
<1> QED
  BY <1>14, <1>15 DEF MovedDown, r, m, i

\* A table u without the symbol at position p of t.
Lacks(t, p, u) ==
    /\ u \in Tables
    /\ u.symbols = RemoveAt(t.symbols, p + 1) /\ u.buckets = RemovePosition(t, p).buckets
    /\ u.available_key = t.available_key /\ u.mutex = t.mutex
    /\ u.check_sum_finalized = t.check_sum_finalized
    /\ KeysSound(Len(t.symbols) - 1, u.dense_key_limit, u.idx_key, u.key_map,
                 IF GetNthKey(t, p) = t.available_key - 1 THEN GetNthKey(t, p) ELSE t.available_key)
    /\ MovedDown(Len(t.symbols), t.dense_key_limit, t.idx_key, u.dense_key_limit, u.idx_key, p)

\* What RemoveSymbol does last.
Outlived(t, u, k) == [Outdated(u) EXCEPT !.available_key = IF k = @ - 1 THEN k ELSE @,
                                         !.removed = t.check_sum_finalized]

\* What both removals have in common: the list loses one pair.
LEMMA Removal ==
  ASSUME NEW t, Sound(t), NEW p \in Positions(t), NEW u, Lacks(t, p, u)
  PROVE  LET w == Outlived(t, u, GetNthKey(t, p))
         IN  Sound(w) /\ List(w) = RemoveAt(List(t), p + 1) /\ w.mutex = t.mutex
<1> DEFINE L == Len(t.symbols)
           k == GetNthKey(t, p)
           ak == IF k = t.available_key - 1 THEN k ELSE t.available_key
           rest == RemoveAt(t.symbols, p + 1)
           w == Outlived(t, u, k)
<1>1. t \in Tables /\ t.symbols \in Seq(Symbols) /\ L \in Nat /\ t.available_key \in Int /\ k \in Int
  BY Fields, NthKeyFacts DEF Sound
<1>2. u \in Tables /\ u.available_key = t.available_key /\ t.check_sum_finalized \in BOOLEAN
  BY <1>1, Fields DEF Lacks
<1>3. p + 1 \in 1..L
  BY <1>1 DEF Positions
<1>4. rest \in Seq(Symbols) /\ Len(rest) = L - 1
      /\ \A j \in 1..(L - 1) : rest[j] = IF j < p + 1 THEN t.symbols[j] ELSE t.symbols[j + 1]
  BY <1>1, <1>3, RemoveAtFacts
<1>5. ak \in Int
  BY <1>1
<1>6. w = [u EXCEPT !.check_sum = FALSE, !.labeled_check_sum = FALSE,
                    !.available_key = ak, !.removed = t.check_sum_finalized]
  <2>1. Outdated(u).available_key = t.available_key
    BY <1>2 DEF Outdated, Tables
  <2> HIDE DEF k
  <2> QED
    BY <2>1, <1>2 DEF Outlived, Outdated, Tables
<1> HIDE DEF ak, k, rest
<1>7. /\ w \in Tables
      /\ w.symbols = u.symbols /\ w.buckets = u.buckets /\ w.dense_key_limit = u.dense_key_limit
      /\ w.idx_key = u.idx_key /\ w.key_map = u.key_map /\ w.available_key = ak /\ w.mutex = u.mutex
      /\ w.check_sum_finalized = u.check_sum_finalized /\ w.removed = t.check_sum_finalized
  <2> HIDE DEF w
  <2> QED
    BY <1>2, <1>5, <1>6 DEF Tables
<1> HIDE DEF w
<1>8. w.symbols = rest /\ Len(w.symbols) = L - 1
  BY <1>4, <1>7 DEF Lacks, rest
<1>9. Distinct(rest) /\ BucketsSound(rest, w.buckets)
  BY <1>7, RemovePositionSound DEF Lacks, rest
<1>10. KeysSound(L - 1, w.dense_key_limit, w.idx_key, w.key_map, ak)
  BY <1>7 DEF Lacks, ak, k
<1>11. SumsSound(w)
  BY <1>7 DEF SumsSound, Lacks
<1>12. Sound(w)
  BY <1>7, <1>8, <1>9, <1>10, <1>11 DEF Sound
<1>13. ASSUME NEW j \in 1..(L - 1)
       PROVE  GetNthKey(w, j - 1) = IF j < p + 1 THEN GetNthKey(t, j - 1) ELSE GetNthKey(t, j)
  <2>1. j - 1 \in Positions(w) /\ j - 1 \in Positions(t) /\ j \in Positions(t) /\ j - 1 \in 0..(L - 2)
    BY <1>1, <1>8 DEF Positions
  <2>2. /\ GetNthKey(w, j - 1) = KeyAt(w.dense_key_limit, w.idx_key, j - 1)
        /\ GetNthKey(t, j - 1) = KeyAt(t.dense_key_limit, t.idx_key, j - 1)
        /\ GetNthKey(t, j) = KeyAt(t.dense_key_limit, t.idx_key, j)
    <3>1. GetNthKey(w, j - 1) = KeyAt(w.dense_key_limit, w.idx_key, j - 1)
      BY <2>1, <1>7, NthKey DEF KeyAt
    <3>2. \A h \in Positions(t) : GetNthKey(t, h) = KeyAt(t.dense_key_limit, t.idx_key, h)
      BY <1>1, NthKey DEF KeyAt
    <3> QED
      BY <3>1, <3>2, <2>1
  <2>3. (j - 1) + 1 = j /\ (j - 1 < p <=> j < p + 1)
    BY <1>1 DEF Positions
  <2>4. KeyAt(u.dense_key_limit, u.idx_key, j - 1) =
           IF j - 1 < p THEN KeyAt(t.dense_key_limit, t.idx_key, j - 1)
           ELSE KeyAt(t.dense_key_limit, t.idx_key, (j - 1) + 1)
    BY <2>1 DEF Lacks, MovedDown
  <2> QED
    BY <2>2, <2>3, <2>4, <1>7
<1>14. List(w) \in Seq(Pairs) /\ Len(List(w)) = L - 1
       /\ \A j \in 1..(L - 1) : List(w)[j] = << rest[j], GetNthKey(w, j - 1) >>
  BY <1>12, <1>7, <1>8, ListFacts, ListShape DEF OneToOne
<1>15. List(t) \in Seq(Pairs) /\ Len(List(t)) = L
       /\ \A j \in 1..L : List(t)[j] = << t.symbols[j], GetNthKey(t, j - 1) >>
  BY <1>1, ListFacts, ListShape DEF OneToOne
<1> DEFINE r == RemoveAt(List(t), p + 1)
<1>16. r \in Seq(Pairs) /\ Len(r) = L - 1
       /\ \A j \in 1..(L - 1) : r[j] = IF j < p + 1 THEN List(t)[j] ELSE List(t)[j + 1]
  <2> DEFINE q == List(t)
             i == p + 1
  <2>1. q \in Seq(Pairs) /\ Len(q) = L /\ i \in 1..Len(q)
    BY <1>3, <1>15
  <2> HIDE DEF Pairs, q, i
  <2>2. /\ RemoveAt(q, i) \in Seq(Pairs) /\ Len(RemoveAt(q, i)) = Len(q) - 1
        /\ \A j \in 1..(Len(q) - 1) : RemoveAt(q, i)[j] = IF j < i THEN q[j] ELSE q[j + 1]
    BY <2>1, RemoveAtFacts
  <2> QED
    BY <2>1, <2>2 DEF q, i
<1> HIDE DEF r
<1>17. ASSUME NEW j \in 1..(L - 1) PROVE List(w)[j] = r[j]
  <2>1. j \in 1..L /\ j + 1 \in 1..L /\ (j + 1) - 1 = j
    BY <1>1
  <2>2. CASE j < p + 1
    BY <2>1, <2>2, <1>4, <1>13, <1>14, <1>15, <1>16
  <2>3. CASE ~ (j < p + 1)
    <3>1. List(w)[j] = << t.symbols[j + 1], GetNthKey(t, j) >>
      BY <2>3, <1>4, <1>13, <1>14
    <3>2. List(t)[j + 1] = << t.symbols[j + 1], GetNthKey(t, j) >>
      BY <2>1, <1>15
    <3> QED
      BY <3>1, <3>2, <2>3, <1>16
  <2> QED
    BY <2>2, <2>3
<1>18. List(w) = r
  BY <1>14, <1>16, <1>17, SameSeq
<1> QED
  BY <1>7, <1>12, <1>18 DEF w, r, k, Lacks

\* RemoveSymbol of a dense key.
LEMMA DenseLacks ==
  ASSUME NEW t, Sound(t), NEW k \in 0..(t.dense_key_limit - 1)
  PROVE  k \in Positions(t) /\ GetNthKey(t, k) = k /\ Lacks(t, k, RemoveDense(t, k))
<1> DEFINE L == Len(t.symbols)
           D == t.dense_key_limit
           v == RemovePosition(t, k)
           u == RemoveDense(t, k)
           idx == DenseRest(D, t.idx_key, k)
           map == DenseMap(D, t.key_map, k)
<1>1. /\ t \in Tables /\ t.symbols \in Seq(Symbols) /\ L \in Nat /\ D \in Nat /\ D <= L
      /\ t.idx_key \in Seq(Int) /\ t.available_key \in Int /\ t.key_map \in KeyMaps
  BY DEF Sound, KeysSound, Tables
<1>2. k \in Positions(t) /\ k < D /\ k \in Int
  BY <1>1 DEF Positions
<1>3. GetNthKey(t, k) = k
  BY <1>1, <1>2, NthKey
<1>4. v \in Tables /\ v = [t EXCEPT !.symbols = RemoveAt(t.symbols, k + 1), !.buckets = v.buckets]
  BY <1>1, <1>2, RemovePositionType
<1>5. u = [v EXCEPT !.key_map = map, !.idx_key = idx, !.dense_key_limit = k]
  BY DEF RemoveDense, DenseRest, DenseMap
<1>6. idx \in Seq(Int) /\ map \in KeyMaps
  BY <1>1, DenseRestFacts, DenseMapFacts
<1>7. /\ KeysSound(L - 1, k, idx, map, IF k = t.available_key - 1 THEN k ELSE t.available_key)
      /\ MovedDown(L, D, t.idx_key, k, idx, k)
  <2>1. KeysSound(L, D, t.idx_key, t.key_map, t.available_key)
    BY DEF Sound
  <2> QED
    BY <2>1, <1>1, DenseRemoved
<1> DEFINE rest == RemoveAt(t.symbols, k + 1)
           b == v.buckets
<1>8. v = [t EXCEPT !.symbols = rest, !.buckets = b]
  BY <1>4
<1> HIDE DEF idx, map, v, u, rest, b
<1>9. /\ v.symbols = rest /\ v.available_key = t.available_key /\ v.mutex = t.mutex
      /\ v.check_sum_finalized = t.check_sum_finalized
  BY <1>1, <1>8 DEF Tables
<1>10. /\ u \in Tables /\ u.symbols = v.symbols /\ u.buckets = v.buckets
       /\ u.available_key = v.available_key /\ u.mutex = v.mutex
       /\ u.check_sum_finalized = v.check_sum_finalized
       /\ u.dense_key_limit = k /\ u.idx_key = idx /\ u.key_map = map
  BY <1>2, <1>4, <1>5, <1>6 DEF Tables
<1>11. Lacks(t, k, u)
  BY <1>3, <1>7, <1>9, <1>10 DEF Lacks, rest, v
<1> QED
  BY <1>2, <1>3, <1>11 DEF u

\* RemoveSymbol of a sparse key.
LEMMA SparseLacks ==
  ASSUME NEW t, Sound(t), NEW k \in DOMAIN t.key_map
  PROVE  LET p == t.key_map[k]
         IN  p \in Positions(t) /\ GetNthKey(t, p) = k /\ Lacks(t, p, RemoveSparse(t, k))
<1> DEFINE L == Len(t.symbols)
           D == t.dense_key_limit
           p == t.key_map[k]
           v == RemovePosition(t, p)
           u == RemoveSparse(t, k)
           idx == RemoveAt(t.idx_key, p - D + 1)
           map == SparseMap(t.key_map, k)
<1>1. /\ t \in Tables /\ t.symbols \in Seq(Symbols) /\ L \in Nat /\ D \in Nat /\ D <= L
      /\ t.idx_key \in Seq(Int) /\ t.available_key \in Int /\ t.key_map \in KeyMaps
      /\ Len(t.idx_key) = L - D
  BY DEF Sound, KeysSound, Tables
<1>2. p \in D..(L - 1) /\ t.idx_key[p - D + 1] = k
  BY DEF Sound, KeysSound
<1>3. p \in Positions(t) /\ ~ (p < D) /\ p - D + 1 \in 1..Len(t.idx_key)
  <2> HIDE DEF p
  <2> QED
    BY <1>1, <1>2 DEF Positions
<1>4. GetNthKey(t, p) = k
  BY <1>1, <1>2, <1>3, NthKey
<1>5. v \in Tables /\ v = [t EXCEPT !.symbols = RemoveAt(t.symbols, p + 1), !.buckets = v.buckets]
  <2> HIDE DEF p
  <2> QED
    BY <1>1, <1>3, RemovePositionType
<1> DEFINE rest == RemoveAt(t.symbols, p + 1)
           b == v.buckets
<1>6. v = [t EXCEPT !.symbols = rest, !.buckets = b]
  BY <1>5
<1>7. u = [v EXCEPT !.key_map = map, !.idx_key = RemoveAt(v.idx_key, p - D + 1)]
  BY DEF RemoveSparse, SparseMap
<1>8. idx \in Seq(Int) /\ map \in KeyMaps
  <2>1. map \in KeyMaps
    BY <1>1, SparseMapFacts
  <2> HIDE DEF p
  <2> QED
    BY <2>1, <1>1, <1>3, RemoveAtFacts
<1>9. /\ KeysSound(L - 1, D, idx, map, IF k = t.available_key - 1 THEN k ELSE t.available_key)
      /\ MovedDown(L, D, t.idx_key, D, idx, p)
  <2>1. KeysSound(L, D, t.idx_key, t.key_map, t.available_key)
    BY DEF Sound
  <2> QED
    BY <2>1, <1>1, SparseRemoved
<1> HIDE DEF map, v, u, rest, b, p
<1>10. /\ v.symbols = rest /\ v.available_key = t.available_key /\ v.mutex = t.mutex
       /\ v.check_sum_finalized = t.check_sum_finalized /\ v.dense_key_limit = D /\ v.idx_key = t.idx_key
  BY <1>1, <1>6 DEF Tables
<1> HIDE DEF idx
<1>11. u = [v EXCEPT !.key_map = map, !.idx_key = idx]
  BY <1>7, <1>10 DEF idx
<1>12. /\ u \in Tables /\ u.symbols = v.symbols /\ u.buckets = v.buckets
       /\ u.available_key = v.available_key /\ u.mutex = v.mutex
       /\ u.check_sum_finalized = v.check_sum_finalized
       /\ u.dense_key_limit = D /\ u.idx_key = idx /\ u.key_map = map
  BY <1>5, <1>8, <1>10, <1>11 DEF Tables
<1>13. Lacks(t, p, u)
  BY <1>4, <1>9, <1>10, <1>12 DEF Lacks, rest, v
<1> QED
  BY <1>3, <1>4, <1>13 DEF u, p

\* RemoveSymbol takes one pair out of the list, or does nothing.
LEMMA RemoveSymbolFacts ==
  ASSUME NEW t, Sound(t), NEW k \in Int
  PROVE  LET w == RemoveSymbol(t, k)
         IN  /\ Sound(w) /\ w.mutex = t.mutex
             /\ w = t \/ \E i \in DOMAIN List(t) : List(w) = RemoveAt(List(t), i)
<1> DEFINE D == t.dense_key_limit
           w == RemoveSymbol(t, k)
<1>1. t \in Tables /\ D \in Nat /\ Len(t.symbols) \in Nat
  BY Fields DEF Sound, KeysSound
<1>2. \A p \in Positions(t) : p + 1 \in DOMAIN List(t)
  BY <1>1, ListShape DEF Positions
<1>3. CASE 0 <= k /\ k < D
  <2>1. k \in 0..(D - 1)
    BY <1>1, <1>3
  <2>2. k \in Positions(t) /\ GetNthKey(t, k) = k /\ Lacks(t, k, RemoveDense(t, k))
    BY <2>1, DenseLacks
  <2>3. w = Outlived(t, RemoveDense(t, k), k)
    BY <1>3 DEF RemoveSymbol, Outlived
  <2>4. Sound(w) /\ List(w) = RemoveAt(List(t), k + 1) /\ w.mutex = t.mutex
    BY <2>2, <2>3, Removal
  <2> QED
    BY <2>2, <2>4, <1>2
<1>4. CASE ~ (0 <= k /\ k < D) /\ k \in DOMAIN t.key_map
  <2> DEFINE p == t.key_map[k]
  <2>1. p \in Positions(t) /\ GetNthKey(t, p) = k /\ Lacks(t, p, RemoveSparse(t, k))
    BY <1>4, SparseLacks
  <2>2. w = Outlived(t, RemoveSparse(t, k), k)
    BY <1>4 DEF RemoveSymbol, Outlived
  <2> HIDE DEF p
  <2>3. Sound(w) /\ List(w) = RemoveAt(List(t), p + 1) /\ w.mutex = t.mutex
    BY <2>1, <2>2, Removal
  <2> QED
    BY <2>1, <2>3, <1>2
<1>5. CASE ~ (0 <= k /\ k < D) /\ k \notin DOMAIN t.key_map
  <2>1. w = t
    BY <1>5 DEF RemoveSymbol
  <2> QED
    BY <2>1
<1> QED
  BY <1>3, <1>4, <1>5

-----------------------------------------------------------------------------
(* Loops that add symbols.                                                 *)

\* A symbol of the table is a symbol of its list.
LEMMA SymbolInList ==
  ASSUME NEW t \in Tables, NEW s
  PROVE  s \in Range(t.symbols) <=> \E i \in DOMAIN List(t) : List(t)[i][1] = s
<1>1. t.symbols \in Seq(Symbols) /\ DOMAIN t.symbols = 1..Len(t.symbols)
  BY Fields
<1>2. /\ DOMAIN List(t) = 1..Len(t.symbols)
      /\ \A i \in 1..Len(t.symbols) : List(t)[i] = << t.symbols[i], GetNthKey(t, i - 1) >>
  BY ListShape
<1>3. \A i \in DOMAIN t.symbols : i \in DOMAIN List(t) /\ List(t)[i][1] = t.symbols[i]
  BY <1>1, <1>2
<1>4. s \in Range(t.symbols) <=> \E i \in DOMAIN t.symbols : t.symbols[i] = s
  BY DEF Range
<1>5. DOMAIN List(t) = DOMAIN t.symbols
  BY <1>1, <1>2
<1> QED
  BY <1>3, <1>4, <1>5, Zenon

\* A table with another available_key_.
LEMMA OtherAvailable ==
  ASSUME NEW e \in Tables, NEW a \in Int
  PROVE  /\ [e EXCEPT !.available_key = a] =
                [symbols |-> e.symbols, buckets |-> e.buckets, dense_key_limit |-> e.dense_key_limit,
                 idx_key |-> e.idx_key, key_map |-> e.key_map, available_key |-> a,
                 check_sum_finalized |-> e.check_sum_finalized, check_sum |-> e.check_sum,
                 labeled_check_sum |-> e.labeled_check_sum, mutex |-> e.mutex, removed |-> e.removed]
         /\ a = e.available_key => [e EXCEPT !.available_key = a] = e
<1>1. [e EXCEPT !.available_key = a] =
                [symbols |-> e.symbols, buckets |-> e.buckets, dense_key_limit |-> e.dense_key_limit,
                 idx_key |-> e.idx_key, key_map |-> e.key_map, available_key |-> a,
                 check_sum_finalized |-> e.check_sum_finalized, check_sum |-> e.check_sum,
                 labeled_check_sum |-> e.labeled_check_sum, mutex |-> e.mutex, removed |-> e.removed]
  BY DEF Tables
<1>2. e = [symbols |-> e.symbols, buckets |-> e.buckets, dense_key_limit |-> e.dense_key_limit,
           idx_key |-> e.idx_key, key_map |-> e.key_map, available_key |-> e.available_key,
           check_sum_finalized |-> e.check_sum_finalized, check_sum |-> e.check_sum,
           labeled_check_sum |-> e.labeled_check_sum, mutex |-> e.mutex, removed |-> e.removed]
  BY DEF Tables
<1> QED
  BY <1>1, <1>2, Zenon

\* A new table is sound and empty, whatever its first available key.
LEMMA EmptySound ==
  ASSUME NEW k \in Nat
  PROVE  LET t == [EmptyTable EXCEPT !.available_key = k]
         IN  /\ Sound(t) /\ List(t) = <<>> /\ t.mutex = None /\ t.available_key = k
             /\ Sound(EmptyTable) /\ List(EmptyTable) = <<>> /\ EmptyTable.mutex = None
<1>1. NumBuckets \in Nat /\ NumBuckets >= 4
  BY BucketAssumption
<1>2. <<>> \in Seq(Symbols) /\ <<>> \in Seq(Int) /\ Len(<<>>) = 0 /\ DOMAIN <<>> = {}
  OBVIOUS
<1>3. Holds(<<>>, EmptyBuckets(NumBuckets), NumBuckets, 0) /\ EmptyBuckets(NumBuckets) \in BucketArrays
  BY <1>1, <1>2, NoneHeld DEF BucketArrays
<1>4. <<>> \in KeyMaps
  <2>1. <<>> \in [{} -> Int] /\ {} \in SUBSET Int
    OBVIOUS
  <2> QED
    BY <2>1 DEF KeyMaps
<1>5. Distinct(<<>>) /\ BucketsSound(<<>>, EmptyBuckets(NumBuckets))
  BY <1>1, <1>2, <1>3 DEF Distinct, BucketsSound
<1>6. \A a \in Nat : KeysSound(0, 0, <<>>, <<>>, a)
  <2>1. \A p \in 0..(0 - 1) : FALSE
    OBVIOUS
  <2> QED
    BY <2>1, <1>2 DEF KeysSound
<1>7. ASSUME NEW a \in Nat
      PROVE  LET t == [EmptyTable EXCEPT !.available_key = a]
             IN  Sound(t) /\ List(t) = <<>> /\ t.mutex = None /\ t.available_key = a
  <2> DEFINE t == [EmptyTable EXCEPT !.available_key = a]
             b == EmptyBuckets(NumBuckets)
  <2>a. EmptyTable \in Tables
    BY <1>2, <1>3, <1>4 DEF EmptyTable, Tables
  <2>1. t = [symbols |-> <<>>, buckets |-> b, dense_key_limit |-> 0,
             idx_key |-> <<>>, key_map |-> <<>>, available_key |-> a,
             check_sum_finalized |-> FALSE, check_sum |-> FALSE, labeled_check_sum |-> FALSE,
             mutex |-> None, removed |-> FALSE]
    <3> DEFINE e == EmptyTable
    <3>1. a \in Int /\ e \in Tables
      BY <2>a
    <3>2. /\ e.symbols = <<>> /\ e.buckets = b /\ e.dense_key_limit = 0 /\ e.idx_key = <<>>
          /\ e.key_map = <<>> /\ e.check_sum_finalized = FALSE /\ e.check_sum = FALSE
          /\ e.labeled_check_sum = FALSE /\ e.mutex = None /\ e.removed = FALSE
      BY DEF EmptyTable
    <3> HIDE DEF e, b
    <3>3. [e EXCEPT !.available_key = a] =
                [symbols |-> e.symbols, buckets |-> e.buckets, dense_key_limit |-> e.dense_key_limit,
                 idx_key |-> e.idx_key, key_map |-> e.key_map, available_key |-> a,
                 check_sum_finalized |-> e.check_sum_finalized, check_sum |-> e.check_sum,
                 labeled_check_sum |-> e.labeled_check_sum, mutex |-> e.mutex, removed |-> e.removed]
      BY <3>1, OtherAvailable, Zenon
    <3>4. t = [e EXCEPT !.available_key = a]
      BY Zenon DEF e
    <3> HIDE DEF t
    <3> QED
      BY <3>2, <3>3, <3>4, Zenon
  <2> HIDE DEF t, b
  <2>2. t \in Tables
    <3>1. b \in BucketArrays
      BY <1>3 DEF b
    <3> QED
      BY <2>1, <3>1, <1>2, <1>4 DEF Tables
  <2>3. Sound(t)
    <3>1. /\ t.symbols = <<>> /\ t.buckets = b /\ t.dense_key_limit = 0 /\ t.idx_key = <<>>
          /\ t.key_map = <<>> /\ t.available_key = a /\ t.check_sum_finalized = FALSE
      BY <2>1
    <3>2. KeysSound(Len(t.symbols), t.dense_key_limit, t.idx_key, t.key_map, t.available_key)
      BY <3>1, <1>2, <1>6
    <3>3. Distinct(t.symbols) /\ BucketsSound(t.symbols, t.buckets)
      BY <3>1, <1>5 DEF b
    <3>4. SumsSound(t)
      BY <3>1 DEF SumsSound
    <3> QED
      BY <2>2, <3>2, <3>3, <3>4 DEF Sound
  <2>4. List(t) = <<>>
    BY <2>1, <1>2 DEF List
  <2>5. t.mutex = None /\ t.available_key = a
    BY <2>1
  <2> QED
    BY <2>3, <2>4, <2>5 DEF t
<1>8. EmptyTable = [EmptyTable EXCEPT !.available_key = 0]
  <2>1. EmptyTable \in Tables /\ 0 \in Int
    BY <1>2, <1>3, <1>4 DEF EmptyTable, Tables
  <2>2. EmptyTable.available_key = 0
    BY DEF EmptyTable
  <2> QED
    BY <2>1, <2>2, OtherAvailable, Zenon
<1>9. Sound(EmptyTable) /\ List(EmptyTable) = <<>> /\ EmptyTable.mutex = None
  <2>1. 0 \in Nat
    OBVIOUS
  <2> QED
    BY <2>1, <1>7, <1>8
<1> QED
  BY <1>7, <1>9

\* The states of the loop of FromEntries.
LEMMA FromEntriesStates ==
  ASSUME NEW t \in Tables, NEW entries \in Seq(Pairs)
  PROVE  \E f : /\ FromEntries(t, entries) = f[Len(entries)]
               /\ f[0] = t
               /\ \A i \in 1..Len(entries) : f[i] = AddSymbol(f[i - 1], entries[i][1], entries[i][2])
<1> DEFINE L == Len(entries)
           Op(x, i) == AddSymbol(x, entries[i][1], entries[i][2])
           S == Tables
           step == [i \in 1..L |-> [x \in S |-> Op(x, i)]]
           F(f) == [i \in 0..L |-> IF i = 0 THEN t ELSE Op(f[i - 1], i)]
           f == CHOOSE f : f = F(f)
<1>1. L \in Nat /\ t \in S
  OBVIOUS
<1>2. \A i \in 1..L : \A x \in S : Op(x, i) \in S
  <2>1. \A i \in 1..L : entries[i][1] \in Symbols /\ entries[i][2] \in Int
    BY DEF Pairs
  <2> QED
    BY <2>1, AddSymbolType
<1>3. FromEntries(t, entries) = f[Len(entries)]
  BY DEF FromEntries
<1> HIDE DEF L, Op, S
<1>4. Rounds(S, L, step)
  BY <1>2 DEF Rounds
<1>5. PICK h : States(h, S, t, L, step)
  <2> HIDE DEF step
  <2> QED
    BY <1>1, <1>4, LoopStates
<1>6. h = F(h)
  <2>1. h \in [0..L -> S] /\ h[0] = t /\ \A i \in 1..L : h[i] = step[i][h[i - 1]]
    BY <1>5 DEF States
  <2>2. \A i \in 1..L : i - 1 \in 0..L
    BY <1>1
  <2>3. \A i \in 1..L : h[i] = Op(h[i - 1], i)
    BY <2>1, <2>2
  <2>4. \A i \in 0..L : i = 0 \/ i \in 1..L
    BY <1>1
  <2>5. \A i \in 0..L : h[i] = F(h)[i]
    BY <2>1, <2>3, <2>4
  <2> QED
    BY <2>1, <2>5
<1>7. f = F(f)
  <2> HIDE DEF F
  <2> QED
    BY <1>6
<1> HIDE DEF f
<1>8. 0 \in 0..L /\ \A i \in 1..L : i \in 0..L /\ i # 0
  BY <1>1
<1>9. f[0] = t /\ \A i \in 1..L : f[i] = Op(f[i - 1], i)
  BY <1>7, <1>8
<1> QED
  BY <1>3, <1>9 DEF L, Op

\* The states of the loop of AddTable, and of the last one of MergeSymbolTable.
LEMMA AddAllStates ==
  ASSUME NEW t \in Tables, NEW symbols \in Seq(Symbols)
  PROVE  \E f : /\ AddAll(t, symbols) = f[Len(symbols)]
               /\ f[0] = t
               /\ \A i \in 1..Len(symbols) : f[i] = AddNew(f[i - 1], symbols[i])
<1> DEFINE L == Len(symbols)
           Op(x, i) == AddNew(x, symbols[i])
           S == Tables
           step == [i \in 1..L |-> [x \in S |-> Op(x, i)]]
           F(f) == [i \in 0..L |-> IF i = 0 THEN t ELSE Op(f[i - 1], i)]
           f == CHOOSE f : f = F(f)
<1>1. L \in Nat /\ t \in S
  OBVIOUS
<1>2. \A i \in 1..L : \A x \in S : Op(x, i) \in S
  <2>1. \A i \in 1..L : symbols[i] \in Symbols
    OBVIOUS
  <2>2. \A x \in Tables : x.available_key \in Int
    BY Fields
  <2> QED
    BY <2>1, <2>2, AddSymbolType DEF AddNew
<1>3. AddAll(t, symbols) = f[Len(symbols)]
  BY DEF AddAll
<1> HIDE DEF L, Op, S
<1>4. Rounds(S, L, step)
  BY <1>2 DEF Rounds
<1>5. PICK h : States(h, S, t, L, step)
  <2> HIDE DEF step
  <2> QED
    BY <1>1, <1>4, LoopStates
<1>6. h = F(h)
  <2>1. h \in [0..L -> S] /\ h[0] = t /\ \A i \in 1..L : h[i] = step[i][h[i - 1]]
    BY <1>5 DEF States
  <2>2. \A i \in 1..L : i - 1 \in 0..L
    BY <1>1
  <2>3. \A i \in 1..L : h[i] = Op(h[i - 1], i)
    BY <2>1, <2>2
  <2>4. \A i \in 0..L : i = 0 \/ i \in 1..L
    BY <1>1
  <2>5. \A i \in 0..L : h[i] = F(h)[i]
    BY <2>1, <2>3, <2>4
  <2> QED
    BY <2>1, <2>5
<1>7. f = F(f)
  <2> HIDE DEF F
  <2> QED
    BY <1>6
<1> HIDE DEF f
<1>8. 0 \in 0..L /\ \A i \in 1..L : i \in 0..L /\ i # 0
  BY <1>1
<1>9. f[0] = t /\ \A i \in 1..L : f[i] = Op(f[i - 1], i)
  BY <1>7, <1>8
<1> QED
  BY <1>3, <1>9 DEF L, Op
===============================================================================
