------------------------------ MODULE MCWeights ------------------------------
(***************************************************************************)
(* The weight classes and operands of the run: one kind for every class    *)
(* and variant, with Zero, One and weights that make two operands equal,   *)
(* ordered, tied or incomparable.                                          *)
(***************************************************************************)
EXTENDS Weights

Of(name) == [weight |-> name]
StringOf(type) == [weight |-> "string", type |-> type]
SetOf(type) == [weight |-> "set", type |-> type]
PairOf(name, first, second) == [weight |-> name, first |-> first, second |-> second]
GallicOf(type) ==
    [weight |-> "gallic", type |-> type,
     first |-> StringOf(IF type = "min" THEN "restrict" ELSE type),
     second |-> Of("tropical")]
SparseOf(name) == [weight |-> "sparse", of |-> Of(name)]

MCKinds ==
    {Of(name) : name \in {"tropical", "minmax", "real", "log", "signed_log"}}
    \cup {StringOf(type) : type \in {"left", "right", "restrict"}}
    \cup {SetOf(type) : type \in {"intersect_union", "union_intersect",
                                  "restrict", "boolean"}}
    \cup {GallicOf(type) : type \in {"left", "right", "restrict", "min"}}
    \cup {[weight |-> "union", of |-> GallicOf("restrict")],
          [weight |-> "power", of |-> Of("tropical"), n |-> 2],
          SparseOf("tropical"), SparseOf("real"),
          PairOf("product", Of("tropical"), Of("signed_log")),
          PairOf("lexicographic", Of("tropical"), Of("tropical")),
          PairOf("expectation", Of("real"), Of("real")),
          PairOf("expectation", Of("real"), SparseOf("real"))}

Strings == {<<>>, <<1>>, <<2>>, <<1, 2>>}

SparseWeights(k) ==
    {Sparse(Zero(k), <<[key |-> 0, value |-> 2]>>),
     Sparse(Zero(k), <<[key |-> 0, value |-> 1], [key |-> 1, value |-> 2]>>),
     Sparse(One(k), <<[key |-> 1, value |-> 2]>>)}

Others(k) ==
    CASE k.weight = "tropical" -> {1, 2, -1}
      [] k.weight = "minmax" -> {-1, 0, 2}
      [] k.weight = "real" -> {2, -1}
      [] k.weight = "log" -> {2, 3}
      [] k.weight = "signed_log" -> {Signed(-1, 1), Signed(1, 2), Signed(-1, 0)}
      [] k.weight = "string" -> Strings
      [] k.weight = "set" -> {<<1>>, <<2>>, <<1, 2>>, <<2, 3>>}
      [] k.weight = "gallic" -> [v1 : {<<1>>, <<1, 2>>}, v2 : {0, 1}]
      [] k.weight = "union" ->
             {<<[v1 |-> <<1>>, v2 |-> 1]>>,
              <<[v1 |-> <<>>, v2 |-> 1], [v1 |-> <<2>>, v2 |-> 0]>>,
              <<[v1 |-> <<1>>, v2 |-> 0], [v1 |-> <<2>>, v2 |-> 1]>>}
      [] k.weight = "power" -> {<<1, 2>>, <<Inf, 0>>}
      [] k.weight = "sparse" -> SparseWeights(k.of)
      [] k.weight = "product" -> [v1 : {1}, v2 : {Signed(-1, 1), Signed(1, 2)}]
      [] k.weight = "lexicographic" -> [v1 : {0, 1}, v2 : {0, 1}]
      [] k.weight = "expectation" ->
             [v1 : {1, 2}, v2 : IF k.second.weight = "real" THEN {1, -1}
                                ELSE SparseWeights(k.second.of)]

MCBasic == [k \in MCKinds |-> {Zero(k), One(k)} \cup Others(k)]
=============================================================================
