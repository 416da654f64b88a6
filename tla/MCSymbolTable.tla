--------------------------- MODULE MCSymbolTable ---------------------------
EXTENDS SymbolTable

CONSTANTS a, b, c, o1, o2

\* In four buckets a and b collide and b wraps around; in eight they still do.
MCHash == (a :> 3) @@ (b :> 3) @@ (c :> 0)

\* A negative key, and one that is dense or sparse, as the order has it.
MCKeys == {-2, 0}
=============================================================================
