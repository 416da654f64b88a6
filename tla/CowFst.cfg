SPECIFICATION Spec
CONSTANTS
    Handles = {h1, h2}
    Impls = {i1, i2, i3}
    Values = {empty, loop}
    Empty = empty
    Facts = {acyclic}
    empty = empty
    loop = loop
    acyclic = acyclic
    None = None
    Truth <- MCTruth
    IterAcrossCopy = FALSE
SYMMETRY Symmetry
INVARIANT CowTypeOK
INVARIANT BitsSound
PROPERTY ImplementsValues
