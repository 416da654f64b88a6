CONSTANTS
    Kinds <- MCKinds
    Basic <- MCBasic
    MaxSize = 6
SPECIFICATION Spec
INVARIANTS SemiringLaws WeightsKept
