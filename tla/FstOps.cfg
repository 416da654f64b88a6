SPECIFICATION MCSpec
CONSTANTS
    ArcKinds <- Kinds
    FinalWeights = {"Zero", "Other"}
    Masks <- AllMask
    MaxStates = 2
    MaxArcs = 2
    Mappers <- AllMappers
    Operands <- MCOperands
    OpArcKinds <- OpKinds
    OpFinalWeights = {"One"}
    MaxOpArcs = 1
INVARIANT VectorTypeOK
INVARIANT AnswersTrue
INVARIANT PropsSound
INVARIANT ErrorPropagates
