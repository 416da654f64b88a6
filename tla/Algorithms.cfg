SPECIFICATION Spec
CONSTANT Tasks <- MCTasks
CONSTANT Operands <- MCOperands
CONSTANT RationalOperands <- MCRationalOperands
CONSTANT MaxSteps = 2
INVARIANT CompositionExact
INVARIANT BestPathsRight
INVARIANT NormalFormsExact
INVARIANT RationalOpsCorrect
INVARIANT RewritesCorrect
INVARIANT ReplacementExact
CHECK_DEADLOCK FALSE
