SPECIFICATION Spec
CONSTANT Tasks <- NondetTasks
CONSTANT Operands <- MCOperands
CONSTANT RationalOperands <- MCRationalOperands
CONSTANT MaxSteps = 2
INVARIANT MinimizeKeepsRelation
CHECK_DEADLOCK FALSE
