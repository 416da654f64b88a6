CONSTANTS
  a01 = a01
  e02 = e02
  a12 = a12
  a13 = a13
  e10 = e10
  f0 = f0
  f1 = f1
  NumIds = 2
  Arcs = {a01, e10}
  EpsArcs = {e10}
  Weights = {f0, f1}
  Zero = f0
  Null = Null
  Gc = TRUE
  GcLimit = 0
  MinCacheLimit = 5
  SizeofState = 2
  SizeofArc = 1
  SizeMod = 64
  MaxArcs = 2
  MaxRefs = 0
  MaxExcess = 0
  RefStart = 0
  RefArcs <- LoopArcs
  RefFinal <- LoopFinal
  NextState <- LoopNext
  Iters = {i1, i2}
  StateIter = si
SPECIFICATION DelayedSpec
INVARIANTS FirstSlotExclusive NoAlias
PROPERTIES ImplementsPlain IterationComplete IterationEnds
