CONSTANTS
  a01 = a01
  e02 = e02
  a12 = a12
  a13 = a13
  e10 = e10
  f0 = f0
  f1 = f1
  NumIds = 4
  Arcs = {a01, e02, a13}
  EpsArcs = {e02}
  Weights = {f0, f1}
  Zero = f0
  Null = Null
  Gc = FALSE
  GcLimit = 7
  MinCacheLimit = 6
  SizeofState = 2
  SizeofArc = 1
  SizeMod = 64
  MaxArcs = 2
  MaxRefs = 0
  MaxExcess = 0
  RefStart = 0
  RefArcs <- HiddenArcs
  RefFinal <- FanFinal
  NextState <- HiddenNext
  Iters = {}
  StateIter = si
SPECIFICATION DelayedSpec

PROPERTIES IterationComplete
