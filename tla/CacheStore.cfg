CONSTANTS
  NumIds = 3
  Arcs = {e}
  EpsArcs = {e}
  Weights = {zero}
  Zero = zero
  Null = Null
  Gc = TRUE
  GcLimit = 0
  MinCacheLimit = 8
  SizeofState = 2
  SizeofArc = 1
  SizeMod = 64
  MaxArcs = 2
  MaxRefs = 1
  MaxExcess = 0
SPECIFICATION StoreSpec
INVARIANTS ListMatchesVector BookKeeping WithinLimit
PROPERTIES PinnedSurvives GCTerminates
