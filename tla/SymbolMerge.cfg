CONSTANTS
  a = a
  b = b
  c = c
  o1 = o1
  o2 = o2
  Objects = {o1, o2}
  Symbols = {a, b, c}
  Hash <- MCHash
  Keys <- MCKeys
  NumBuckets = 4
  MaxKey = 1
  MaxSymbols = 3
  MaxBoth = 2
  MaxSummed = 1
  NoString = NoString
  None = None
SPECIFICATION Spec


PROPERTIES RelabelReported
