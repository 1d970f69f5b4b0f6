SPECIFICATION Spec
CONSTANTS
  a = a  b = b  c = c  d = d  f = f  g = g  w1 = w1  w2 = w2  r = r
  Own = {a, b, c, d}
  Foreign = {f, g}
  Bad = {c}
  Oversize = {d}
  Dep <- DepPairs
  MaxRestores = 1
  Workers = {w1, w2}
  Readers = {}
  None = None
  ChunkSize = 2
  PageSize = 1
  Attempts = 2
  MaxFaults = 2
CONSTRAINT OneSubject
INVARIANTS CausalLog CursorCoverage
