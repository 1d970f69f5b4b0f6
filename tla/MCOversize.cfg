SPECIFICATION FairSpec
CONSTANTS
  a = a  b = b  c = c  d = d  f = f  g = g  w1 = w1  w2 = w2  r = r
  Own = {a, b}
  Foreign = {f}
  Bad = {}
  Oversize = {a}
  Dep <- DepPairs
  MaxRestores = 0
  Workers = {w1}
  Readers = {r}
  None = None
  ChunkSize = 2
  PageSize = 1
  Attempts = 2
  MaxFaults = 0

PROPERTIES Converges
