SPECIFICATION FairSpec
CONSTANTS
  a = a  b = b  c = c  d = d  f = f  g = g  w1 = w1  w2 = w2  r = r
  Own = {a}
  Foreign = {f}
  Bad = {}
  Oversize = {}
  Dep <- DepPairs
  MaxRestores = 1
  Workers = {w1}
  Readers = {r}
  None = None
  ChunkSize = 2
  PageSize = 1
  Attempts = 2
  MaxFaults = 1

PROPERTIES EpochSettles
