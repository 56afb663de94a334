SPECIFICATION Spec
CONSTANTS
  t1 = t1
  t2 = t2
  a = a
  b = b
  NoDigest = none
  Paths <- OnePath
  Contents <- TwoContents
  Threads <- TwoThreads
  FirstId <- Numbers
  FreeId = 1
  MaxClock = 2
  MaxInodes = 3
SYMMETRY Sym
INVARIANTS RecordsTrue DigestsSeen
