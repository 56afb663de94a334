SPECIFICATION Spec
CONSTANTS
  h1 = h1
  h2 = h2
  n1 = n1
  n2 = n2
  n3 = n3
  Null = null
  Hosts <- TwoHosts
  Nodes <- ThreeNodes
  MaxPushes = 3
INVARIANTS NoSleepOnWork
PROPERTIES IsFifo WakeUnblocks
