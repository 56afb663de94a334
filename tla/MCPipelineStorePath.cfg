CONSTANTS
  Worlds <- StoreWorlds
  Ties <- MCTies
  MaxResolves = 4
SPECIFICATION Spec
CHECK_DEADLOCK FALSE
INVARIANT StorePaths
