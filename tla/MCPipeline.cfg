CONSTANTS
  Worlds <- MCWorlds
  Ties <- MCTies
  MaxResolves = 4
SPECIFICATION Spec
CHECK_DEADLOCK FALSE
INVARIANTS Sound GatesSettled UnitsComplete LinkSound GraphSound
PROPERTY ReentryAddsNothing
