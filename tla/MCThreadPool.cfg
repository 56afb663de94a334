SPECIFICATION Spec
CONSTANTS
  w1 = w1
  w2 = w2
  j1 = j1
  j2 = j2
  j3 = j3
  Client = client
  NoJob = none
  Workers <- TwoWorkers
  Jobs <- ThreeJobs
  MaxSubmits = 4
INVARIANTS WorkConserving AssertsHold
PROPERTIES CallsReturn IsSafeExecutor
