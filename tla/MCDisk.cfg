SPECIFICATION Spec
CONSTANTS
  Threads <- MCThreads
  Ids <- MCIds
  HeadRev = "r1"
  Later = {"r2"}
  Dirs <- MCDirs
  Users = {"u1", "u2", "u3"}
  Mirror = {"u1"}
  Builds = {"b1", "b2"}
  Keys = {"a"}
  Inodes = {1, 2, 3, 4, 5, 6, 7, 8}
  MaxRuns = 3
  MaxFaults = 2
  Machines = {"m1", "m2"}
  Versions = {"v1", "v2"}
  MaxPublish = 2
  Pinnings = {{}, {"m2"}}
  MaxSlips = 1
  Exes = {"x1", "x2"}
  Libs = {"l1"}
  MaxBuilds = 3
  MaxDigest = 1
INVARIANTS TreesWhole StoreTrue PublishedOnce StagedListed
CHECK_DEADLOCK FALSE
