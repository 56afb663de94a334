SPECIFICATION Spec
CONSTANTS
  Actions <- HActions
  Artifacts <- HArtifacts
  Kind <- HKind
  Consumes <- HConsumes
  Produces <- HProduces
  Path <- HPath
  Probes <- HProbes
  Pathsets <- HPathsets
  InitDisk <- HDisk
  InitBlob <- HBlob
  Tree = {}
  Cached = {"gen", "cc"}
  Faulty = {"cc"}
  Cancellable = TRUE
INVARIANTS CountersExact FreshCommits ScratchDiscarded
PROPERTIES TrueFacts FinishedStays ErrorDrains Terminates
