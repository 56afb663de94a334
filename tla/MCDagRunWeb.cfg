SPECIFICATION Spec
CONSTANTS
  Actions <- WActions
  Artifacts <- WArtifacts
  Kind <- WKind
  Consumes <- WConsumes
  Produces <- WProduces
  Path <- WPath
  Probes <- WProbes
  Pathsets <- WPathsets
  InitDisk <- WDisk
  InitBlob <- WBlob
  Tree = {"tree"}
  Cached = {"t", "p"}
  Faulty = {}
  Cancellable = FALSE
INVARIANTS NotTwice NotLost StallIsCycle
PROPERTIES UsesExecutor
