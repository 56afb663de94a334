SPECIFICATION Spec
CONSTANTS
  Actions <- IActions
  Artifacts <- IArtifacts
  Kind <- IKind
  Consumes <- IConsumes
  Produces <- IProduces
  Path <- IPath
  Probes <- IProbes
  Pathsets <- IPathsets
  InitDisk <- IDisk
  InitBlob <- IBlob
  Tree = {"tree"}
  Cached = {"inc"}
  Faulty = {}
  Cancellable = FALSE
PROPERTIES TrueFacts
