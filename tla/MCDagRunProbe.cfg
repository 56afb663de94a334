SPECIFICATION Spec
CONSTANTS
  Actions <- PActions
  Artifacts <- PArtifacts
  Kind <- PKind
  Consumes <- PConsumes
  Produces <- PProduces
  Path <- PPath
  Probes <- PProbes
  Pathsets <- PPathsets
  InitDisk <- PDisk
  InitBlob <- PBlob
  Tree = {}
  Cached = {"gen"}
  Faulty = {}
  Cancellable = FALSE
PROPERTIES TrueFacts
