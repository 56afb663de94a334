SPECIFICATION Spec
CONSTANTS
  Hosts <- MCHosts
  HostSdks <- MCSdks
  Decls <- MCDecls
  Names <- MCNames
  Declared <- MCDeclared
  Overrides <- MCOverrides
  Refs = {"", "gcc", "nope"}
  Works <- MCWorks
  Members <- MCMembers
  Manifests <- MCManifests
  PatchFiles = {"f"}
  Lines <- MCLines
  MaxLines = 3
  AddNames <- MCAddNames
  Releases <- MCReleases
  Ranges <- MCRanges
  Adds = 1
  Chars = {"q", "b", "nl", "a"}
  MaxChars = 4
  Base = 3
  Texts <- MCTexts
  Resolves <- MCResolves
  Headers <- MCHeaders
  MaxPath = 3
  Words <- MCWords
  Homes <- MCHomes
  Customs = {"bashrc", "other"}
  Surroundings <- MCSurroundings
  MaxInstalls = 2
INVARIANTS ProfileSound CommandsAgree LowerSound EditsSound VersionsSound TextSound InstallSound
CHECK_DEADLOCK FALSE
