\* Scan directory, parallel install, every fault.
SPECIFICATION ScanSpec
CONSTANTS
  Ext <- MCExt
  Pkg <- MCPkg
  HasScanDir = TRUE
  HasPhpIni = TRUE
  UserEnables = {"redis"}
  EnableIni = TRUE
  Flags <- MCParallel
  Faults = {"php", "perm", "enospc", "rm", "kill"}
  MaxSpecs = 1
INVARIANTS
  TypeOK
  DirectivesHaveModules
  ReportedStaysLoaded
PROPERTY ImplementsRegistry
