\* One extension, from two releases with different priorities.
SPECIFICATION Spec
CONSTANTS
  Ext <- MCPeclExt
  Pkg <- MCTwoPriorities
  HasScanDir = TRUE
  HasPhpIni = TRUE
  UserEnables = {}
  EnableIni = TRUE
  Flags <- MCSequential
  Faults = {}
  MaxSpecs = 1
INVARIANT DirectivesHaveModules
