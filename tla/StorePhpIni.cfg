\* No scan directory: every block goes to the shared php.ini, kept line by line.
\* A command either builds from source with two workers, or tries prebuilts with
\* one; StoreUserTextLost has a command that does both.
SPECIFICATION TextFairSpec
CONSTANTS
  Ext <- MCExt
  Pkg <- MCPkg
  HasScanDir = FALSE
  HasPhpIni = TRUE
  UserEnables = {}
  EnableIni = TRUE
  Flags <- MCNotBoth
  Faults = {"php", "perm", "rm"}
  MaxSpecs = 2
  UserText <- MCUserText
  Torn = "apc"
  CutAt = {3}
  MaxText = 11
INVARIANTS
  TextAgrees
  UserTextKept
  NoStackedBlocksAlone
  ReportedStaysLoadedAlone
  DirectivesHaveModules
PROPERTY CommandEnds
