\* Two workers rewrite the shared php.ini after failed prebuilts.
SPECIFICATION TextSpec
CONSTANTS
  Ext <- MCExt
  Pkg <- MCPkg
  HasScanDir = FALSE
  HasPhpIni = TRUE
  UserEnables = {}
  EnableIni = TRUE
  Flags <- MCBoth
  Faults = {}
  MaxSpecs = 1
  UserText <- MCShortText
  Torn = "apc"
  CutAt = {}
  MaxText = 5
INVARIANT UserTextKept
