\* A lib-zip package the cache offers, on an image without a compiler.
SPECIFICATION Spec
CONSTANTS
  Requests <- MCLibZip
  Images <- MCAlpine
  Flags <- MCPreferPrebuilt
  Matches <- MCMatches
  Depends <- MCDepends
  Faults = {}
INVARIANT NothingUnbuildable
