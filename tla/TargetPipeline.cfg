\* Every policy, mode and kind of build, every answer of cache and origins,
\* and a failure of any stage.
SPECIFICATION FairSpec
CONSTANTS
  Methods <- MCMethods
  Policies <- PolicyNames
  Modes <- ModeNames
  Attesting = {TRUE, FALSE}
INVARIANTS
  TypeOK
  PolicyHolds
  NoTempFilesLeft
PROPERTY TargetEnds
