\* From the command line to a resolved package: seven machines, every operator.
SPECIFICATION FairSpec
CONSTANTS
  MaxPart = 99
  Scenarios <- MCScenarios
  Listings <- MCListings
  LoadedLists <- MCLoadedLists
  OsFamily = "linux"
INVARIANTS
  TypeOK
  TargetIsNewest
  ToolsFitTarget
  ConstraintMeansInterval
  NewestStableOfInterval
  AcceptedFitsTarget
PROPERTY RequestSettles
