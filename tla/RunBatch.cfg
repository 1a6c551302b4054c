\* A batch of bundled and third-party extensions on Debian and on Alpine, with
\* every kind of failure.
SPECIFICATION FairSpec
CONSTANTS
  Requests <- MCRequests
  Images <- MCImages
  Flags <- MCFlags
  Matches <- BatchMatches
  Depends <- MCDepends
  Faults = {"search", "resolve", "prebuilt", "build", "pm", "cancel"}
INVARIANTS
  TypeOK
  ImageKept
  RuntimeLibrariesKept
  MissesAreBuildable
  FailuresAreReported
PROPERTIES
  KeepsSchedule
  RunEnds
