\* Three concurrent lookups in a registry that wants a token, with every
\* failure of a request or of a token exchange, while a repository is published
\* to by two runs of the workflow.
SPECIFICATION PubFairSpec
CONSTANTS
  Lookup <- MCLookup
  Repo <- MCRepo
  Wanted <- MCWanted
  Cell <- MCCell
  Indexes <- MCIndexes
  Anonymous = FALSE
  Insecure = FALSE
  Matrix <- MCMatrix
  Bases = {1, 2}
  MaxRuns = 2
INVARIANTS
  PubTypeOK
  HitIsForCell
  HitFitsMachine
  TokenFetchedOnce
  BuiltIsServed
PROPERTY LookupsEnd
