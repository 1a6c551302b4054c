\* A release whose requirements are left out because they repeat those before it.
SPECIFICATION Spec
CONSTANTS
  MaxPart = 99
  Scenarios <- MCScenarios
  Listings <- MCListings
  LoadedLists <- MCLoadedLists
  OsFamily = "linux"
INVARIANT PublishedRequirementsMet
