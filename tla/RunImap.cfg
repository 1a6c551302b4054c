\* imap on Debian: the pattern names a package that is build-only as well.
SPECIFICATION Spec
CONSTANTS
  Requests <- MCImap
  Images <- MCDebian
  Flags <- MCWanted
  Matches <- MCMatches
  Depends <- MCDepends
  Faults = {}
INVARIANT RuntimeLibrariesKept
