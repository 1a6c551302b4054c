\* The default policy, and two methods: the archive of the first has another
\* checksum than the published one, that of the second has none.
SPECIFICATION Spec
CONSTANTS
  Methods <- MCMethods
  Policies = {"warn"}
  Modes = {"install"}
  Attesting = {TRUE}
INVARIANT MismatchIsFatal
