--------------------------- MODULE MCInstallBatch ---------------------------
(* The instance of RunBatch is one the theorems about catalogs speak of.    *)
EXTENDS MCInstallRun

ASSUME BatchIsListed == RuntimeIsPersistent /\ HeadersAreListed
=============================================================================
