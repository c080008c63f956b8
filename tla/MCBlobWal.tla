------------------------------ MODULE MCBlobWal ------------------------------
(***************************************************************************)
(* The instance of BlobWal that TLC checks.  Writers are not symmetric:    *)
(* the run has a liveness property.                                        *)
(***************************************************************************)
EXTENDS BlobWal
=============================================================================
