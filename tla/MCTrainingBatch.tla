-------------------------- MODULE MCTrainingBatch --------------------------
(***************************************************************************)
(* Small instances of TrainingBatch: see the .cfg files.                   *)
(***************************************************************************)
EXTENDS TrainingBatch

AllMethods == {"dapo", "std", "mean", "uid"}

=============================================================================
