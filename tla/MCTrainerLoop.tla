--------------------------- MODULE MCTrainerLoop ---------------------------
(***************************************************************************)
(* Small instances of TrainerLoop: two fully trained models, or one.       *)
(***************************************************************************)
EXTENDS TrainerLoop

MCTwoModels == {"coder", "tester"}
MCEachModel == <<"coder", "tester">>
MCOneModel  == {"shared"}
MCOneJob    == <<"shared">>

=============================================================================
