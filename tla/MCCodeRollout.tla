--------------------------- MODULE MCCodeRollout ---------------------------
(***************************************************************************)
(* Small instances of CodeRollout: a right and a half right program, a     *)
(* suite only the half right one passes and one both pass.                 *)
(***************************************************************************)
EXTENDS CodeRollout

MCScore == [c \in AllCodes |-> CASE c = "right" -> 2 [] c = "half" -> 1 [] OTHER -> 0]
MCAgree == {<<"half", "biased">>, <<"half", "fair">>, <<"right", "fair">>}

=============================================================================
