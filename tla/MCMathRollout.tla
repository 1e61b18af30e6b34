--------------------------- MODULE MCMathRollout ---------------------------
(* Two forms of the right answer, of which verify accepts one as gold for  *)
(* the other only, and a wrong one.                                        *)
EXTENDS MathRollout

MCAnswers == {"right", "rewritten", "wrong", "nothing"}
MCEqual == {<<"right", "right">>, <<"rewritten", "rewritten">>, <<"wrong", "wrong">>,
            <<"rewritten", "right">>}
=============================================================================
