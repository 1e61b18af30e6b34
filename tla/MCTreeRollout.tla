--------------------------- MODULE MCTreeRollout ---------------------------
(***************************************************************************)
(* Small instances of TreeRollout.  An environment is worth the quality of *)
(* the agent's last evaluated output; a step may set agent_reward to 1.    *)
(***************************************************************************)
EXTENDS TreeRollout

MCScore(e, a) == e.work[a].q
MCPays == {1}

=============================================================================
