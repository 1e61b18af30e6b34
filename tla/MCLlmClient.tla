---------------------------- MODULE MCLlmClient ----------------------------
(***************************************************************************)
(* Small instances of LlmClient: three requests compete for two permits,   *)
(* over two event loops.                                                   *)
(***************************************************************************)
EXTENDS LlmClient

=============================================================================
