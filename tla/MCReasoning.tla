---------------------------- MODULE MCReasoning ----------------------------
(* Reasoning.tla for TLC; reason_turn.cfg gives the bounds. *)
EXTENDS Reasoning
=============================================================================
