---------------------------- MODULE MCMatchCache ----------------------------
(* MatchCache alone, for the run that a correction does not survive.         *)
EXTENDS MatchCache
=============================================================================
