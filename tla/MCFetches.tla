----------------------------- MODULE MCFetches ------------------------------
(* An instance of Fetches for TLC: two calls of a batch and one with         *)
(* priority, all constants in fetches.cfg.                                   *)
EXTENDS FetchesProperties
=============================================================================
