------------------------------- MODULE MCRules -------------------------------
(* Instances of the durable rules between overlapping processes for TLC. *)
EXTENDS MCRuns, RuleWindow
=============================================================================
