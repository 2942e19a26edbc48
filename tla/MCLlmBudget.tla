------------------------------ MODULE MCLlmBudget ------------------------------
(* LlmBudget for TLC: two callers, two slots a minute, days of three ticks. *)
EXTENDS LlmBudget
=============================================================================
