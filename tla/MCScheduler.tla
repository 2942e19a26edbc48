----------------------------- MODULE MCScheduler -----------------------------
(* Scheduler for TLC: two jobs in one market that share a portal. *)
EXTENDS Scheduler

CONSTANTS a, b, x, y, z

MCOrder == <<<<a, x>>, <<a, y>>, <<b, x>>, <<b, z>>>>
MCOffset == [p \in Pair |-> IF p = <<a, y>> THEN 1 ELSE 0]
MCHours == [j \in {a, b} |-> IF j = a THEN 0 .. Day - 1 ELSE 2 .. Day - 1]
MCMarket == [j \in {a, b} |-> "m"]
MCSearches == [p \in Pair |-> IF p = <<a, x>> THEN 2 ELSE 1]
=============================================================================
