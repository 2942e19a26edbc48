----------------------------- MODULE MCDiscovery -----------------------------
(* Discovery for TLC: one search of one portal in one market. *)
EXTENDS Discovery
=============================================================================
