-------------------------- MODULE MCCapturePipeline --------------------------
(* CapturePipeline for TLC: adverts as model values. *)
EXTENDS CapturePipeline

CONSTANTS a1, a2

OneChanges == [a \in Advert |-> IF a = a1 THEN MaxEdits ELSE 0]
=============================================================================
