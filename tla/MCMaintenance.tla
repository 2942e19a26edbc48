---- MODULE MCMaintenance ----
(* Maintenance for TLC: two captures share a picture; two requests share a  *)
(* part, and an observation has a body of its own.  Pictures and records    *)
(* meet only in the pass, so a behaviour has one or the other.              *)
EXTENDS Maintenance, TLC

CONSTANTS c1, c2, p1, r1, r2, o1, m1, m2, s, t1, b1

MCPictureOf == [c \in Capture |-> p1]
MCParts == m1 :> {s, t1} @@ m2 :> {s}
MCSeen == o1 :> b1
MCWorkloads == {[captures |-> Capture, records |-> {}],
                [captures |-> {}, records |-> Call \cup Observation]}
====
