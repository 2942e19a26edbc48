----------------------------- MODULE MCWorkQueue -----------------------------
(* The instance of WorkQueue that TLC checks: the queue of either kind. *)
EXTENDS WorkQueue

BothKinds == {DetailPolicy, ParsePolicy}
=============================================================================
