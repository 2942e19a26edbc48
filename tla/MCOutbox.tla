------------------------------- MODULE MCOutbox -------------------------------
(* Outbox for TLC: which destinations an operator sets. *)
EXTENDS Outbox

CONSTANTS f1, f2, d1, d2

Chats == {{d1}, {d2}, {d1, d2}}

(* Bound: the second listing comes only where there is no second            *)
(* destination.  This cuts off patches and captures, which no fairness      *)
(* owes.                                                                    *)
OneOfEither ==
    2 \in known => dests = {d1} /\ \A l \in Listing : delivery[<<l, d2>>] = "none"
===============================================================================
