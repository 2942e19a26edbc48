-------------------------------- MODULE Mutex --------------------------------
(***************************************************************************)
(* What a fair mutual-exclusion lock promises callers numbered in the order *)
(* in which they asked: one holder at a time, and never a caller after one  *)
(* that asked later.  SessionLock implements it.                            *)
(***************************************************************************)
EXTENDS Integers

CONSTANT Caller

VARIABLES holders,  \* who holds the lock
          past      \* who has held it, the holder included

XInit == holders = {} /\ past = {}

Grant(i) == /\ holders = {}
            /\ \A j \in past : j < i
            /\ holders' = {i}
            /\ past' = past \cup {i}

Free == /\ holders # {}
        /\ holders' = {}
        /\ UNCHANGED past

XSpec == XInit /\ [][Free \/ \E i \in Caller : Grant(i)]_<<holders, past>>
=============================================================================
