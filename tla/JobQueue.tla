------------------------------ MODULE JobQueue ------------------------------
(***************************************************************************)
(* What a durable work queue with one executor promises its callers, with   *)
(* no leases, counters, clocks or retry policy: WorkQueue implements it.    *)
(*                                                                         *)
(*   - a job runs only after it was submitted, and one at a time;           *)
(*   - only the executor that runs a job makes it succeed or fail;          *)
(*   - others may withdraw an open job, and a withdrawn, succeeded or       *)
(*     failed job stays that way until it is submitted again, whatever an   *)
(*     executor that began before says;                                     *)
(*   - an execution may be lost, and its job is then open to a new one.     *)
(***************************************************************************)
CONSTANTS Job, NoJob

VARIABLES jobs,      \* the state of every job
          executing  \* the job the executor is on, or NoJob

jvars == <<jobs, executing>>

Open == {"waiting", "started"}
Closed == {"succeeded", "failed", "withdrawn"}

JInit == /\ jobs = [j \in Job |-> "none"]
         /\ executing = NoJob

Submit(j) == /\ jobs' = [jobs EXCEPT ![j] = "waiting"]
             /\ UNCHANGED executing

Begin(j) == /\ executing = NoJob
            /\ jobs[j] \in Open
            /\ jobs' = [jobs EXCEPT ![j] = "started"]
            /\ executing' = j

(* The executor is done with j and says how it went; a job withdrawn in the *)
(* meantime stays withdrawn.                                                *)
End(j) == /\ executing = j
          /\ \E s \in {"waiting"} \cup Closed :
                jobs' = IF jobs[j] = "withdrawn"
                        THEN jobs
                        ELSE [jobs EXCEPT ![j] = s]
          /\ executing' = NoJob

Withdraw(j) == /\ jobs[j] \in Open
               /\ jobs' = [jobs EXCEPT ![j] = "withdrawn"]
               /\ UNCHANGED executing

Lose == /\ executing # NoJob
        /\ executing' = NoJob
        /\ UNCHANGED jobs

JNext == \/ \E j \in Job : Submit(j) \/ Begin(j) \/ End(j) \/ Withdraw(j)
         \/ Lose

JSpec == JInit /\ [][JNext]_jvars
=============================================================================
