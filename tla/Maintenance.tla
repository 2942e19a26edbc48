----------------------------- MODULE Maintenance -----------------------------
(***************************************************************************)
(* Maintenance beside the work that fills the store.  A pass removes old    *)
(* records and bodies in batches, yielding after each transaction, and then *)
(* sweeps the pictures without yielding.  It may be aborted where it        *)
(* yields, and the process may die anywhere.  A pass is one item of work,   *)
(* tried once; the next one is enqueued for the next period.                *)
(***************************************************************************)
EXTENDS MediaStore, AuditPayloads

CONSTANTS
    Workloads,   \* the captures and records a behaviour may have
    MaxFaults    \* aborted passes and crashes of a behaviour

ASSUME MaintenanceAssumption ==
    /\ MaxFaults \in Nat
    /\ \A w \in Workloads : w.captures \subseteq Capture /\ w.records \subseteq Call \cup Observation

VARIABLES
    workload,   \* what there is to do; never changes
    pass,       \* the pass under way
    due,        \* whether an item of maintenance waits
    faults      \* counts to MaxFaults

vars == <<files, rows, getting, bodies, edges, records, workload, pass, due, faults>>

NoPass == [at |-> "no", elapsed |-> 0, drained |-> FALSE]

TypeOK ==
    /\ FileTypeOK
    /\ AuditTypeOK
    /\ workload \in Workloads
    /\ pass \in [at : {"no", "retains", "sweeps"}, elapsed : 0 .. MaxElapsed, drained : BOOLEAN]
    /\ due \in BOOLEAN
    /\ faults \in 0 .. MaxFaults

Init ==
    /\ FilesInit
    /\ AuditInit
    /\ workload \in Workloads
    /\ pass = NoPass
    /\ due = TRUE
    /\ faults = 0
-----------------------------------------------------------------------------
Captures ==
    /\ \E c \in workload.captures :
          Downloads(c) \/ DownloadFails(c) \/ Touches(c) \/ StoresCapture(c) \/ DropsCapture(c)
    /\ UNCHANGED <<auditVars, workload, pass, due, faults>>

Audits ==
    /\ \/ \E r \in workload.records \cap Call, m \in Request : BeginsCall(r, m)
       \/ \E o \in workload.records \cap Observation : Observes(o)
    /\ UNCHANGED <<mediaVars, workload, pass, due, faults>>

(* The worker takes the item. *)
Begins ==
    /\ due
    /\ pass.at = "no"
    /\ pass' = [NoPass EXCEPT !.at = "retains"]
    /\ due' = FALSE
    /\ UNCHANGED <<mediaVars, auditVars, workload, faults>>

(* A batch that changed nothing is the last. *)
Retains ==
    /\ pass.at = "retains"
    /\ \E old \in SUBSET Old(pass.elapsed), gone \in SUBSET Expired(pass.elapsed) :
          /\ RemovesBatch(pass.elapsed, pass.drained, old, gone)
          /\ pass' = [pass EXCEPT !.drained = @ \/ IsDrained(old),
                                  !.at = IF old \cup gone = {} THEN "sweeps" ELSE "retains"]
    /\ UNCHANGED <<mediaVars, workload, due, faults>>

Sweeps ==
    /\ pass.at = "sweeps"
    /\ SweepsFiles
    /\ pass' = NoPass
    /\ UNCHANGED <<auditVars, workload, due, faults>>

Aborts ==
    /\ pass.at # "no"
    /\ faults < MaxFaults
    /\ faults' = faults + 1
    /\ pass' = NoPass
    /\ UNCHANGED <<mediaVars, auditVars, workload, due>>

(* The item of a pass that was under way is not tried again. *)
Crashes ==
    /\ faults < MaxFaults
    /\ faults' = faults + 1
    /\ FilesSurvive \/ (pass.at = "sweeps" /\ SweepIsCut)
    /\ pass' = NoPass
    /\ UNCHANGED <<auditVars, workload, due>>

Tick ==
    /\ CapturesInTime
    /\ pass.at # "no" => pass.elapsed < MaxElapsed
    /\ FilesAge
    /\ AuditAges
    /\ pass' = [pass EXCEPT !.elapsed = IF pass.at = "no" THEN 0 ELSE @ + 1]
    /\ due' = TRUE
    /\ UNCHANGED <<workload, faults>>

Maintains == Begins \/ Retains \/ Sweeps

Next == Captures \/ Audits \/ Maintains \/ Aborts \/ Crashes \/ Tick

Spec == Init /\ [][Next]_vars

(* The timer of the process, the worker's loop and the deadlines of the     *)
(* captures go on; what is captured and asked does not have to.             *)
Fairness ==
    /\ WF_vars(Maintains)
    /\ WF_vars(Tick)
    /\ WF_vars(Captures /\ \E c \in Capture : getting[c] # "no" /\ getting'[c] # getting[c])

FairSpec == Spec /\ Fairness
-----------------------------------------------------------------------------
(* A stored reference leads to a file: a step that loses one is a crash of  *)
(* the process between the removal of the file and the update of its rows   *)
(* (databaseCleanup.js:186-199), never a capture that meets the cleaning    *)
(* between its download and its transaction.                                *)
OnlyACrashLosesFiles == [][faults' = faults => Dangling' \subseteq Dangling]_vars

(* What a crash left is found: a stored reference without its file is       *)
(* marked by a later pass (reconcileMissingImages).                         *)
LossesAreFound == \A c \in Capture : c \in Dangling ~> c \notin Dangling

(* The picture of a capture under way is there until its transaction: the   *)
(* cleaning takes no file that is newly written or touched.                 *)
CaptureFindsItsFile == \A c \in Capture : getting[c] = "have" => PictureOf[c] \in DOMAIN files

(* A picture is kept while any of the captures that share it is retained    *)
(* (FREDY_MEDIA_RETENTION_DAYS).                                            *)
RetainedIsKept ==
    [][\A c \in DOMAIN rows :
          rows[c].left > 0 /\ rows[c].status = "stored" /\ rows'[c].status # "stored"
             => c \in Dangling]_vars

(* The store does not grow for ever: a picture that no capture brings any   *)
(* more is removed, whatever became of its rows.                            *)
PicturesGo ==
    \A p \in Picture :
        (<>[](\A c \in Capture : getting[c] # "no" => PictureOf[c] # p)) => <>[](p \notin DOMAIN files)

(* A record younger than the retention can be read back with its body, and  *)
(* a call's with every part that the body names, though other calls share   *)
(* the parts and they expire before their manifest.                         *)
YoungRecordsAreWhole == \A r \in DOMAIN records : records[r].age < Days => Readable(r)

(* Rows and edges refer to bodies that there are: what is removed is first  *)
(* cleared from every row (foreign keys are on).                            *)
ReferencesLead ==
    /\ \A r \in DOMAIN records : records[r].refers \subseteq DOMAIN bodies
    /\ \A e \in edges : {e[1], e[2]} \subseteq DOMAIN bodies

(* A pass that goes on to the pictures has drained what was due when it     *)
(* began, though it works in batches and gives up a table that it found     *)
(* drained.                                                                 *)
PassDrains ==
    [][pass.at = "retains" /\ pass'.at = "sweeps"
          => Old(pass.elapsed) = {} /\ Expired(pass.elapsed) = {}]_vars

(* The pass takes nothing that is still needed: no picture of a capture     *)
(* under way, no part of a young record, no body that is referred to.       *)
NothingNeededGoes == CaptureFindsItsFile /\ YoungRecordsAreWhole /\ ReferencesLead

(* What passes owe: what a crash left is found, pictures without a use go,  *)
(* and a pass is through with what was due; the stores keep their types.    *)
CleansUp == LossesAreFound /\ PicturesGo /\ PassDrains /\ []TypeOK
=============================================================================
