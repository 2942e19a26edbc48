---------------------------- MODULE AuditPayloads ----------------------------
(***************************************************************************)
(* The audit bodies and the records that refer to them.  A body is stored   *)
(* once under its hash and kept for Days after it was last stored.  The     *)
(* request of a call of the model is stored in parts: a manifest that names *)
(* the bodies of its tools and messages, which calls share, and an edge     *)
(* from the manifest to each.  retainAuditPayloads removes, in batches, the *)
(* records that are too old and the bodies that have expired.               *)
(*                                                                         *)
(* Times are relative, as in MediaStore: a body has the time left until     *)
(* expires_at, a record its age.  A pass compares with the time at which it *)
(* began, elapsed ticks ago.                                                *)
(***************************************************************************)
EXTENDS Integers, FiniteSets

CONSTANTS
    Call,         \* ids of the rows of llm_call_audit
    Observation,  \* ids of the rows of listing_source_observations
    Request,      \* the manifests
    Parts,        \* the bodies each manifest names
    Seen,         \* the body of each observation
    Days,         \* FREDY_AUDIT_PAYLOAD_DAYS
    Batch,        \* BATCH_SIZE
    MaxElapsed    \* a pass takes no longer

Body == Request \cup (UNION {Parts[m] : m \in Request}) \cup {Seen[o] : o \in Observation}

ASSUME PayloadAssumption ==
    /\ Days \in Nat \ {0} /\ Batch \in Nat \ {0} /\ MaxElapsed \in Nat
    /\ DOMAIN Parts = Request /\ DOMAIN Seen = Observation
    /\ Call \cap Observation = {}
    /\ \A m \in Request : Parts[m] \cap Request = {}
    /\ \A o \in Observation : Seen[o] \notin Request

VARIABLES
    bodies,     \* audit_payloads: the time left of each body
    edges,      \* audit_payload_edges
    records     \* the rows, with the body each refers to, if any, and their age

auditVars == <<bodies, edges, records>>

AuditTypeOK ==
    /\ DOMAIN bodies \subseteq Body
    /\ \A b \in DOMAIN bodies : bodies[b] \in (-MaxElapsed) .. Days
    /\ edges \subseteq Request \X Body
    /\ DOMAIN records \subseteq Call \cup Observation
    /\ \A r \in DOMAIN records : /\ records[r].refers \subseteq Body
                                 /\ records[r].age \in 0 .. (Days + MaxElapsed + 1)

(* The record with its body can be read back whole. *)
Readable(r) ==
    \E m \in records[r].refers : m \in DOMAIN bodies /\ (m \in Request => Parts[m] \subseteq DOMAIN bodies)

Larger(i, j) == IF i > j THEN i ELSE j
-----------------------------------------------------------------------------
(* Mutants: plausible slips in the code below. *)

(* The parts of a manifest go when their own time has come. *)
ExpiredAlone(elapsed) == {b \in DOMAIN bodies : bodies[b] <= -elapsed}

-----------------------------------------------------------------------------
AuditInit ==
    /\ bodies = [b \in {} |-> 0]
    /\ edges = {}
    /\ records = [r \in {} |-> 0]

(* storeAuditPayload: what is there is kept for at least as long. *)
Stored(bs, new, left) ==
    [b \in DOMAIN bs \cup new |->
        IF b \in DOMAIN bs \cap new THEN Larger(bs[b], left)
        ELSE IF b \in new THEN left ELSE bs[b]]

Recorded(r, b) ==
    records' = [s \in DOMAIN records \cup {r} |->
                  IF s = r THEN [refers |-> {b}, age |-> 0] ELSE records[s]]

(* beginLlmAudit.  Each body is stored with its own reading of the clock,   *)
(* which may pass a tick before the manifest's.                             *)
BeginsCall(r, m) ==
    /\ r \in Call \ DOMAIN records
    /\ \E late \in {0, 1} :
          bodies' = Stored(Stored(bodies, Parts[m], Days - late), {m}, Days)
    /\ edges' = edges \cup ({m} \X Parts[m])
    /\ Recorded(r, m)

(* recordObservation: the same observation is not recorded again. *)
Observes(o) ==
    /\ o \notin DOMAIN records
    /\ bodies' = Stored(bodies, {Seen[o]}, Days)
    /\ Recorded(o, Seen[o])
    /\ UNCHANGED edges
-----------------------------------------------------------------------------
(* Records older than the cutoff, and bodies expired when the pass began    *)
(* that no unexpired manifest names.                                        *)
Old(elapsed) == {r \in DOMAIN records \cap Call : records[r].age - elapsed > Days}

Expired(elapsed) ==
    {b \in DOMAIN bodies :
        /\ bodies[b] <= -elapsed
        /\ ~\E e \in edges : e[2] = b /\ e[1] \in DOMAIN bodies /\ bodies[e[1]] > -elapsed}

(* SELECT ... LIMIT *)
Limited(S) == {T \in SUBSET S : /\ Cardinality(T) <= Batch
                                /\ T # S => Cardinality(T) = Batch}

(* ORDER BY expires_at *)
Soonest(S) == {T \in Limited(S) : \A b \in T, c \in S \ T : bodies[b] <= bodies[c]}

Unlinked(rs, gone) == [r \in DOMAIN rs |-> [rs[r] EXCEPT !.refers = @ \ gone]]

IsDrained(deleted) == Cardinality(deleted) < Batch

(* One transaction of retainAuditPayloads. *)
RemovesBatch(elapsed, drained, old, gone) ==
    /\ old \in IF drained THEN {{}} ELSE Limited(Old(elapsed))
    /\ gone \in Soonest(Expired(elapsed))
    /\ records' = Unlinked([r \in DOMAIN records \ old |-> records[r]], gone)
    /\ edges' = {e \in edges : e[1] \notin gone /\ e[2] \notin gone}
    /\ bodies' = [b \in DOMAIN bodies \ gone |-> bodies[b]]

AuditAges ==
    /\ bodies' = [b \in DOMAIN bodies |-> Larger(bodies[b] - 1, -MaxElapsed)]
    /\ records' = [r \in DOMAIN records |->
                     [records[r] EXCEPT !.age = IF @ > Days + MaxElapsed THEN @ ELSE @ + 1]]
    /\ UNCHANGED edges
=============================================================================
