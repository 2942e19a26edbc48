-------------------------- MODULE MaintenanceProofs --------------------------
(***************************************************************************)
(* That maintenance takes nothing that is still needed: proofs for any      *)
(* captures, requests, retention and number of faults.                      *)
(*                                                                         *)
(* The pictures: a file that a capture under way relies on is at most one   *)
(* tick old, and the sweep takes none that is younger than two.  The        *)
(* bodies: a young record's body has at least the record's missing age left, *)
(* and a manifest that has time left holds its parts by its edges.          *)
(*                                                                         *)
(* And that it is neither too eager nor too lazy: the row of a retained     *)
(* capture changes only where its picture was lost before, and a pass that  *)
(* goes on to the pictures has left nothing that was due when it began.     *)
(***************************************************************************)
EXTENDS Maintenance, FiniteSetTheorems, TLAPS

Row == [status : {"stored", "failed", "missing", "expired"}, left : Nat]

FilesInv ==
    /\ getting \in [Capture -> {"no", "exists", "have", "failed"}]
    /\ \A p \in DOMAIN files : files[p] \in Nat
    /\ \A c \in DOMAIN rows : rows[c] \in Row
    /\ \A c \in Capture : getting[c] = "have" =>
          PictureOf[c] \in DOMAIN files /\ files[PictureOf[c]] <= 1

(* A manifest with time left has its parts, and an edge to each. *)
Held ==
    \A m \in Request \cap DOMAIN bodies : bodies[m] > 0 =>
        \A b \in Parts[m] : b \in DOMAIN bodies /\ <<m, b>> \in edges

(* A young record's body lives as long as the record is young. *)
Lives ==
    \A r \in DOMAIN records : records[r].age < Days =>
        \E b \in records[r].refers : b \in DOMAIN bodies /\ bodies[b] >= Days - records[r].age

AuditShape ==
    /\ \A b \in DOMAIN bodies : bodies[b] \in Int
    /\ \A r \in DOMAIN records : records[r] \in [refers : SUBSET Body, age : Nat]
    /\ edges \subseteq Request \X Body

AuditInv == AuditShape /\ ReferencesLead /\ Held /\ Lives

Shape ==
    /\ pass \in [at : {"no", "retains", "sweeps"}, elapsed : Nat, drained : BOOLEAN]
    /\ workload \in Workloads
    /\ faults \in Nat

IInv == Shape /\ FilesInv /\ AuditInv

-----------------------------------------------------------------------------
LEMMA InitIInv == Init => IInv
<1> SUFFICES ASSUME Init PROVE IInv
  OBVIOUS
<1>1. DOMAIN files = {} /\ DOMAIN rows = {} /\ DOMAIN bodies = {} /\ DOMAIN records = {} /\ edges = {}
  BY DEF Init, FilesInit, AuditInit, NoFiles
<1>2. Shape
  BY DEF Init, Shape, NoPass
<1>3. FilesInv
  BY <1>1 DEF Init, FilesInit, FilesInv
<1>4. AuditInv
  BY <1>1 DEF AuditInv, AuditShape, ReferencesLead, Held, Lives
<1> QED
  BY <1>2, <1>3, <1>4 DEF IInv

-----------------------------------------------------------------------------
(* The pictures. *)

LEMMA CapturesFiles ==
    ASSUME FilesInv, NEW c \in Capture,
           Downloads(c) \/ DownloadFails(c) \/ Touches(c) \/ StoresCapture(c) \/ DropsCapture(c)
    PROVE  FilesInv' /\ Dangling' \subseteq Dangling
<1>0. PictureOf[c] \in Picture /\ Retention \in Nat
  BY MediaAssumption
<1>1. CASE Downloads(c)
  <2>1. CASE PictureOf[c] \in DOMAIN files
    <3>1. files' = files /\ rows' = rows /\ getting' = [getting EXCEPT ![c] = "exists"]
      BY <1>1, <2>1 DEF Downloads
    <3> QED
      BY <3>1 DEF FilesInv, Dangling
  <2>2. CASE PictureOf[c] \notin DOMAIN files
    <3>1. /\ rows' = rows
          /\ getting' = [getting EXCEPT ![c] = "have"]
          /\ files' = [y \in DOMAIN files \cup {PictureOf[c]} |-> IF y = PictureOf[c] THEN 0 ELSE files[y]]
      BY <1>1, <2>2 DEF Downloads, With
    <3>2. DOMAIN files \subseteq DOMAIN files' /\ \A p \in DOMAIN files' : files'[p] \in Nat
      BY <3>1 DEF FilesInv
    <3>3. ASSUME NEW d \in Capture, getting'[d] = "have"
          PROVE  PictureOf[d] \in DOMAIN files' /\ files'[PictureOf[d]] <= 1
      BY <1>1, <3>1, <3>3 DEF Downloads, FilesInv
    <3> QED
      BY <3>1, <3>2, <3>3 DEF FilesInv, Dangling
  <2> QED
    BY <2>1, <2>2
<1>2. CASE DownloadFails(c)
  BY <1>2 DEF DownloadFails, FilesInv, Dangling
<1>3. CASE Touches(c)
  <2>1. CASE PictureOf[c] \in DOMAIN files
    <3>1. /\ rows' = rows
          /\ getting' = [getting EXCEPT ![c] = "have"]
          /\ files' = [files EXCEPT ![PictureOf[c]] = 0]
      BY <1>3, <2>1 DEF Touches
    <3>2. DOMAIN files' = DOMAIN files
      BY <3>1
    <3>3. ASSUME NEW d \in Capture, getting'[d] = "have"
          PROVE  PictureOf[d] \in DOMAIN files' /\ files'[PictureOf[d]] <= 1
      BY <2>1, <3>1, <3>3 DEF FilesInv
    <3>4. \A p \in DOMAIN files' : files'[p] \in Nat
      BY <3>1 DEF FilesInv
    <3> QED
      BY <3>1, <3>2, <3>3, <3>4 DEF FilesInv, Dangling
  <2>2. CASE PictureOf[c] \notin DOMAIN files
    <3>1. files' = files /\ rows' = rows /\ getting' = [getting EXCEPT ![c] = "failed"]
      BY <1>3, <2>2 DEF Touches
    <3> QED
      BY <3>1 DEF FilesInv, Dangling
  <2> QED
    BY <2>1, <2>2
<1>4. CASE StoresCapture(c)
  <2>1. files' = files /\ getting' = [getting EXCEPT ![c] = "no"]
    BY <1>4 DEF StoresCapture
  <2>2. CASE c \in DOMAIN rows
    <3>1. rows' = rows
      BY <1>4, <2>2 DEF StoresCapture
    <3> QED
      BY <2>1, <3>1 DEF FilesInv, Dangling
  <2>3. CASE c \notin DOMAIN rows
    <3> DEFINE row == [status |-> IF getting[c] = "have" THEN "stored" ELSE "failed", left |-> Retention]
    <3>1. rows' = [y \in DOMAIN rows \cup {c} |-> IF y = c THEN row ELSE rows[y]]
      BY <1>4, <2>3 DEF StoresCapture, With
    <3>2. row \in Row
      BY <1>0 DEF Row
    <3>3. row.status = "stored" => PictureOf[c] \in DOMAIN files
      BY DEF FilesInv
    <3> HIDE DEF row
    <3>4. \A d \in DOMAIN rows' : rows'[d] \in Row
      BY <3>1, <3>2 DEF FilesInv
    <3>5. Dangling' \subseteq Dangling
      BY <2>1, <3>1, <3>3 DEF Dangling
    <3> QED
      BY <2>1, <3>4, <3>5 DEF FilesInv
  <2> QED
    BY <2>2, <2>3
<1>5. CASE DropsCapture(c)
  BY <1>5 DEF DropsCapture, FilesInv, Dangling
<1> QED
  BY <1>1, <1>2, <1>3, <1>4, <1>5

(* The sweep takes no file of a capture under way, and leaves no stored row *)
(* without its file.                                                        *)
LEMMA SweepFiles ==
    ASSUME FilesInv, SweepsFiles
    PROVE  FilesInv' /\ Dangling' = {}
<1> DEFINE kept   == Without(files, Expirable)
           less   == RowsExpired(Expirable)
           marked == Reconciled(kept, less)
           orphan == Orphans(kept, marked)
<1>0. OrphanAge \in Nat /\ OrphanAge >= 2 /\ Retention \in Nat /\ Retention >= 2
  BY MediaAssumption
<1>1. files' = Without(kept, orphan) /\ rows' = marked /\ getting' = getting
  BY DEF SweepsFiles
<1>2. /\ DOMAIN kept = DOMAIN files \ Expirable
      /\ \A p \in DOMAIN kept : kept[p] = files[p]
  BY DEF Without
<1>3. /\ DOMAIN files' = DOMAIN kept \ orphan
      /\ \A p \in DOMAIN files' : files'[p] = files[p]
  BY <1>1, <1>2 DEF Without
<1>4. /\ DOMAIN less = DOMAIN rows
      /\ \A c \in DOMAIN rows : less[c] \in Row
  BY DEF RowsExpired, FilesInv, Row
<1>5. /\ DOMAIN marked = DOMAIN rows
      /\ \A c \in DOMAIN rows : marked[c] \in Row
      /\ \A c \in DOMAIN rows : marked[c].status = "stored" => PictureOf[c] \in DOMAIN kept
  BY <1>4 DEF Reconciled, Row
<1>6. \A p \in Expirable : files[p] >= Retention
  BY DEF Expirable
<1>7. \A p \in orphan : kept[p] >= OrphanAge
                        /\ ~\E c \in DOMAIN marked : marked[c].status = "stored" /\ PictureOf[c] = p
  BY DEF Orphans
<1>8. ASSUME NEW c \in Capture, getting[c] = "have"
      PROVE  PictureOf[c] \in DOMAIN files' /\ files'[PictureOf[c]] <= 1
  <2>1. PictureOf[c] \in DOMAIN files /\ files[PictureOf[c]] <= 1 /\ files[PictureOf[c]] \in Nat
    BY <1>8 DEF FilesInv
  <2>2. PictureOf[c] \notin Expirable
    BY <1>0, <1>6, <2>1
  <2>3. PictureOf[c] \in DOMAIN kept /\ kept[PictureOf[c]] = files[PictureOf[c]]
    BY <1>2, <2>1, <2>2
  <2>4. PictureOf[c] \notin orphan
    BY <1>0, <1>7, <2>1, <2>3
  <2> QED
    BY <1>3, <2>1, <2>3, <2>4
<1>9. \A p \in DOMAIN files' : files'[p] \in Nat
  BY <1>2, <1>3 DEF FilesInv
<1>10. FilesInv'
  BY <1>1, <1>5, <1>8, <1>9 DEF FilesInv
<1>11. Dangling' = {}
  BY <1>1, <1>3, <1>5, <1>7 DEF Dangling
<1> QED
  BY <1>10, <1>11

LEMMA CrashFiles ==
    ASSUME FilesInv, FilesSurvive \/ SweepIsCut
    PROVE  FilesInv'
<1>1. getting' = [c \in Capture |-> "no"]
  BY DEF FilesSurvive, SweepIsCut
<1>2. CASE FilesSurvive
  BY <1>1, <1>2 DEF FilesSurvive, FilesInv
<1>3. CASE SweepIsCut
  <2>1. PICK p \in Expirable, done \in SUBSET Expirable :
           files' = Without(files, done \cup {p}) /\ rows' = RowsExpired(done)
    BY <1>3 DEF SweepIsCut
  <2>2. \A q \in DOMAIN files' : files'[q] \in Nat
    BY <2>1 DEF Without, FilesInv
  <2>3. \A c \in DOMAIN rows' : rows'[c] \in Row
    BY <2>1 DEF RowsExpired, FilesInv, Row
  <2> QED
    BY <1>1, <2>2, <2>3 DEF FilesInv
<1> QED
  BY <1>2, <1>3

LEMMA TickFiles ==
    ASSUME FilesInv, CapturesInTime, FilesAge
    PROVE  FilesInv' /\ Dangling' \subseteq Dangling
<1>0. Retention \in Nat
  BY MediaAssumption
<1>1. /\ files' = [p \in DOMAIN files |-> IF files[p] < Retention THEN files[p] + 1 ELSE Retention]
      /\ rows' = [c \in DOMAIN rows |-> [rows[c] EXCEPT !.left = Less(rows[c].left)]]
      /\ getting' = getting
  BY DEF FilesAge
<1>2. DOMAIN files' = DOMAIN files /\ DOMAIN rows' = DOMAIN rows
  BY <1>1
<1>3. \A p \in DOMAIN files' : files'[p] \in Nat
  BY <1>0, <1>1 DEF FilesInv
<1>4. \A c \in DOMAIN rows : /\ rows'[c] \in Row
                             /\ rows'[c].status = rows[c].status
  BY <1>1 DEF FilesInv, Less, Row
<1>5. ASSUME NEW c \in Capture, getting'[c] = "have"
      PROVE  PictureOf[c] \in DOMAIN files' /\ files'[PictureOf[c]] <= 1
  <2>1. PictureOf[c] \in DOMAIN files /\ files[PictureOf[c]] = 0
    BY <1>1, <1>5 DEF FilesInv, CapturesInTime
  <2> QED
    BY <1>0, <1>1, <2>1
<1> QED
  BY <1>1, <1>2, <1>3, <1>4, <1>5 DEF FilesInv, Dangling

-----------------------------------------------------------------------------
(* The bodies. *)

LEMMA BeginsCallKeeps ==
    ASSUME AuditInv, NEW r \in Call, NEW m \in Request, BeginsCall(r, m)
    PROVE  AuditInv'
<1>0. Days \in Nat /\ Parts[m] \cap Request = {} /\ Parts[m] \subseteq Body /\ m \in Body
  BY PayloadAssumption DEF Body
<1>1. PICK late \in {0, 1} : bodies' = Stored(Stored(bodies, Parts[m], Days - late), {m}, Days)
  BY DEF BeginsCall
<1> DEFINE some == Stored(bodies, Parts[m], Days - late)
<1>2. Days - late \in Int /\ Days \in Int
  BY <1>0
<1>3. \A b \in DOMAIN bodies : bodies[b] \in Int
  BY DEF AuditInv, AuditShape
<1>4. /\ DOMAIN some = DOMAIN bodies \cup Parts[m]
      /\ \A b \in DOMAIN some : some[b] \in Int
      /\ \A b \in DOMAIN bodies : some[b] >= bodies[b]
      /\ \A b \in DOMAIN bodies \ Parts[m] : some[b] = bodies[b]
  BY <1>2, <1>3 DEF Stored, Larger
<1>5. bodies' = Stored(some, {m}, Days)
  BY <1>1
<1> HIDE DEF some
<1>6. /\ DOMAIN bodies' = DOMAIN some \cup {m}
      /\ \A b \in DOMAIN bodies' : bodies'[b] \in Int
      /\ \A b \in DOMAIN some : bodies'[b] >= some[b]
      /\ \A b \in DOMAIN some \ {m} : bodies'[b] = some[b]
      /\ bodies'[m] >= Days
  BY <1>2, <1>4, <1>5 DEF Stored, Larger
<1>7. edges' = edges \cup ({m} \X Parts[m])
  BY DEF BeginsCall
<1>8. records' = [s \in DOMAIN records \cup {r} |->
                    IF s = r THEN [refers |-> {m}, age |-> 0] ELSE records[s]]
  BY DEF BeginsCall, Recorded
<1>9. AuditShape'
  <2>1. \A s \in DOMAIN records' : records'[s] \in [refers : SUBSET Body, age : Nat]
    BY <1>0, <1>8 DEF AuditInv, AuditShape
  <2>2. edges' \subseteq Request \X Body
    BY <1>0, <1>7 DEF AuditInv, AuditShape
  <2> QED
    BY <1>6, <2>1, <2>2 DEF AuditShape
<1>10. ReferencesLead'
  <2>1. DOMAIN bodies \cup Parts[m] \cup {m} \subseteq DOMAIN bodies'
    BY <1>4, <1>6
  <2>2. \A s \in DOMAIN records' : records'[s].refers \subseteq DOMAIN bodies'
    BY <1>8, <2>1 DEF AuditInv, ReferencesLead
  <2>3. \A e \in edges' : e[1] \in DOMAIN bodies' /\ e[2] \in DOMAIN bodies'
    BY <1>7, <2>1 DEF AuditInv, ReferencesLead
  <2> QED
    BY <2>2, <2>3 DEF ReferencesLead
<1>11. Held'
  <2> SUFFICES ASSUME NEW n \in Request \cap DOMAIN bodies', bodies'[n] > 0, NEW b \in Parts[n]
               PROVE  b \in DOMAIN bodies' /\ <<n, b>> \in edges'
    BY DEF Held
  <2>1. CASE n = m
    BY <1>4, <1>6, <1>7, <2>1
  <2>2. CASE n # m
    <3>1. n \in DOMAIN bodies /\ bodies'[n] = bodies[n]
      BY <1>0, <1>4, <1>6, <2>2
    <3>2. b \in DOMAIN bodies /\ <<n, b>> \in edges
      BY <3>1 DEF AuditInv, Held
    <3> QED
      BY <1>4, <1>6, <1>7, <3>2
  <2> QED
    BY <2>1, <2>2
<1>12. Lives'
  <2> SUFFICES ASSUME NEW s \in DOMAIN records', records'[s].age < Days
               PROVE  \E b \in records'[s].refers :
                         b \in DOMAIN bodies' /\ bodies'[b] >= Days - records'[s].age
    BY DEF Lives
  <2>1. CASE s = r
    <3>1. records'[s].refers = {m} /\ records'[s].age = 0
      BY <1>8, <2>1
    <3> QED
      BY <1>0, <1>6, <3>1
  <2>2. CASE s # r
    <3>1. s \in DOMAIN records /\ records'[s] = records[s]
      BY <1>8, <2>2
    <3>2. PICK b \in records[s].refers : b \in DOMAIN bodies /\ bodies[b] >= Days - records[s].age
      BY <3>1 DEF AuditInv, Lives
    <3>3. b \in DOMAIN bodies' /\ bodies'[b] >= bodies[b]
      BY <1>3, <1>4, <1>6, <3>2
    <3>4. bodies'[b] \in Int /\ bodies[b] \in Int /\ records[s].age \in Nat
      BY <1>3, <1>6, <3>1, <3>2, <3>3 DEF AuditInv, AuditShape
    <3>5. bodies'[b] >= Days - records[s].age
      BY <1>0, <3>2, <3>3, <3>4
    <3> QED
      BY <3>1, <3>2, <3>3, <3>5
  <2> QED
    BY <2>1, <2>2
<1> QED
  BY <1>9, <1>10, <1>11, <1>12 DEF AuditInv

LEMMA ObservesKeeps ==
    ASSUME AuditInv, NEW o \in Observation, Observes(o)
    PROVE  AuditInv'
<1> DEFINE b0 == Seen[o]
<1>0. Days \in Nat /\ b0 \notin Request /\ b0 \in Body
  <2>1. PICK S : Body = S \cup {Seen[p] : p \in Observation}
    BY DEF Body
  <2> QED
    BY <2>1, PayloadAssumption
<1>1. bodies' = Stored(bodies, {b0}, Days) /\ edges' = edges
  BY DEF Observes
<1>2. records' = [s \in DOMAIN records \cup {o} |->
                    IF s = o THEN [refers |-> {b0}, age |-> 0] ELSE records[s]]
  BY DEF Observes, Recorded
<1> HIDE DEF b0
<1>3. \A b \in DOMAIN bodies : bodies[b] \in Int
  BY DEF AuditInv, AuditShape
<1>4. /\ DOMAIN bodies' = DOMAIN bodies \cup {b0}
      /\ \A b \in DOMAIN bodies' : bodies'[b] \in Int
      /\ \A b \in DOMAIN bodies : bodies'[b] >= bodies[b]
      /\ \A b \in DOMAIN bodies \ {b0} : bodies'[b] = bodies[b]
      /\ bodies'[b0] >= Days
  BY <1>0, <1>1, <1>3 DEF Stored, Larger
<1>5. AuditShape'
  <2>1. \A s \in DOMAIN records' : records'[s] \in [refers : SUBSET Body, age : Nat]
    BY <1>0, <1>2 DEF AuditInv, AuditShape
  <2> QED
    BY <1>1, <1>4, <2>1 DEF AuditInv, AuditShape
<1>6. ReferencesLead'
  <2>1. \A s \in DOMAIN records' : records'[s].refers \subseteq DOMAIN bodies'
    BY <1>2, <1>4 DEF AuditInv, ReferencesLead
  <2>2. \A e \in edges' : {e[1], e[2]} \subseteq DOMAIN bodies'
    BY <1>1, <1>4 DEF AuditInv, ReferencesLead
  <2> QED
    BY <2>1, <2>2 DEF ReferencesLead
<1>7. Held'
  BY <1>0, <1>1, <1>4 DEF AuditInv, Held
<1>8. Lives'
  <2> SUFFICES ASSUME NEW s \in DOMAIN records', records'[s].age < Days
               PROVE  \E b \in records'[s].refers :
                         b \in DOMAIN bodies' /\ bodies'[b] >= Days - records'[s].age
    BY DEF Lives
  <2>1. CASE s = o
    <3>1. records'[s].refers = {b0} /\ records'[s].age = 0
      BY <1>2, <2>1
    <3> QED
      BY <1>0, <1>4, <3>1
  <2>2. CASE s # o
    <3>1. s \in DOMAIN records /\ records'[s] = records[s]
      BY <1>2, <2>2
    <3>2. PICK b \in records[s].refers : b \in DOMAIN bodies /\ bodies[b] >= Days - records[s].age
      BY <3>1 DEF AuditInv, Lives
    <3>3. bodies'[b] \in Int /\ bodies[b] \in Int /\ records[s].age \in Nat /\ bodies'[b] >= bodies[b]
      BY <1>3, <1>4, <3>1, <3>2 DEF AuditInv, AuditShape
    <3>4. bodies'[b] >= Days - records[s].age
      BY <1>0, <3>2, <3>3
    <3> QED
      BY <1>4, <3>1, <3>2, <3>4
  <2> QED
    BY <2>1, <2>2
<1> QED
  BY <1>5, <1>6, <1>7, <1>8 DEF AuditInv

(* A batch takes no body that has time left, nor a part of a manifest that  *)
(* has.                                                                     *)
LEMMA BatchKeeps ==
    ASSUME AuditInv, NEW elapsed \in Nat, NEW drained, NEW old \in SUBSET Old(elapsed),
           NEW gone \in SUBSET Expired(elapsed), RemovesBatch(elapsed, drained, old, gone)
    PROVE  AuditInv'
<1>1. /\ edges' = {e \in edges : e[1] \notin gone /\ e[2] \notin gone}
      /\ bodies' = [b \in DOMAIN bodies \ gone |-> bodies[b]]
  BY DEF RemovesBatch
<1>2. /\ DOMAIN records' = DOMAIN records \ old
      /\ \A r \in DOMAIN records' : records'[r] = [records[r] EXCEPT !.refers = @ \ gone]
  BY DEF RemovesBatch, Unlinked
<1>3. \A r \in DOMAIN records' : /\ records[r] \in [refers : SUBSET Body, age : Nat]
                                 /\ records'[r].refers = records[r].refers \ gone
                                 /\ records'[r].age = records[r].age
                                 /\ records'[r] \in [refers : SUBSET Body, age : Nat]
  BY <1>2 DEF AuditInv, AuditShape
<1>4. /\ DOMAIN bodies' = DOMAIN bodies \ gone
      /\ \A b \in DOMAIN bodies' : bodies'[b] = bodies[b]
  BY <1>1
<1>5. \A b \in gone : /\ b \in DOMAIN bodies
                      /\ bodies[b] \in Int
                      /\ bodies[b] <= 0
                      /\ \A e \in edges : e[2] = b /\ e[1] \in DOMAIN bodies => ~(bodies[e[1]] > -elapsed)
  BY DEF Expired, AuditInv, AuditShape
<1>6. AuditShape'
  BY <1>1, <1>3, <1>4 DEF AuditInv, AuditShape
<1>7. ReferencesLead'
  <2>1. \A r \in DOMAIN records' : records'[r].refers \subseteq DOMAIN bodies'
    BY <1>2, <1>3, <1>4 DEF AuditInv, ReferencesLead
  <2>2. \A e \in edges' : {e[1], e[2]} \subseteq DOMAIN bodies'
    BY <1>1, <1>4 DEF AuditInv, ReferencesLead
  <2> QED
    BY <2>1, <2>2 DEF ReferencesLead
<1>8. Held'
  <2> SUFFICES ASSUME NEW m \in Request \cap DOMAIN bodies', bodies'[m] > 0, NEW b \in Parts[m]
               PROVE  b \in DOMAIN bodies' /\ <<m, b>> \in edges'
    BY DEF Held
  <2>1. m \in DOMAIN bodies /\ bodies[m] > 0 /\ m \notin gone /\ bodies[m] \in Int
    BY <1>4 DEF AuditInv, AuditShape
  <2>2. b \in DOMAIN bodies /\ <<m, b>> \in edges
    BY <2>1 DEF AuditInv, Held
  <2>3. b \notin gone
    <3>1. bodies[m] > -elapsed
      BY <2>1
    <3> QED
      BY <1>5, <2>1, <2>2, <3>1
  <2> QED
    BY <1>1, <1>4, <2>1, <2>2, <2>3
<1>9. Lives'
  <2> SUFFICES ASSUME NEW r \in DOMAIN records', records'[r].age < Days
               PROVE  \E b \in records'[r].refers :
                         b \in DOMAIN bodies' /\ bodies'[b] >= Days - records'[r].age
    BY DEF Lives
  <2>0. Days \in Nat /\ records[r].age \in Nat /\ records'[r].age = records[r].age /\ r \in DOMAIN records
    BY <1>2, <1>3, PayloadAssumption
  <2>1. PICK b \in records[r].refers : b \in DOMAIN bodies /\ bodies[b] >= Days - records[r].age
    BY <2>0 DEF AuditInv, Lives
  <2>2. bodies[b] \in Int /\ bodies[b] > 0
    BY <2>0, <2>1 DEF AuditInv, AuditShape
  <2>3. b \notin gone
    BY <1>5, <2>2
  <2> QED
    BY <1>3, <1>4, <2>0, <2>1, <2>3
<1> QED
  BY <1>6, <1>7, <1>8, <1>9 DEF AuditInv

LEMMA TickKeeps ==
    ASSUME AuditInv, AuditAges
    PROVE  AuditInv'
<1>0. Days \in Nat /\ MaxElapsed \in Nat
  BY PayloadAssumption
<1>1. /\ bodies' = [b \in DOMAIN bodies |-> Larger(bodies[b] - 1, -MaxElapsed)]
      /\ edges' = edges
      /\ records' = [r \in DOMAIN records |->
                       [records[r] EXCEPT !.age = IF @ > Days + MaxElapsed THEN @ ELSE @ + 1]]
  BY DEF AuditAges
<1>2. \A b \in DOMAIN bodies : bodies[b] \in Int
  BY DEF AuditInv, AuditShape
<1>3. /\ DOMAIN bodies' = DOMAIN bodies
      /\ \A b \in DOMAIN bodies : /\ bodies'[b] \in Int
                                  /\ bodies'[b] >= bodies[b] - 1
                                  /\ bodies'[b] > 0 => bodies[b] > 0
  BY <1>0, <1>1, <1>2 DEF Larger
<1>4. /\ DOMAIN records' = DOMAIN records
      /\ \A r \in DOMAIN records :
            /\ records[r] \in [refers : SUBSET Body, age : Nat]
            /\ records'[r] \in [refers : SUBSET Body, age : Nat]
            /\ records'[r].refers = records[r].refers
            /\ records'[r].age = IF records[r].age > Days + MaxElapsed THEN records[r].age
                                 ELSE records[r].age + 1
  BY <1>0, <1>1 DEF AuditInv, AuditShape
<1>5. AuditShape'
  BY <1>1, <1>3, <1>4 DEF AuditInv, AuditShape
<1>6. ReferencesLead'
  BY <1>1, <1>3, <1>4 DEF AuditInv, ReferencesLead
<1>7. Held'
  BY <1>1, <1>3 DEF AuditInv, Held
<1>8. Lives'
  <2> SUFFICES ASSUME NEW r \in DOMAIN records', records'[r].age < Days
               PROVE  \E b \in records'[r].refers :
                         b \in DOMAIN bodies' /\ bodies'[b] >= Days - records'[r].age
    BY DEF Lives
  <2>1. records[r].age \in Nat /\ records'[r].age = records[r].age + 1
    BY <1>0, <1>4
  <2>2. records[r].age < Days
    BY <1>0, <2>1
  <2>3. PICK b \in records[r].refers : b \in DOMAIN bodies /\ bodies[b] >= Days - records[r].age
    BY <1>4, <2>2 DEF AuditInv, Lives
  <2>4. bodies'[b] >= Days - records'[r].age
    BY <1>0, <1>2, <1>3, <2>1, <2>3
  <2> QED
    BY <1>3, <1>4, <2>3, <2>4
<1> QED
  BY <1>5, <1>6, <1>7, <1>8 DEF AuditInv

-----------------------------------------------------------------------------
LEMMA SameFiles ==
    ASSUME FilesInv, UNCHANGED mediaVars PROVE FilesInv' /\ Dangling' = Dangling
  BY DEF FilesInv, mediaVars, Dangling

LEMMA SameAudit ==
    ASSUME AuditInv, UNCHANGED auditVars PROVE AuditInv'
  BY DEF AuditInv, AuditShape, ReferencesLead, Held, Lives, auditVars

LEMMA NextIInv ==
    ASSUME IInv, [Next]_vars
    PROVE  IInv' /\ (faults' = faults => Dangling' \subseteq Dangling)
<1> USE DEF IInv
<1>1. CASE Captures
  <2>1. UNCHANGED <<auditVars, workload, pass, faults>>
    BY <1>1 DEF Captures
  <2>2. PICK c \in Capture :
           Downloads(c) \/ DownloadFails(c) \/ Touches(c) \/ StoresCapture(c) \/ DropsCapture(c)
    BY <1>1, MaintenanceAssumption DEF Captures, Shape
  <2>3. FilesInv' /\ Dangling' \subseteq Dangling
    BY <2>2, CapturesFiles
  <2> QED
    BY <2>1, <2>3, SameAudit DEF Shape
<1>2. CASE Audits
  <2>1. UNCHANGED <<mediaVars, workload, pass, faults>>
    BY <1>2 DEF Audits
  <2>2. AuditInv'
    <3>1. CASE \E r \in workload.records \cap Call, m \in Request : BeginsCall(r, m)
      BY <3>1, BeginsCallKeeps
    <3>2. CASE \E o \in workload.records \cap Observation : Observes(o)
      BY <3>2, ObservesKeeps
    <3> QED
      BY <1>2, <3>1, <3>2 DEF Audits
  <2> QED
    BY <2>1, <2>2, SameFiles DEF Shape
<1>3. CASE Begins
  <2>1. Shape' /\ UNCHANGED <<mediaVars, auditVars>>
    BY <1>3 DEF Begins, Shape, NoPass
  <2> QED
    BY <2>1, SameFiles, SameAudit
<1>4. CASE Retains
  <2>1. PICK old \in SUBSET Old(pass.elapsed), gone \in SUBSET Expired(pass.elapsed) :
           /\ RemovesBatch(pass.elapsed, pass.drained, old, gone)
           /\ pass' = [pass EXCEPT !.drained = @ \/ IsDrained(old),
                                   !.at = IF old \cup gone = {} THEN "sweeps" ELSE "retains"]
    BY <1>4 DEF Retains
  <2>2. AuditInv'
    BY <2>1, BatchKeeps DEF Shape
  <2>3. IsDrained(old) \in BOOLEAN
    BY DEF IsDrained
  <2>4. Shape'
    BY <1>4, <2>1, <2>3 DEF Retains, Shape
  <2>5. UNCHANGED mediaVars
    BY <1>4 DEF Retains
  <2> QED
    BY <2>2, <2>4, <2>5, SameFiles
<1>5. CASE Sweeps
  <2>1. SweepsFiles /\ Shape' /\ UNCHANGED auditVars
    BY <1>5 DEF Sweeps, Shape, NoPass
  <2> QED
    BY <2>1, SweepFiles, SameAudit
<1>6. CASE Aborts
  <2>1. Shape' /\ UNCHANGED <<mediaVars, auditVars>>
    BY <1>6 DEF Aborts, Shape, NoPass
  <2> QED
    BY <2>1, SameFiles, SameAudit
<1>7. CASE Crashes
  <2>1. /\ Shape' /\ UNCHANGED auditVars
        /\ FilesSurvive \/ SweepIsCut
    BY <1>7 DEF Crashes, Shape, NoPass
  <2>2. FilesInv' /\ AuditInv'
    BY <2>1, CrashFiles, SameAudit
  <2>3. faults' = faults + 1 /\ faults < MaxFaults
    BY <1>7 DEF Crashes
  <2> QED
    BY <2>1, <2>2, <2>3
<1>8. CASE Tick
  <2>1. CapturesInTime /\ FilesAge /\ AuditAges
    BY <1>8 DEF Tick
  <2>2. Shape'
    BY <1>8 DEF Tick, Shape
  <2> QED
    BY <2>1, <2>2, TickFiles, TickKeeps
<1>9. CASE UNCHANGED vars
  <2>1. Shape' /\ UNCHANGED <<mediaVars, auditVars>>
    BY <1>9 DEF vars, Shape, mediaVars, auditVars
  <2> QED
    BY <2>1, SameFiles, SameAudit
<1> QED
  BY <1>1, <1>2, <1>3, <1>4, <1>5, <1>6, <1>7, <1>8, <1>9 DEF Next, Maintains

LEMMA SpecIInv == Spec => []IInv
<1>1. Init => IInv
  BY InitIInv
<1>2. IInv /\ [Next]_vars => IInv'
  BY NextIInv
<1> QED
  BY <1>1, <1>2, PTL DEF Spec

LEMMA IInvReadable == IInv => YoungRecordsAreWhole /\ CaptureFindsItsFile /\ ReferencesLead
<1> SUFFICES ASSUME IInv PROVE YoungRecordsAreWhole /\ CaptureFindsItsFile /\ ReferencesLead
  OBVIOUS
<1>1. ASSUME NEW r \in DOMAIN records, records[r].age < Days
      PROVE  Readable(r)
  <2>0. Days \in Nat /\ records[r].age \in Nat
    BY PayloadAssumption DEF IInv, AuditInv, AuditShape
  <2>1. PICK b \in records[r].refers : b \in DOMAIN bodies /\ bodies[b] >= Days - records[r].age
    BY <1>1 DEF IInv, AuditInv, Lives
  <2>2. bodies[b] > 0
    BY <1>1, <2>0, <2>1 DEF IInv, AuditInv, AuditShape
  <2>3. b \in Request => Parts[b] \subseteq DOMAIN bodies
    BY <2>1, <2>2 DEF IInv, AuditInv, Held
  <2> QED
    BY <2>1, <2>3 DEF Readable
<1> QED
  BY <1>1 DEF YoungRecordsAreWhole, CaptureFindsItsFile, IInv, FilesInv, AuditInv

(* A record younger than the retention can be read back with every part of  *)
(* its body (payloadRetention.js:77-98, auditPayloadStorage.js:12-52).      *)
THEOREM YoungRecordsStayWhole == Spec => []YoungRecordsAreWhole
  BY SpecIInv, IInvReadable, PTL

(* Rows and edges never refer to a body that was removed                    *)
(* (payloadRetention.js:85-98).                                             *)
THEOREM ReferencesAlwaysLead == Spec => []ReferencesLead
  BY SpecIInv, IInvReadable, PTL

(* A capture under way finds its picture: no pass takes it between the      *)
(* download and the transaction (databaseCleanup.js:76-79, 186).            *)
THEOREM CapturesFindTheirFiles == Spec => []CaptureFindsItsFile
  BY SpecIInv, IInvReadable, PTL

(* No step but a crash leaves a stored reference without its file           *)
(* (databaseCleanup.js:186-199).                                            *)
THEOREM OnlyCrashesLoseFiles == Spec => OnlyACrashLosesFiles
<1>1. IInv /\ [Next]_vars => [faults' = faults => Dangling' \subseteq Dangling]_vars
  BY NextIInv
<1> QED
  BY <1>1, SpecIInv, PTL DEF Spec, OnlyACrashLosesFiles

(* All three together: the pass takes nothing that is still needed.         *)
THEOREM NothingNeededIsTaken == Spec => []NothingNeededGoes
<1>1. YoungRecordsAreWhole /\ CaptureFindsItsFile /\ ReferencesLead => NothingNeededGoes
  BY DEF NothingNeededGoes
<1> QED
  BY <1>1, YoungRecordsStayWhole, CapturesFindTheirFiles, ReferencesAlwaysLead, PTL
-----------------------------------------------------------------------------
(* A file goes only where no reference to it is retained. *)
LEMMA RowsOutlive ==
    ASSUME NEW done \in SUBSET Expirable, NEW c \in DOMAIN rows,
           rows[c].left > 0, rows[c].status = "stored"
    PROVE  RowsExpired(done)[c] = rows[c] /\ PictureOf[c] \notin done
<1>1. PictureOf[c] \notin Expirable
  BY DEF Expirable, References
<1> QED
  BY <1>1 DEF RowsExpired

LEMMA RetainedStep ==
    ASSUME FilesInv, [Next]_vars, NEW c \in DOMAIN rows,
           rows[c].left > 0, rows[c].status = "stored", rows'[c].status # "stored"
    PROVE  c \in Dangling
<1>1. rows[c] \in Row
  BY DEF FilesInv
<1>2. rows' # rows
  OBVIOUS
<1>3. ~Captures
  BY <1>2 DEF Captures, Downloads, DownloadFails, Touches, DropsCapture, StoresCapture, With
<1>4. ~Audits
  BY <1>2 DEF Audits, mediaVars
<1>5. CASE SweepsFiles
  <2> DEFINE kept == Without(files, Expirable)
  <2>1. rows' = Reconciled(kept, RowsExpired(Expirable))
    BY <1>5 DEF SweepsFiles
  <2>2. RowsExpired(Expirable)[c] = rows[c] /\ PictureOf[c] \notin Expirable
    BY RowsOutlive
  <2>3. DOMAIN RowsExpired(Expirable) = DOMAIN rows
    BY DEF RowsExpired
  <2>4. PictureOf[c] \notin DOMAIN kept
    BY <2>1, <2>2, <2>3 DEF Reconciled
  <2>5. PictureOf[c] \notin DOMAIN files
    BY <2>2, <2>4 DEF Without
  <2> QED
    BY <2>5 DEF Dangling
<1>6. ~SweepIsCut
  <2> SUFFICES ASSUME SweepIsCut PROVE FALSE
    OBVIOUS
  <2>1. PICK p \in Expirable : \E done \in SUBSET (Expirable \ {p}) : rows' = RowsExpired(done)
    BY DEF SweepIsCut
  <2>2. PICK done \in SUBSET (Expirable \ {p}) : rows' = RowsExpired(done)
    BY <2>1
  <2>3. done \in SUBSET Expirable
    OBVIOUS
  <2> QED
    BY <2>2, <2>3, RowsOutlive
<1>7. ~FilesAge
  <2>1. [rows[c] EXCEPT !.left = Less(rows[c].left)].status = rows[c].status
    BY <1>1 DEF Row
  <2> QED
    BY <2>1 DEF FilesAge
<1> QED
  BY <1>2, <1>3, <1>4, <1>5, <1>6, <1>7
     DEF Next, Maintains, Begins, Retains, Sweeps, Aborts, Crashes, FilesSurvive, Tick, vars, mediaVars

(* A picture is kept while a capture that shows it is retained: its row     *)
(* changes only where its file was lost before (databaseCleanup.js:169-199) *)
THEOREM RetainedPicturesAreKept == Spec => RetainedIsKept
<1>1. IInv /\ [Next]_vars
        => [\A c \in DOMAIN rows :
               rows[c].left > 0 /\ rows[c].status = "stored" /\ rows'[c].status # "stored"
                 => c \in Dangling]_vars
  BY RetainedStep DEF IInv
<1> QED
  BY <1>1, SpecIInv, PTL DEF Spec, RetainedIsKept
-----------------------------------------------------------------------------
(* A pass that found no more old records than a batch holds has none left.  *)
DrainedInv == pass.at = "retains" /\ pass.drained => Old(pass.elapsed) = {}

LEMMA WholeBatch ==
    ASSUME NEW S, NEW T \in Limited(S), Cardinality(T) < Batch
    PROVE  T = S
<1>1. Cardinality(T) # Batch
  BY PayloadAssumption
<1> QED
  BY <1>1 DEF Limited

LEMMA AgesAsBefore ==
    ASSUME AuditInv, NEW e \in Nat, Old(e) = {}, DOMAIN records' \subseteq DOMAIN records,
           \A r \in DOMAIN records' : records'[r].age = records[r].age
    PROVE  Old(e)' = {}
BY DEF Old

LEMMA DrainedStep ==
    ASSUME IInv, DrainedInv, [Next]_vars
    PROVE  DrainedInv'
<1> USE DEF IInv
<1>0. /\ pass \in [at : {"no", "retains", "sweeps"}, elapsed : Nat, drained : BOOLEAN]
      /\ \A r \in DOMAIN records : records[r] \in [refers : SUBSET Body, age : Nat]
      /\ Days \in Nat
  BY PayloadAssumption DEF Shape, AuditInv, AuditShape
<1>1. ASSUME UNCHANGED <<records, pass>> PROVE DrainedInv'
  BY <1>1 DEF DrainedInv, Old
<1>2. CASE Audits
  <2>1. pass' = pass
    BY <1>2 DEF Audits
  <2>2. SUFFICES ASSUME pass.at = "retains", pass.drained, NEW r \in DOMAIN records' \cap Call,
                        records'[r].age - pass.elapsed > Days
                 PROVE  FALSE
    BY <2>1 DEF DrainedInv, Old
  <2>3. \A s \in DOMAIN records \cap Call : ~(records[s].age - pass.elapsed > Days)
    BY <2>2 DEF DrainedInv, Old
  <2>4. records'[r].age = 0 \/ (r \in DOMAIN records /\ records'[r] = records[r])
    <3>1. ASSUME NEW t, NEW b, Recorded(t, b)
          PROVE  records'[r].age = 0 \/ (r \in DOMAIN records /\ records'[r] = records[r])
      BY <2>2, <3>1 DEF Recorded
    <3>2. CASE \E t \in workload.records \cap Call, m \in Request : BeginsCall(t, m)
      BY <3>1, <3>2 DEF BeginsCall
    <3>3. CASE \E o \in workload.records \cap Observation : Observes(o)
      BY <3>1, <3>3 DEF Observes
    <3> QED
      BY <1>2, <3>2, <3>3 DEF Audits
  <2> QED
    BY <1>0, <2>2, <2>3, <2>4
<1>3. CASE Begins \/ Sweeps \/ Aborts \/ Crashes
  BY <1>0, <1>3 DEF Begins, Sweeps, Aborts, Crashes, NoPass, DrainedInv
<1>4. CASE Retains
  <2>1. PICK old \in SUBSET Old(pass.elapsed), gone \in SUBSET Expired(pass.elapsed) :
           /\ RemovesBatch(pass.elapsed, pass.drained, old, gone)
           /\ pass' = [pass EXCEPT !.drained = @ \/ IsDrained(old),
                                   !.at = IF old \cup gone = {} THEN "sweeps" ELSE "retains"]
    BY <1>4 DEF Retains
  <2>2. /\ pass'.elapsed = pass.elapsed
        /\ pass'.drained => pass.drained \/ IsDrained(old)
        /\ pass.at = "retains"
    BY <1>0, <1>4, <2>1 DEF Retains
  <2>3. /\ DOMAIN records' = DOMAIN records \ old
        /\ \A r \in DOMAIN records' : records'[r].age = records[r].age
    BY <1>0, <2>1 DEF RemovesBatch, Unlinked
  <2>4. CASE pass.drained
    <3>1. Old(pass.elapsed)' = {}
      <4>1. Old(pass.elapsed) = {}
        BY <2>2, <2>4 DEF DrainedInv
      <4> QED
        BY <2>2, <2>3, <4>1 DEF Old
    <3> QED
      BY <3>1 DEF DrainedInv
  <2>5. CASE ~pass.drained /\ IsDrained(old)
    <3>1. old \in Limited(Old(pass.elapsed)) /\ Cardinality(old) < Batch
      BY <2>1, <2>5 DEF RemovesBatch, IsDrained
    <3>2. old = Old(pass.elapsed)
      BY <3>1, WholeBatch
    <3> QED
      BY <2>2, <2>3, <3>2 DEF DrainedInv, Old
  <2>6. CASE ~pass.drained /\ ~IsDrained(old)
    BY <2>2, <2>6 DEF DrainedInv
  <2> QED
    BY <2>4, <2>5, <2>6
<1>5. CASE Tick
  <2>1. /\ pass' = [pass EXCEPT !.elapsed = IF pass.at = "no" THEN 0 ELSE @ + 1]
        /\ records' = [r \in DOMAIN records |->
                         [records[r] EXCEPT !.age = IF @ > Days + MaxElapsed THEN @ ELSE @ + 1]]
    BY <1>5 DEF Tick, AuditAges
  <2>2. pass'.at = pass.at /\ pass'.drained = pass.drained
    BY <1>0, <2>1
  <2>3. SUFFICES ASSUME pass.at = "retains", pass.drained, NEW r \in DOMAIN records' \cap Call,
                        records'[r].age - pass'.elapsed > Days
                 PROVE  FALSE
    BY <2>2 DEF DrainedInv, Old
  <2>4. pass'.elapsed = pass.elapsed + 1
    BY <1>0, <2>1, <2>3
  <2>5. r \in DOMAIN records \cap Call /\ records'[r].age \in {records[r].age, records[r].age + 1}
    BY <1>0, <2>1
  <2>6. ~(records[r].age - pass.elapsed > Days)
    BY <2>3, <2>5 DEF DrainedInv, Old
  <2>7. records[r].age \in Nat /\ pass.elapsed \in Nat
    BY <1>0, <2>5
  <2> QED
    BY <1>0, <2>3, <2>4, <2>5, <2>6, <2>7
<1> QED
  BY <1>1, <1>2, <1>3, <1>4, <1>5 DEF Next, Maintains, Captures, auditVars, vars

LEMMA DrainsStep ==
    ASSUME IInv, DrainedInv, [Next]_vars, pass.at = "retains", pass'.at = "sweeps"
    PROVE  Old(pass.elapsed) = {} /\ Expired(pass.elapsed) = {}
<1>1. Retains
  BY DEF Next, Maintains, Captures, Audits, Begins, Sweeps, Aborts, Crashes, Tick, NoPass, vars, IInv, Shape
<1>2. PICK old \in SUBSET Old(pass.elapsed), gone \in SUBSET Expired(pass.elapsed) :
         /\ RemovesBatch(pass.elapsed, pass.drained, old, gone)
         /\ pass' = [pass EXCEPT !.drained = @ \/ IsDrained(old),
                                 !.at = IF old \cup gone = {} THEN "sweeps" ELSE "retains"]
  BY <1>1 DEF Retains
<1>3. old = {} /\ gone = {}
  BY <1>2 DEF IInv, Shape
<1>4. Cardinality({}) < Batch
  BY FS_EmptySet, PayloadAssumption
<1>5. {} \in Limited(Expired(pass.elapsed))
  BY <1>2, <1>3 DEF RemovesBatch, Soonest
<1>6. pass.drained \/ {} \in Limited(Old(pass.elapsed))
  BY <1>2, <1>3 DEF RemovesBatch
<1> QED
  BY <1>4, <1>5, <1>6, WholeBatch DEF DrainedInv

(* A pass goes on to the pictures only when nothing is left of what was due *)
(* when it began, though it works in batches and gives up a table it found  *)
(* drained (payloadRetention.js:29-110).                                    *)
THEOREM PassesDrain == Spec => PassDrains
<1>1. Init => DrainedInv
  BY DEF Init, DrainedInv, NoPass
<1>2. IInv /\ DrainedInv /\ [Next]_vars
        => [pass.at = "retains" /\ pass'.at = "sweeps"
              => Old(pass.elapsed) = {} /\ Expired(pass.elapsed) = {}]_vars
  BY DrainsStep
<1> QED
  BY <1>1, <1>2, DrainedStep, SpecIInv, PTL DEF Spec, PassDrains
-----------------------------------------------------------------------------
(* Types. *)
Status == {"stored", "failed", "missing", "expired"}

LEMMA CapturesTyped ==
    ASSUME FileTypeOK, NEW c \in Capture,
           Downloads(c) \/ DownloadFails(c) \/ Touches(c) \/ StoresCapture(c) \/ DropsCapture(c)
    PROVE  FileTypeOK'
<1>1. PictureOf[c] \in Picture /\ Retention \in Nat
  BY MediaAssumption
<1>2. CASE Downloads(c)
  BY <1>1, <1>2 DEF Downloads, FileTypeOK, With
<1>3. CASE DownloadFails(c) \/ DropsCapture(c)
  BY <1>3 DEF DownloadFails, DropsCapture, FileTypeOK
<1>4. CASE Touches(c)
  BY <1>1, <1>4 DEF Touches, FileTypeOK
<1>5. CASE StoresCapture(c)
  <2> DEFINE row == [status |-> IF getting[c] = "have" THEN "stored" ELSE "failed", left |-> Retention]
  <2>1. row.status \in Status /\ row.left = Retention
    BY DEF Status
  <2> HIDE DEF row
  <2>2. rows' = rows \/ rows' = With(rows, c, row)
    BY <1>5 DEF StoresCapture, row
  <2>3. /\ DOMAIN rows' \subseteq Capture
        /\ \A d \in DOMAIN rows' : rows'[d] = row \/ (d \in DOMAIN rows /\ rows'[d] = rows[d])
    BY <2>2 DEF With, FileTypeOK
  <2>4. \A d \in DOMAIN rows' : rows'[d].status \in Status /\ rows'[d].left \in 0 .. Retention
    BY <1>1, <2>1, <2>3 DEF FileTypeOK, Status
  <2> QED
    BY <1>5, <2>3, <2>4 DEF StoresCapture, FileTypeOK, Status
<1> QED
  BY <1>2, <1>3, <1>4, <1>5

LEMMA ExpiredTyped ==
    ASSUME FilesInv, FileTypeOK, NEW gone
    PROVE  /\ DOMAIN RowsExpired(gone) = DOMAIN rows
           /\ \A c \in DOMAIN rows : /\ RowsExpired(gone)[c] \in Row
                                     /\ RowsExpired(gone)[c].left = rows[c].left
<1>1. \A c \in DOMAIN rows : rows[c] \in Row
  BY DEF FilesInv
<1> QED
  BY <1>1 DEF RowsExpired, Row

LEMMA SweepTyped ==
    ASSUME FilesInv, FileTypeOK, SweepsFiles \/ SweepIsCut \/ FilesSurvive
    PROVE  FileTypeOK'
<1>1. CASE FilesSurvive
  BY <1>1 DEF FilesSurvive, FileTypeOK
<1>2. CASE SweepIsCut
  <2>1. PICK p \in Expirable, done \in SUBSET Expirable :
           files' = Without(files, done \cup {p}) /\ rows' = RowsExpired(done)
    BY <1>2 DEF SweepIsCut
  <2>2. \A c \in DOMAIN rows' : rows'[c].status \in Status /\ rows'[c].left \in 0 .. Retention
    BY <2>1, ExpiredTyped DEF Row, Status, FileTypeOK
  <2>3. DOMAIN rows' = DOMAIN rows
    BY <2>1, ExpiredTyped
  <2>4. DOMAIN files' \subseteq DOMAIN files /\ \A q \in DOMAIN files' : files'[q] = files[q]
    BY <2>1 DEF Without
  <2>5. getting' = [c \in Capture |-> "no"]
    BY <1>2 DEF SweepIsCut
  <2> QED
    BY <2>2, <2>3, <2>4, <2>5 DEF FileTypeOK, Status
<1>3. CASE SweepsFiles
  <2> DEFINE kept == Without(files, Expirable)
             less == RowsExpired(Expirable)
             marked == Reconciled(kept, less)
  <2>1. files' = Without(kept, Orphans(kept, marked)) /\ rows' = marked /\ getting' = getting
    BY <1>3 DEF SweepsFiles
  <2>2. DOMAIN files' \subseteq DOMAIN files /\ \A p \in DOMAIN files' : files'[p] = files[p]
    BY <2>1 DEF Without
  <2>3. /\ DOMAIN less = DOMAIN rows
        /\ \A c \in DOMAIN rows : less[c] \in Row /\ less[c].left = rows[c].left
    BY ExpiredTyped
  <2> HIDE DEF kept, less
  <2>4. /\ DOMAIN marked = DOMAIN rows
        /\ \A c \in DOMAIN rows : marked[c].status \in Status /\ marked[c].left = rows[c].left
    BY <2>3 DEF Reconciled, Row, Status
  <2> QED
    BY <2>1, <2>2, <2>4 DEF FileTypeOK, Status
<1> QED
  BY <1>1, <1>2, <1>3

LEMMA AgesTyped ==
    ASSUME FilesInv, FileTypeOK, FilesAge
    PROVE  FileTypeOK'
<1>0. Retention \in Nat
  BY MediaAssumption
<1>1. /\ DOMAIN files' = DOMAIN files
      /\ \A p \in DOMAIN files' : files'[p] = IF files[p] < Retention THEN files[p] + 1 ELSE Retention
  BY DEF FilesAge
<1>2. \A p \in DOMAIN files' : files'[p] \in 0 .. Retention
  BY <1>0, <1>1 DEF FileTypeOK
<1>3. /\ DOMAIN rows' = DOMAIN rows
      /\ \A c \in DOMAIN rows : rows[c] \in Row /\ rows'[c] = [rows[c] EXCEPT !.left = Less(rows[c].left)]
  BY DEF FilesAge, FilesInv
<1>4. \A c \in DOMAIN rows : /\ rows'[c].status = rows[c].status
                             /\ rows'[c].left = Less(rows[c].left)
  BY <1>3 DEF Row
<1>5. \A n \in 0 .. Retention : Less(n) \in 0 .. Retention
  BY <1>0 DEF Less
<1> QED
  BY <1>1, <1>2, <1>3, <1>4, <1>5 DEF FileTypeOK, FilesAge

LEMMA StoredTyped ==
    ASSUME NEW bs, DOMAIN bs \subseteq Body, \A b \in DOMAIN bs : bs[b] \in (-MaxElapsed) .. Days,
           NEW new \in SUBSET Body, NEW left \in (-MaxElapsed) .. Days
    PROVE  /\ DOMAIN Stored(bs, new, left) \subseteq Body
           /\ \A b \in DOMAIN Stored(bs, new, left) : Stored(bs, new, left)[b] \in (-MaxElapsed) .. Days
BY DEF Stored, Larger

LEMMA RecordedTyped ==
    ASSUME AuditTypeOK, NEW r \in Call \cup Observation, NEW b \in Body, Recorded(r, b)
    PROVE  /\ DOMAIN records' \subseteq Call \cup Observation
           /\ \A s \in DOMAIN records' : /\ records'[s].refers \subseteq Body
                                         /\ records'[s].age \in 0 .. (Days + MaxElapsed + 1)
<1>0. Days \in Nat /\ MaxElapsed \in Nat
  BY PayloadAssumption
<1>1. /\ DOMAIN records' = DOMAIN records \cup {r}
      /\ \A s \in DOMAIN records' : \/ records'[s].refers = {b} /\ records'[s].age = 0
                                    \/ s \in DOMAIN records /\ records'[s] = records[s]
  BY DEF Recorded
<1> QED
  BY <1>0, <1>1 DEF AuditTypeOK

LEMMA AuditsTyped ==
    ASSUME AuditTypeOK,
           \/ \E r \in Call, m \in Request : BeginsCall(r, m)
           \/ \E o \in Observation : Observes(o)
    PROVE  AuditTypeOK'
<1>0. Days \in Nat \ {0} /\ MaxElapsed \in Nat
  BY PayloadAssumption
<1>1. CASE \E r \in Call, m \in Request : BeginsCall(r, m)
  <2>1. PICK r \in Call, m \in Request : BeginsCall(r, m)
    BY <1>1
  <2>2. m \in Body /\ Parts[m] \subseteq Body
    BY DEF Body
  <2>3. PICK late \in {0, 1} : bodies' = Stored(Stored(bodies, Parts[m], Days - late), {m}, Days)
    BY <2>1 DEF BeginsCall
  <2> DEFINE some == Stored(bodies, Parts[m], Days - late)
  <2>4. Days - late \in (-MaxElapsed) .. Days /\ Days \in (-MaxElapsed) .. Days
    BY <1>0
  <2>5. DOMAIN some \subseteq Body /\ \A b \in DOMAIN some : some[b] \in (-MaxElapsed) .. Days
    BY <2>2, <2>4, StoredTyped DEF AuditTypeOK
  <2>6. bodies' = Stored(some, {m}, Days)
    BY <2>3
  <2> HIDE DEF some
  <2>7. DOMAIN bodies' \subseteq Body /\ \A b \in DOMAIN bodies' : bodies'[b] \in (-MaxElapsed) .. Days
    BY <2>2, <2>4, <2>5, <2>6, StoredTyped
  <2>8. edges' \subseteq Request \X Body
    BY <2>1, <2>2 DEF BeginsCall, AuditTypeOK
  <2> QED
    BY <2>1, <2>2, <2>7, <2>8, RecordedTyped DEF BeginsCall, AuditTypeOK
<1>2. CASE \E o \in Observation : Observes(o)
  <2>1. PICK o \in Observation : Observes(o)
    BY <1>2
  <2>2. Seen[o] \in Body
    <3>1. PICK S : Body = S \cup {Seen[p] : p \in Observation}
      BY DEF Body
    <3> QED
      BY <3>1
  <2>3. Days \in (-MaxElapsed) .. Days
    BY <1>0
  <2>4. DOMAIN bodies' \subseteq Body /\ \A b \in DOMAIN bodies' : bodies'[b] \in (-MaxElapsed) .. Days
    BY <2>1, <2>2, <2>3, StoredTyped DEF Observes, AuditTypeOK
  <2> QED
    BY <2>1, <2>2, <2>4, RecordedTyped DEF Observes, AuditTypeOK
<1> QED
  BY <1>1, <1>2

LEMMA BatchTyped ==
    ASSUME AuditInv, AuditTypeOK, NEW elapsed, NEW drained, NEW old, NEW gone,
           RemovesBatch(elapsed, drained, old, gone)
    PROVE  AuditTypeOK'
<1>1. /\ DOMAIN bodies' \subseteq DOMAIN bodies
      /\ \A b \in DOMAIN bodies' : bodies'[b] = bodies[b]
      /\ edges' \subseteq edges
  BY DEF RemovesBatch
<1>2. /\ DOMAIN records' \subseteq DOMAIN records
      /\ \A r \in DOMAIN records' : records'[r] = [records[r] EXCEPT !.refers = @ \ gone]
  BY DEF RemovesBatch, Unlinked
<1>3. \A r \in DOMAIN records' : /\ records'[r].refers \subseteq records[r].refers
                                 /\ records'[r].age = records[r].age
  BY <1>2 DEF AuditInv, AuditShape
<1> QED
  BY <1>1, <1>2, <1>3 DEF AuditTypeOK

LEMMA TickTyped ==
    ASSUME AuditInv, AuditTypeOK, AuditAges
    PROVE  AuditTypeOK'
<1>0. Days \in Nat /\ MaxElapsed \in Nat
  BY PayloadAssumption
<1>1. /\ DOMAIN bodies' = DOMAIN bodies
      /\ \A b \in DOMAIN bodies : bodies'[b] = Larger(bodies[b] - 1, -MaxElapsed)
  BY DEF AuditAges
<1>2. \A n \in (-MaxElapsed) .. Days : Larger(n - 1, -MaxElapsed) \in (-MaxElapsed) .. Days
  BY <1>0 DEF Larger
<1>3. /\ DOMAIN records' = DOMAIN records
      /\ \A r \in DOMAIN records :
            /\ records'[r].refers = records[r].refers
            /\ records'[r].age = IF records[r].age > Days + MaxElapsed THEN records[r].age
                                 ELSE records[r].age + 1
  BY DEF AuditAges, AuditInv, AuditShape
<1>4. \A r \in DOMAIN records' : records'[r].age \in 0 .. (Days + MaxElapsed + 1)
  BY <1>0, <1>3 DEF AuditTypeOK
<1> QED
  BY <1>1, <1>2, <1>3, <1>4 DEF AuditTypeOK, AuditAges

LEMMA TypesStep ==
    ASSUME IInv, TypeOK, [Next]_vars
    PROVE  TypeOK'
<1> DEFINE PassOK == pass \in [at : {"no", "retains", "sweeps"}, elapsed : 0 .. MaxElapsed, drained : BOOLEAN]
<1> USE DEF TypeOK
<1>0. MaxElapsed \in Nat /\ MaxFaults \in Nat /\ FilesInv /\ AuditInv
  BY PayloadAssumption, MaintenanceAssumption DEF IInv
<1>a. ASSUME UNCHANGED mediaVars PROVE FileTypeOK'
  BY <1>a DEF mediaVars, FileTypeOK
<1>b. ASSUME UNCHANGED auditVars PROVE AuditTypeOK'
  BY <1>b DEF auditVars, AuditTypeOK
<1>c. NoPass \in [at : {"no", "retains", "sweeps"}, elapsed : 0 .. MaxElapsed, drained : BOOLEAN]
  BY <1>0 DEF NoPass
<1>1. CASE Captures
  <2>1. FileTypeOK'
    BY <1>1, CapturesTyped, MaintenanceAssumption DEF Captures
  <2> QED
    BY <1>1, <1>b, <2>1 DEF Captures
<1>2. CASE Audits
  <2>1. AuditTypeOK'
    BY <1>2, AuditsTyped DEF Audits
  <2> QED
    BY <1>2, <1>a, <2>1 DEF Audits
<1>3. CASE Begins
  <2>1. pass' = [at |-> "retains", elapsed |-> 0, drained |-> FALSE]
    BY <1>3 DEF Begins, NoPass
  <2>2. PassOK'
    BY <1>0, <2>1
  <2> QED
    BY <1>3, <1>a, <1>b, <2>2 DEF Begins
<1>4. CASE Retains
  <2>1. PICK old \in SUBSET Old(pass.elapsed), gone \in SUBSET Expired(pass.elapsed) :
           /\ RemovesBatch(pass.elapsed, pass.drained, old, gone)
           /\ pass' = [pass EXCEPT !.drained = @ \/ IsDrained(old),
                                   !.at = IF old \cup gone = {} THEN "sweeps" ELSE "retains"]
    BY <1>4 DEF Retains
  <2>2. AuditTypeOK'
    BY <1>0, <2>1, BatchTyped
  <2>3. IsDrained(old) \in BOOLEAN
    BY DEF IsDrained
  <2>4. PassOK'
    BY <2>1, <2>3
  <2> QED
    BY <1>4, <1>a, <2>2, <2>4 DEF Retains
<1>5. CASE Sweeps
  BY <1>0, <1>5, <1>b, <1>c, SweepTyped DEF Sweeps
<1>6. CASE Aborts
  <2>1. faults' \in 0 .. MaxFaults
    BY <1>0, <1>6 DEF Aborts
  <2> QED
    BY <1>6, <1>a, <1>b, <1>c, <2>1 DEF Aborts
<1>7. CASE Crashes
  <2>1. faults' \in 0 .. MaxFaults
    BY <1>0, <1>7 DEF Crashes
  <2>2. FileTypeOK'
    BY <1>0, <1>7, SweepTyped DEF Crashes
  <2> QED
    BY <1>7, <1>b, <1>c, <2>1, <2>2 DEF Crashes
<1>8. CASE Tick
  <2>1. FileTypeOK' /\ AuditTypeOK'
    BY <1>0, <1>8, AgesTyped, TickTyped DEF Tick
  <2>2. PassOK'
    BY <1>0, <1>8 DEF Tick
  <2> QED
    BY <1>8, <2>1, <2>2 DEF Tick
<1>9. CASE UNCHANGED vars
  BY <1>9, <1>a, <1>b DEF vars, mediaVars, auditVars
<1> QED
  BY <1>1, <1>2, <1>3, <1>4, <1>5, <1>6, <1>7, <1>8, <1>9 DEF Next, Maintains

(* The stores stay of their types: bodies, edges, records and rows only of  *)
(* what was captured and asked, remaining times and ages within the         *)
(* retentions and the delay of a pass (audit_payloads, listing_images).     *)
THEOREM MaintenanceTypeCorrect == Spec => []TypeOK
<1>1. Init => TypeOK
  BY PayloadAssumption, MaintenanceAssumption
     DEF Init, TypeOK, FilesInit, AuditInit, NoFiles, NoPass, FileTypeOK, AuditTypeOK
<1> QED
  BY <1>1, TypesStep, SpecIInv, PTL DEF Spec
=============================================================================
