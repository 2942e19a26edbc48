--------------------------- MODULE MigrationsProofs ---------------------------
(***************************************************************************)
(* That the ledger is true and the application runs on the schema of its    *)
(* release, for any number of processes that migrate at once, any releases  *)
(* whose files are a prefix of the order, and any faults.                   *)
(*                                                                         *)
(* A process decides by the ledger that it read when it started.  What      *)
(* makes this safe: a row of the ledger is never removed and is only ever   *)
(* changed to the checksum of the release, and the unique name stops a      *)
(* second application.                                                      *)
(*                                                                         *)
(* And that the repairs keep their promise, for any adverts: what holds of  *)
(* the adverts before 107, between 107 and 109, and after 109, is stated    *)
(* for each phase; each repair leads from one phase to the next, and what   *)
(* the application discovers or announces meanwhile keeps to its phase.     *)
(***************************************************************************)
EXTENDS Migrations, Integers, FiniteSetTheorems, SequenceTheorems, WellFoundedInduction, TLAPS

Shape ==
    /\ release \in Releases
    /\ DOMAIN ledger \subseteq Migration
    /\ applied \in [Migration -> Nat]
    /\ DOMAIN proc = Process
    /\ \A p \in Process : proc[p].next \in Nat /\ proc[p].next >= 1

(* The copy of the ledger is behind, never ahead. *)
CopyIsBehind ==
    \A p \in Process : \A m \in DOMAIN proc[p].executed :
        m \in DOMAIN ledger /\ ledger[m] \in {proc[p].executed[m], release[m]}

(* What a process has gone through is as its release has it. *)
GoneThrough ==
    \A p \in Process : proc[p].at # "down" => \A i \in 1 .. Len(Order) : i < proc[p].next =>
        Order[i] \in DOMAIN ledger /\ ledger[Order[i]] = release[Order[i]]

ReadyIsDone ==
    \A p \in Process : proc[p].at = "ready" => ~HasNext(p)

IInv == Shape /\ LedgerIsTrue /\ CopyIsBehind /\ GoneThrough /\ ReadyIsDone

LEMMA OrderFacts ==
    /\ Len(Order) = 4
    /\ \A i \in 1 .. Len(Order) : Order[i] \in Migration
    /\ \A i, j \in 1 .. Len(Order) : Order[i] = Order[j] => i = j
    /\ Order[1] = 100
    /\ \A m \in Migration : \E i \in 1 .. Len(Order) : m = Order[i]
<1>1. Len(Order) = 4 /\ Order[1] = 100 /\ Order[2] = 101 /\ Order[3] = 107 /\ Order[4] = 109
  BY DEF Order
<1>2. \A i \in 1 .. Len(Order) : i = 1 \/ i = 2 \/ i = 3 \/ i = 4
  BY <1>1
<1>3. \A i, j \in 1 .. Len(Order) : Order[i] = Order[j] => i = j
  BY <1>1, <1>2
<1>4. /\ \A i \in 1 .. Len(Order) : Order[i] \in Migration
      /\ \A m \in Migration : \E i \in 1 .. Len(Order) : m = Order[i]
  BY DEF Migration
<1> QED
  BY <1>1, <1>3, <1>4

LEMMA InitIInv == Init => IInv
<1> SUFFICES ASSUME Init PROVE IInv
  OBVIOUS
<1>1. PICK d \in Databases :
         /\ ledger = d.ledger
         /\ applied = [m \in Migration |-> IF m \in DOMAIN d.ledger THEN 1 ELSE 0]
  BY DEF Init
<1>2. PICK n \in 0 .. Len(Order) : DOMAIN d.ledger = {Order[i] : i \in 1 .. n}
  BY MigrationsAssumption
<1>3. \A i \in 1 .. Len(Order) : Order[i] \in DOMAIN ledger <=> i <= n
  BY <1>1, <1>2, OrderFacts
<1>4. \A p \in Process : /\ proc[p].at = "down" /\ proc[p].next = 1
                         /\ DOMAIN proc[p].executed = {}
  BY DEF Init, Down
<1>5. DOMAIN ledger \subseteq Migration
  BY <1>1, <1>2, OrderFacts
<1>6. Shape
  BY <1>1, <1>4, <1>5 DEF Init, Shape
<1>7. LedgerIsTrue
  <2>1. \A m \in DOMAIN applied \ {100} : applied[m] = IF m \in DOMAIN ledger THEN 1 ELSE 0
    BY <1>1
  <2>2. \A i, j \in 1 .. Len(Order) :
           i < j /\ Order[j] \in DOMAIN ledger => Order[i] \in DOMAIN ledger
    BY <1>3, OrderFacts
  <2> QED
    BY <2>1, <2>2 DEF LedgerIsTrue
<1> QED
  BY <1>4, <1>6, <1>7 DEF IInv, CopyIsBehind, GoneThrough, ReadyIsDone

(* Steps that leave the ledger alone and put a process where it may be. *)
LEMMA ProcessMoves ==
    ASSUME IInv, NEW p \in Process, NEW r, proc' = [proc EXCEPT ![p] = r],
           UNCHANGED <<release, ledger, applied>>,
           r.next \in Nat /\ r.next >= 1,
           \A m \in DOMAIN r.executed : m \in DOMAIN ledger /\ ledger[m] \in {r.executed[m], release[m]},
           r.at # "down" => \A i \in 1 .. Len(Order) : i < r.next =>
               Order[i] \in DOMAIN ledger /\ ledger[Order[i]] = release[Order[i]],
           r.at = "ready" => ~(r.next <= Len(Order) /\ Order[r.next] \in DOMAIN release)
    PROVE  IInv'
<1>1. /\ DOMAIN proc' = Process
      /\ proc'[p] = r
      /\ \A q \in Process \ {p} : proc'[q] = proc[q]
  BY DEF IInv, Shape
<1>2. Shape'
  BY <1>1 DEF IInv, Shape
<1>3. LedgerIsTrue'
  BY DEF IInv, LedgerIsTrue
<1>4. CopyIsBehind'
  BY <1>1 DEF IInv, CopyIsBehind
<1>5. GoneThrough'
  BY <1>1 DEF IInv, GoneThrough
<1>6. ReadyIsDone'
  BY <1>1 DEF IInv, ReadyIsDone, HasNext
<1> QED
  BY <1>2, <1>3, <1>4, <1>5, <1>6 DEF IInv

LEMMA DownMoves ==
    ASSUME IInv, NEW p \in Process, proc' = [proc EXCEPT ![p] = Down],
           UNCHANGED <<release, ledger, applied>>
    PROVE  IInv'
<1> DEFINE r == Down
<1>1. r.next = 1 /\ DOMAIN r.executed = {} /\ r.at = "down"
  BY DEF Down
<1>2. proc' = [proc EXCEPT ![p] = r]
  OBVIOUS
<1> HIDE DEF r
<1>3. r.next \in Nat /\ r.next >= 1
  BY <1>1
<1>4. \A m \in DOMAIN r.executed : m \in DOMAIN ledger /\ ledger[m] \in {r.executed[m], release[m]}
  BY <1>1
<1>5. /\ r.at # "down" => \A i \in 1 .. Len(Order) : i < r.next =>
            Order[i] \in DOMAIN ledger /\ ledger[Order[i]] = release[Order[i]]
      /\ r.at = "ready" => ~(r.next <= Len(Order) /\ Order[r.next] \in DOMAIN release)
  BY <1>1
<1> QED
  BY <1>2, <1>3, <1>4, <1>5, ProcessMoves

(* A write of the ledger's row of the file that the process is at. *)
LEMMA RowWritten ==
    ASSUME IInv, NEW p \in Process, Steps(p),
           DOMAIN ledger' = DOMAIN ledger \cup {At(p)},
           \A m \in DOMAIN ledger' : ledger'[m] = IF m = At(p) THEN release[m] ELSE ledger[m],
           applied' \in [Migration -> Nat],
           \A m \in Migration \ {100} :
              applied'[m] = IF m \in DOMAIN ledger' THEN 1 ELSE 0,
           Goes(p, With(proc[p].executed, At(p), release[At(p)])),
           UNCHANGED release
    PROVE  IInv'
<1> DEFINE m0 == At(p)
           n0 == proc[p].next
<1>1. /\ n0 \in 1 .. Len(Order) /\ m0 = Order[n0] /\ m0 \in Migration
      /\ proc[p].at = "runs"
  BY OrderFacts DEF Steps, HasNext, At, IInv, Shape
<1>2. /\ DOMAIN proc' = Process
      /\ proc'[p].at = "runs" /\ proc'[p].next = n0 + 1
      /\ proc'[p].executed = With(proc[p].executed, m0, release[m0])
      /\ \A q \in Process \ {p} : proc'[q] = proc[q]
  BY DEF Goes, IInv, Shape
<1>3. /\ DOMAIN proc'[p].executed = DOMAIN proc[p].executed \cup {m0}
      /\ \A m \in DOMAIN proc'[p].executed :
            proc'[p].executed[m] = IF m = m0 THEN release[m0] ELSE proc[p].executed[m]
  BY <1>2 DEF With
<1>4. Shape'
  BY <1>1, <1>2 DEF IInv, Shape
<1>5. LedgerIsTrue'
  <2>1. DOMAIN applied' = Migration
    OBVIOUS
  <2>2. ASSUME NEW i \in 1 .. Len(Order), NEW j \in 1 .. Len(Order), i < j,
               Order[j] \in DOMAIN ledger'
        PROVE  Order[i] \in DOMAIN ledger'
    <3>1. CASE Order[j] = m0
      <4>1. j = n0
        BY <1>1, <3>1, OrderFacts
      <4>2. Order[i] \in DOMAIN ledger
        BY <1>1, <2>2, <4>1 DEF IInv, GoneThrough
      <4> QED
        BY <4>2
    <3>2. CASE Order[j] # m0
      BY <2>2, <3>2 DEF IInv, LedgerIsTrue
    <3> QED
      BY <3>1, <3>2
  <2> QED
    BY <2>1, <2>2 DEF LedgerIsTrue
<1>6. CopyIsBehind'
  <2> SUFFICES ASSUME NEW q \in Process, NEW m \in DOMAIN proc'[q].executed
               PROVE  m \in DOMAIN ledger' /\ ledger'[m] \in {proc'[q].executed[m], release[m]}
    BY DEF CopyIsBehind
  <2>1. CASE m = m0
    BY <2>1
  <2>2. CASE m # m0
    <3>1. m \in DOMAIN proc[q].executed /\ proc'[q].executed[m] = proc[q].executed[m]
      BY <1>2, <1>3, <2>2
    <3>2. m \in DOMAIN ledger /\ ledger[m] \in {proc[q].executed[m], release[m]}
      BY <3>1 DEF IInv, CopyIsBehind
    <3> QED
      BY <2>2, <3>1, <3>2
  <2> QED
    BY <2>1, <2>2
<1>7. GoneThrough'
  <2> SUFFICES ASSUME NEW q \in Process, proc'[q].at # "down",
                      NEW i \in 1 .. Len(Order), i < proc'[q].next
               PROVE  Order[i] \in DOMAIN ledger' /\ ledger'[Order[i]] = release[Order[i]]
    BY DEF GoneThrough
  <2>1. CASE Order[i] = m0
    BY <2>1
  <2>2. CASE Order[i] # m0
    <3>1. proc[q].at # "down" /\ i < proc[q].next
      <4>1. CASE q = p
        BY <1>1, <1>2, <2>2, <4>1
      <4>2. CASE q # p
        BY <1>2, <4>2
      <4> QED
        BY <4>1, <4>2
    <3>2. Order[i] \in DOMAIN ledger /\ ledger[Order[i]] = release[Order[i]]
      BY <3>1 DEF IInv, GoneThrough
    <3> QED
      BY <2>2, <3>2
  <2> QED
    BY <2>1, <2>2
<1>8. ReadyIsDone'
  <2> SUFFICES ASSUME NEW q \in Process, proc'[q].at = "ready"
               PROVE  ~HasNext(q)'
    BY DEF ReadyIsDone
  <2>1. q # p
    BY <1>2
  <2> QED
    BY <1>2, <2>1 DEF IInv, ReadyIsDone, HasNext
<1> QED
  BY <1>4, <1>5, <1>6, <1>7, <1>8 DEF IInv

LEMMA NextIInv == IInv /\ [Next]_vars => IInv'
<1> SUFFICES ASSUME IInv, [Next]_vars PROVE IInv'
  OBVIOUS
<1>1. ASSUME NEW p \in Process, Starts(p)
      PROVE  IInv'
  <2> DEFINE r == [at |-> "runs", next |-> 1, executed |-> ledger]
  <2>1. proc' = [proc EXCEPT ![p] = r] /\ UNCHANGED <<release, ledger, applied>>
    BY <1>1 DEF Starts
  <2>2. r.at = "runs" /\ r.next = 1 /\ r.executed = ledger
    OBVIOUS
  <2> HIDE DEF r
  <2>3. r.next \in Nat /\ r.next >= 1
    BY <2>2
  <2>4. \A m \in DOMAIN r.executed : m \in DOMAIN ledger /\ ledger[m] \in {r.executed[m], release[m]}
    BY <2>2
  <2>5. \A i \in 1 .. Len(Order) : i < r.next =>
           Order[i] \in DOMAIN ledger /\ ledger[Order[i]] = release[Order[i]]
    BY <2>2, OrderFacts
  <2>6. r.at = "ready" => ~(r.next <= Len(Order) /\ Order[r.next] \in DOMAIN release)
    BY <2>2
  <2> QED
    BY <2>1, <2>3, <2>4, <2>5, <2>6, ProcessMoves
<1>2. ASSUME NEW p \in Process, Skips(p)
      PROVE  IInv'
  <2> DEFINE r == [at |-> "runs", next |-> proc[p].next + 1, executed |-> proc[p].executed]
  <2>1. proc' = [proc EXCEPT ![p] = r] /\ UNCHANGED <<release, ledger, applied>>
    BY <1>2 DEF Skips, Goes
  <2>2. r.at = "runs" /\ r.next = proc[p].next + 1 /\ r.executed = proc[p].executed
    OBVIOUS
  <2> HIDE DEF r
  <2>3. /\ proc[p].at = "runs"
        /\ At(p) \in DOMAIN proc[p].executed
        /\ proc[p].executed[At(p)] = release[At(p)]
    BY <1>2 DEF Skips, Steps, IsExecuted
  <2>4. At(p) \in DOMAIN ledger /\ ledger[At(p)] = release[At(p)]
    BY <2>3 DEF IInv, CopyIsBehind
  <2>5. ASSUME NEW i \in 1 .. Len(Order), i < r.next
        PROVE  Order[i] \in DOMAIN ledger /\ ledger[Order[i]] = release[Order[i]]
    <3>1. CASE i = proc[p].next
      BY <2>4, <3>1 DEF At
    <3>2. CASE i < proc[p].next
      BY <2>3, <3>2 DEF IInv, GoneThrough
    <3> QED
      BY <2>2, <2>5, <3>1, <3>2, OrderFacts DEF IInv, Shape
  <2>6. r.next \in Nat /\ r.next >= 1
    BY <2>2 DEF IInv, Shape
  <2>7. \A m \in DOMAIN r.executed : m \in DOMAIN ledger /\ ledger[m] \in {r.executed[m], release[m]}
    BY <2>2 DEF IInv, CopyIsBehind
  <2> QED
    BY <2>1, <2>2, <2>5, <2>6, <2>7, ProcessMoves
<1>3. ASSUME NEW p \in Process, NEW at, Enters(p, at), proc[p].at = "runs",
             at = "ready" => ~HasNext(p), UNCHANGED <<release, ledger, applied>>
      PROVE  IInv'
  <2> DEFINE r == [at |-> at, next |-> proc[p].next, executed |-> proc[p].executed]
  <2>1. proc' = [proc EXCEPT ![p] = r] /\ UNCHANGED <<release, ledger, applied>>
    BY <1>3 DEF Enters
  <2>2. r.at = at /\ r.next = proc[p].next /\ r.executed = proc[p].executed
    OBVIOUS
  <2> HIDE DEF r
  <2>3. r.next \in Nat /\ r.next >= 1
    BY <2>2 DEF IInv, Shape
  <2>4. \A m \in DOMAIN r.executed : m \in DOMAIN ledger /\ ledger[m] \in {r.executed[m], release[m]}
    BY <2>2 DEF IInv, CopyIsBehind
  <2>5. \A i \in 1 .. Len(Order) : i < r.next =>
           Order[i] \in DOMAIN ledger /\ ledger[Order[i]] = release[Order[i]]
    BY <1>3, <2>2 DEF IInv, GoneThrough
  <2>6. r.at = "ready" => ~(r.next <= Len(Order) /\ Order[r.next] \in DOMAIN release)
    BY <1>3, <2>2 DEF HasNext
  <2> QED
    BY <2>1, <2>3, <2>4, <2>5, <2>6, ProcessMoves
<1>4. ASSUME NEW p \in Process, AdvancesChecksum(p)
      PROVE  IInv'
  <2>1. /\ Steps(p)
        /\ At(p) \in DOMAIN proc[p].executed
        /\ ledger' = [ledger EXCEPT ![At(p)] = release[At(p)]]
        /\ Goes(p, With(proc[p].executed, At(p), release[At(p)]))
        /\ UNCHANGED <<release, applied>>
    BY <1>4 DEF AdvancesChecksum, Pending, IsCorrectedSourceIdentityUpgrade
  <2>2. At(p) \in DOMAIN ledger
    BY <2>1 DEF IInv, CopyIsBehind
  <2>3. /\ DOMAIN ledger' = DOMAIN ledger \cup {At(p)}
        /\ \A m \in DOMAIN ledger' : ledger'[m] = IF m = At(p) THEN release[m] ELSE ledger[m]
    BY <2>1, <2>2
  <2>4. \A m \in Migration \ {100} : applied'[m] = IF m \in DOMAIN ledger' THEN 1 ELSE 0
    BY <2>1, <2>2, <2>3 DEF IInv, Shape, LedgerIsTrue
  <2>5. applied' \in [Migration -> Nat]
    BY <2>1 DEF IInv, Shape
  <2> QED
    BY <2>1, <2>3, <2>4, <2>5, RowWritten
<1>5. ASSUME NEW p \in Process, Applies(p)
      PROVE  IInv'
  <2>1. /\ Steps(p)
        /\ MayRecord(At(p), proc[p].executed)
        /\ ledger' = With(ledger, At(p), release[At(p)])
        /\ applied' = [applied EXCEPT ![At(p)] = @ + 1]
        /\ Goes(p, With(proc[p].executed, At(p), release[At(p)]))
        /\ UNCHANGED release
    BY <1>5 DEF Applies, Pending
  <2>2. /\ DOMAIN ledger' = DOMAIN ledger \cup {At(p)}
        /\ \A m \in DOMAIN ledger' : ledger'[m] = IF m = At(p) THEN release[m] ELSE ledger[m]
    BY <2>1 DEF With
  <2>3. At(p) \in Migration
    BY <2>1, OrderFacts DEF Steps, HasNext, At, IInv, Shape
  <2>4. At(p) # 100 => At(p) \notin DOMAIN ledger
    BY <2>1 DEF MayRecord, IsLegacyBaselineUpgrade
  <2>5. applied' \in [Migration -> Nat]
    BY <2>1, <2>3 DEF IInv, Shape
  <2>6. \A m \in Migration \ {100} : applied'[m] = IF m \in DOMAIN ledger' THEN 1 ELSE 0
    <3> SUFFICES ASSUME NEW m \in Migration, m # 100
                 PROVE  applied'[m] = IF m \in DOMAIN ledger' THEN 1 ELSE 0
      OBVIOUS
    <3>1. applied[m] = IF m \in DOMAIN ledger THEN 1 ELSE 0
      BY DEF IInv, Shape, LedgerIsTrue
    <3>2. CASE m = At(p)
      <4>1. applied[m] = 0 /\ m \in DOMAIN ledger'
        BY <2>2, <2>4, <3>1, <3>2
      <4>2. applied'[m] = applied[m] + 1
        BY <2>1, <3>2 DEF IInv, Shape
      <4> QED
        BY <4>1, <4>2
    <3>3. CASE m # At(p)
      <4>1. applied'[m] = applied[m]
        BY <2>1, <3>3 DEF IInv, Shape
      <4> QED
        BY <2>2, <3>1, <3>3, <4>1
    <3> QED
      BY <3>2, <3>3
  <2> QED
    BY <2>1, <2>2, <2>5, <2>6, RowWritten
<1>6. ASSUME NEW p \in Process, Rejects(p) \/ Collides(p) \/ Fails(p) \/ Dies(p) \/ Ends(p)
      PROVE  IInv'
  <2>1. proc' = [proc EXCEPT ![p] = Down] /\ UNCHANGED <<release, ledger, applied>>
    BY <1>6 DEF Rejects, Collides, Fails, Dies, Ends
  <2> QED
    BY <2>1, DownMoves
<1>7. CASE Deploys
  <2>1. /\ release' \in Releases
        /\ proc' = [p \in Process |-> Down]
        /\ UNCHANGED <<ledger, applied>>
    BY <1>7 DEF Deploys
  <2>2. \A p \in Process : /\ proc'[p].at = "down" /\ proc'[p].next = 1
                           /\ DOMAIN proc'[p].executed = {}
    BY <2>1 DEF Down
  <2>3. Shape'
    BY <2>1, <2>2 DEF IInv, Shape
  <2>4. LedgerIsTrue'
    BY <2>1 DEF IInv, LedgerIsTrue
  <2> QED
    BY <2>2, <2>3, <2>4 DEF IInv, CopyIsBehind, GoneThrough, ReadyIsDone
<1>8. ASSUME UNCHANGED <<release, ledger, applied, proc>>
      PROVE  IInv'
  <2>1. Shape' /\ LedgerIsTrue'
    BY <1>8 DEF IInv, Shape, LedgerIsTrue
  <2>2. CopyIsBehind' /\ GoneThrough' /\ ReadyIsDone'
    BY <1>8 DEF IInv, CopyIsBehind, GoneThrough, ReadyIsDone, HasNext
  <2> QED
    BY <2>1, <2>2 DEF IInv
<1>9. ASSUME NEW p \in Process, Refuses(p) \/ Finishes(p)
      PROVE  IInv'
  <2>1. CASE Refuses(p)
    <3>1. Enters(p, "refused") /\ proc[p].at = "runs" /\ UNCHANGED <<release, ledger, applied>>
      BY <2>1 DEF Refuses, Steps
    <3> QED
      BY <3>1, <1>3
  <2>2. CASE Finishes(p)
    <3>1. /\ Enters(p, "ready") /\ proc[p].at = "runs" /\ ~HasNext(p)
          /\ UNCHANGED <<release, ledger, applied>>
      BY <2>2 DEF Finishes
    <3> QED
      BY <3>1, <1>3
  <2> QED
    BY <1>9, <2>1, <2>2
<1>10. ASSUME NEW p \in Process, Starts(p) \/ Migrates(p) \/ Fails(p) \/ Dies(p) \/ Ends(p)
       PROVE  IInv'
  BY <1>1, <1>2, <1>4, <1>5, <1>6, <1>9, <1>10 DEF Migrates
<1>11. CASE (\E k \in NewKeys : Discovers(k)) \/ (\E s \in data.sources : Finalizes(s))
  BY <1>8, <1>11 DEF Discovers, Finalizes
<1>12. CASE \E l \in data.waiting : Announces(l)
  BY <1>8, <1>12 DEF Announces
<1>13. CASE UNCHANGED vars
  BY <1>8, <1>13 DEF vars
<1>14. CASE Consolidates
  BY <1>8, <1>14 DEF Consolidates
<1> QED
  BY <1>7, <1>10, <1>11, <1>12, <1>13, <1>14 DEF Next

LEMMA SpecIInv == Spec => []IInv
<1>1. Init => IInv
  BY InitIInv
<1>2. IInv /\ [Next]_vars => IInv'
  BY NextIInv
<1> QED
  BY <1>1, <1>2, PTL DEF Spec

LEMMA IInvReady == IInv => ReadyOnCurrentSchema
<1> SUFFICES ASSUME IInv, proc[app].at = "ready", NEW m \in DOMAIN release
             PROVE  m \in DOMAIN ledger /\ ledger[m] = release[m]
  BY DEF ReadyOnCurrentSchema
<1>1. app \in Process /\ proc[app].next \in Nat
  BY MigrationsAssumption DEF IInv, Shape
<1>2. PICK n \in 1 .. Len(Order) : DOMAIN release = {Order[i] : i \in 1 .. n}
  BY MigrationsAssumption DEF IInv, Shape
<1>3. PICK i \in 1 .. n : m = Order[i]
  BY <1>2
<1>4. i \in 1 .. Len(Order)
  BY <1>2, <1>3, OrderFacts
<1>5. i < proc[app].next
  <2> SUFFICES ASSUME ~(i < proc[app].next) PROVE FALSE
    OBVIOUS
  <2>1. proc[app].next \in 1 .. n /\ proc[app].next <= Len(Order)
    BY <1>1, <1>2, <1>3, OrderFacts DEF IInv, Shape
  <2>2. Order[proc[app].next] \in DOMAIN release
    BY <1>2, <2>1
  <2> QED
    BY <1>1, <2>1, <2>2 DEF IInv, ReadyIsDone, HasNext
<1> QED
  BY <1>1, <1>3, <1>4, <1>5 DEF IInv, GoneThrough

(* Every migration but the baseline changes a database once, and in order,  *)
(* however many processes migrate it at once (migrate.js:108-165).          *)
THEOREM LedgerStaysTrue == Spec => []LedgerIsTrue
<1>1. IInv => LedgerIsTrue
  BY DEF IInv
<1> QED
  BY <1>1, SpecIInv, PTL

(* The application is ready only when the database has every file of its    *)
(* release, unchanged (index.js:52-55).                                     *)
THEOREM ReadyMeansCurrent == Spec => []ReadyOnCurrentSchema
  BY SpecIInv, IInvReady, PTL

(* Both together: what the ledger says is so, and the application starts    *)
(* only on that.                                                            *)
THEOREM SchemaIsAlwaysKnown == Spec => []SchemaIsKnown
<1>1. LedgerIsTrue /\ ReadyOnCurrentSchema => SchemaIsKnown
  BY DEF SchemaIsKnown
<1> QED
  BY <1>1, LedgerStaysTrue, ReadyMeansCurrent, PTL
-----------------------------------------------------------------------------
(* Sets of natural numbers. *)
LEMMA LeastOf ==
    ASSUME NEW T, T \subseteq Nat, T # {}
    PROVE  \E m \in T : \A k \in T : m <= k
<1> DEFINE R == OpToRel(<, Nat)
<1>1. IsWellFoundedOn(R, Nat)
  BY NatLessThanWellFounded
<1>2. \A x, y \in Nat : x < y => <<x, y>> \in R
  BY DEF OpToRel
<1> HIDE DEF R
<1>3. PICK m \in T : \A k \in T : ~(<<k, m>> \in R)
  BY <1>1, WFMin
<1>4. ASSUME NEW k \in T PROVE m <= k
  <2>1. k \in Nat /\ m \in Nat /\ ~(k < m)
    BY <1>2, <1>3
  <2> QED
    BY <2>1
<1> QED
  BY <1>4

LEMMA LeastIs ==
    ASSUME NEW T, T \subseteq Nat, T # {}
    PROVE  Least(T) \in T /\ \A k \in T : Least(T) <= k
<1>1. \E m \in T : \A k \in T : m <= k
  BY LeastOf
<1> QED
  BY <1>1 DEF Least

LEMMA GreatestIs ==
    ASSUME NEW T, T \subseteq Nat, T # {}, NEW b \in Nat, \A k \in T : k <= b
    PROVE  Greatest(T) \in T /\ \A k \in T : k <= Greatest(T)
<1> DEFINE U == {u \in Nat : \A k \in T : k <= u}
<1>1. PICK u \in U : \A v \in U : u <= v
  <2>1. U \subseteq Nat /\ b \in U
    OBVIOUS
  <2> HIDE DEF U
  <2> QED
    BY <2>1, LeastOf
<1>2. u \in T
  <2> SUFFICES ASSUME u \notin T PROVE FALSE
    OBVIOUS
  <2>1. \A k \in T : k < u /\ k \in Nat
    BY <1>1
  <2>2. u - 1 \in Nat
    <3>1. PICK k \in T : TRUE
      OBVIOUS
    <3>2. k \in Nat /\ k < u
      BY <2>1
    <3> QED
      BY <1>1, <3>2
  <2>3. u - 1 \in U
    BY <2>1, <2>2, <1>1
  <2> QED
    BY <1>1, <2>3
<1>3. \E m \in T : \A k \in T : k <= m
  BY <1>1, <1>2
<1> QED
  BY <1>3 DEF Greatest

(* A finite set of sources has a time by which all were last seen. *)
SeenBy(S) == \E b \in Nat : \A s \in S : s.last <= b

LEMMA FiniteIsSeen ==
    ASSUME NEW S \in SUBSET Source, IsFiniteSet(S)
    PROVE  SeenBy(S)
<1>1. PICK q \in Seq(S) : \A s \in S : \E n \in 1 .. Len(q) : q[n] = s
  BY DEF IsFiniteSet
<1>2. Len(q) \in Nat /\ q \in [1 .. Len(q) -> S]
  BY LenProperties
<1> DEFINE P(n) == \E b \in Nat : \A i \in 1 .. Len(q) : i <= n => q[i].last <= b
           T == {n \in 0 .. Len(q) : ~P(n)}
<1>3. P(0)
  BY <1>2
<1>4. ASSUME NEW n \in Nat, n + 1 \in 1 .. Len(q), P(n)
      PROVE  P(n + 1)
  <2>1. PICK b \in Nat : \A i \in 1 .. Len(q) : i <= n => q[i].last <= b
    BY <1>4
  <2>2. q[n + 1] \in Source /\ \A i \in 1 .. Len(q) : q[i].last \in Nat
    BY <1>2, <1>4 DEF Source
  <2>3. q[n + 1].last \in Nat
    BY <2>2 DEF Source
  <2>4. b + q[n + 1].last \in Nat
    BY <2>3
  <2>5. \A i \in 1 .. Len(q) : i <= n + 1 => q[i].last <= b + q[n + 1].last
    <3> SUFFICES ASSUME NEW i \in 1 .. Len(q), i <= n + 1
                 PROVE  q[i].last <= b + q[n + 1].last
      OBVIOUS
    <3>1. CASE i = n + 1
      BY <2>3, <3>1
    <3>2. CASE i # n + 1
      <4>1. i <= n
        BY <1>2, <1>4, <3>2
      <4>2. q[i].last <= b /\ q[i].last \in Nat
        BY <2>1, <2>2, <4>1
      <4> QED
        BY <2>3, <4>2
    <3> QED
      BY <3>1, <3>2
  <2> QED
    BY <2>4, <2>5
<1>5. P(Len(q))
  <2> SUFFICES ASSUME ~P(Len(q)) PROVE FALSE
    OBVIOUS
  <2>1. T \subseteq Nat /\ Len(q) \in T
    BY <1>2
  <2> HIDE DEF P
  <2>2. PICK n \in T : \A m \in T : n <= m
    BY <2>1, LeastOf
  <2>3. n \in 0 .. Len(q) /\ ~P(n) /\ n # 0
    BY <1>3, <2>2
  <2>4. n - 1 \in 0 .. Len(q) /\ n - 1 \notin T /\ n - 1 \in Nat /\ (n - 1) + 1 = n
    BY <1>2, <2>2, <2>3
  <2>5. P(n - 1)
    BY <2>4
  <2>6. P((n - 1) + 1)
    BY <1>2, <1>4, <2>3, <2>4, <2>5
  <2> QED
    BY <2>3, <2>4, <2>6
<1>6. PICK b \in Nat : \A i \in 1 .. Len(q) : i <= Len(q) => q[i].last <= b
  BY <1>5
<1>7. \A s \in S : s.last <= b
  BY <1>1, <1>2, <1>6
<1> QED
  BY <1>7 DEF SeenBy

(* Of sources there is always an earliest. *)
LEMMA EarliestIs ==
    ASSUME NEW S \in SUBSET Source, S # {}
    PROVE  Earliest(S) \in S
<1> DEFINE F == {s.first : s \in S}
<1>1. PICK f \in F : \A g \in F : f <= g
  <2>1. F \subseteq Nat /\ F # {}
    BY DEF Source
  <2> HIDE DEF F
  <2> QED
    BY <2>1, LeastOf
<1> DEFINE I == {s.id : s \in {t \in S : t.first = f}}
<1>2. PICK i \in I : \A j \in I : i <= j
  <2>1. I \subseteq Nat /\ I # {}
    BY <1>1 DEF Source
  <2> HIDE DEF I
  <2> QED
    BY <2>1, LeastOf
<1>3. PICK s \in S : s.first = f /\ s.id = i
  BY <1>2
<1>4. ASSUME NEW t \in S
      PROVE  s.first < t.first \/ (s.first = t.first /\ s.id <= t.id)
  <2>1. s.first <= t.first /\ s.first \in Nat /\ t.first \in Nat
    BY <1>1, <1>3 DEF Source
  <2>2. s.first = t.first => s.id <= t.id
    BY <1>2, <1>3
  <2> QED
    BY <2>1, <2>2
<1>5. \E r \in S : \A t \in S : r.first < t.first \/ (r.first = t.first /\ r.id <= t.id)
  BY <1>4
<1> QED
  BY <1>5 DEF Earliest

LEMMA MergedIs ==
    ASSUME NEW rows \in SUBSET Source, SeenBy(rows), NEW k \in {s.key : s \in rows}
    PROVE  LET m == Merged({s \in rows : s.key = k})
           IN  /\ m \in Source
               /\ m.key = k
               /\ m.historical
               /\ m.listing # None => \E s \in rows : s.listing = m.listing
               /\ \E s \in rows : s.key = k /\ s.id = m.id
               /\ \A b \in Nat : (\A s \in rows : s.last <= b) => m.last <= b
<1> DEFINE same == {s \in rows : s.key = k}
           e == Earliest(same)
           lasts == {s.last : s \in same}
           l == LastListing(same)
<1>1. same \in SUBSET Source /\ same # {}
  OBVIOUS
<1>2. e \in same
  BY <1>1, EarliestIs
<1>3. PICK b \in Nat : \A s \in rows : s.last <= b
  BY DEF SeenBy
<1>4. lasts \subseteq Nat /\ lasts # {} /\ \A n \in lasts : n <= b
  BY <1>1, <1>3 DEF Source
<1>5. Greatest(lasts) \in lasts
  <2> HIDE DEF lasts
  <2> QED
    BY <1>4, GreatestIs
<1>6. l \in {None} \cup Listing /\ (l # None => \E s \in rows : s.listing = l)
  <2> DEFINE latest == {s \in Listed(same) : \A t \in Listed(same) : t.last <= s.last}
  <2>1. l = IF latest = {} THEN None ELSE (CHOOSE s \in latest : TRUE).listing
    BY DEF LastListing
  <2>2. latest \subseteq same
    BY DEF Listed
  <2> HIDE DEF latest, same, l
  <2>3. CASE latest = {}
    BY <2>1, <2>3
  <2>4. CASE latest # {}
    <3>1. (CHOOSE s \in latest : TRUE) \in latest
      BY <2>4
    <3>2. PICK s \in latest : l = s.listing
      BY <2>1, <2>4, <3>1
    <3>3. s \in rows /\ s.listing \in {None} \cup Listing
      BY <2>2, <3>2 DEF same, Source
    <3> QED
      BY <3>2, <3>3
  <2> QED
    BY <2>3, <2>4
<1> DEFINE m == [e EXCEPT !.listing = l, !.historical = TRUE, !.last = Greatest(lasts)]
<1>7. Merged(same) = m
  BY DEF Merged
<1>8. e \in Source /\ e \in rows /\ e.key = k /\ Greatest(lasts) \in Nat
  BY <1>2, <1>4, <1>5
<1>9. \A c \in Nat : (\A s \in rows : s.last <= c) => Greatest(lasts) <= c
  BY <1>5
<1> HIDE DEF e, l, lasts
<1>10. m \in Source
  BY <1>6, <1>8 DEF Source
<1>11. m.key = k /\ m.historical = TRUE /\ m.listing = l /\ m.id = e.id /\ m.last = Greatest(lasts)
  BY <1>8 DEF Source
<1> HIDE DEF m
<1>12. /\ m \in Source
       /\ m.key = k
       /\ m.historical
       /\ m.listing # None => \E s \in rows : s.listing = m.listing
       /\ \E s \in rows : s.key = k /\ s.id = m.id
       /\ \A c \in Nat : (\A s \in rows : s.last <= c) => m.last <= c
  BY <1>6, <1>8, <1>9, <1>10, <1>11
<1> QED
  BY <1>7, <1>12

(* What 107 makes of the rows before it takes listings apart. *)
OneForEach(sources, rows) ==
    /\ sources \in SUBSET Source
    /\ SeenBy(sources)
    /\ \A s, t \in sources : s.key = t.key => s = t
    /\ \A s, t \in sources : s.id = t.id => s = t
    /\ \A s \in sources : s.historical
    /\ {s.key : s \in sources} = {s.key : s \in rows}
    /\ \A s \in sources : s.listing # None => \E r \in rows : r.listing = s.listing

LEMMA ConsolidatedIs ==
    ASSUME NEW rows \in SUBSET Source, SeenBy(rows),
           \A s, t \in rows : s.id = t.id => s = t
    PROVE  OneForEach(Consolidated(rows), rows)
<1> DEFINE M(k) == Merged({s \in rows : s.key = k})
           Keys == {s.key : s \in rows}
           C == Consolidated(rows)
<1>1. C = {M(k) : k \in Keys}
  BY DEF Consolidated
<1>2. \A k \in Keys : /\ M(k) \in Source
                      /\ M(k).key = k
                      /\ M(k).historical
                      /\ M(k).listing # None => \E s \in rows : s.listing = M(k).listing
                      /\ \E s \in rows : s.key = k /\ s.id = M(k).id
                      /\ \A b \in Nat : (\A s \in rows : s.last <= b) => M(k).last <= b
  BY MergedIs
<1> HIDE DEF M, C
<1>3. C \in SUBSET Source
  BY <1>1, <1>2
<1>4. SeenBy(C)
  <2>1. PICK b \in Nat : \A s \in rows : s.last <= b
    BY DEF SeenBy
  <2>2. \A s \in C : s.last <= b
    BY <1>1, <1>2, <2>1
  <2> QED
    BY <2>2 DEF SeenBy
<1>5. \A s, t \in C : s.key = t.key => s = t
  BY <1>1, <1>2
<1>6. \A s, t \in C : s.id = t.id => s = t
  <2> SUFFICES ASSUME NEW j \in Keys, NEW k \in Keys, M(j).id = M(k).id
               PROVE  j = k
    BY <1>1
  <2>1. PICK s \in rows : s.key = j /\ s.id = M(j).id
    BY <1>2
  <2>2. PICK t \in rows : t.key = k /\ t.id = M(k).id
    BY <1>2
  <2> QED
    BY <2>1, <2>2
<1>7. {s.key : s \in C} = Keys
  BY <1>1, <1>2
<1>8. \A s \in C : s.historical /\ (s.listing # None => \E r \in rows : r.listing = s.listing)
  BY <1>1, <1>2
<1> QED
  BY <1>3, <1>4, <1>5, <1>6, <1>7, <1>8 DEF OneForEach, C

LEMMA Names ==
    /\ \A n \in Nat : <<"split", n>> \in Listing /\ <<"new", n>> \in Listing
    /\ \A m, n : <<"split", m>> = <<"split", n>> => m = n
    /\ \A m, n : <<"new", m>> = <<"new", n>> => m = n
<1>2. \A n \in Nat : <<"split", n>> \in Listing /\ <<"new", n>> \in Listing
  BY DEF Listing
<1>3. ASSUME NEW m, NEW n, <<"split", m>> = <<"split", n>>
      PROVE  m = n
  <2>1. <<"split", m>>[2] = <<"split", n>>[2]
    BY <1>3
  <2> QED
    BY <2>1
<1>4. ASSUME NEW m, NEW n, <<"new", m>> = <<"new", n>>
      PROVE  m = n
  <2>1. <<"new", m>>[2] = <<"new", n>>[2]
    BY <1>4
  <2> QED
    BY <2>1
<1> QED
  BY <1>2, <1>3, <1>4

Agree(sources) ==
    \A s, t \in Listed(sources) :
        s.historical /\ t.historical /\ s.listing = t.listing => ~Contradicts(s.key, t.key)

(* What 107 leaves of the sources: each as it was, on listings that agree. *)
LEMMA SplitIs ==
    ASSUME NEW sources \in SUBSET Source,
           \A s \in sources : s.key \in DOMAIN Canon,
           \A s, t \in sources : s.key = t.key => s = t,
           \A s, t \in sources : s.id = t.id => s = t,
           \A s \in sources : s.listing # None => s.listing[1] = "old"
    PROVE  /\ Split(sources) \in SUBSET Source
           /\ Agree(Split(sources))
           /\ \A r \in Split(sources) : \E s \in sources :
                 r.key = s.key /\ r.last = s.last /\ r.historical = s.historical
           /\ \A s \in sources : \E r \in Split(sources) :
                 r.key = s.key /\ r.historical = s.historical
           /\ \A r, u \in Split(sources) : r.key = u.key => r = u
<1> DEFINE L(s) == Place(s, sources)
           G(s) == {t \in sources : t.listing = s.listing}
           P(s) == [s EXCEPT !.listing = L(s)]
<1>1. Split(sources) = {P(s) : s \in sources}
  BY DEF Split
<1>2. ASSUME NEW s \in sources
      PROVE  \/ L(s) = s.listing /\ (s.listing = None \/ ~Conflicts(G(s)) \/ s = Earliest(G(s)))
             \/ L(s) = None
             \/ L(s) = <<"split", s.id>>
  BY DEF Place
<1>3. \A s \in sources : s \in Source /\ s.id \in Nat /\ s.listing \in {None} \cup Listing
  BY DEF Source
<1>4. \A s \in sources : L(s) \in {None} \cup Listing
  <2> SUFFICES ASSUME NEW s \in sources PROVE L(s) \in {None} \cup Listing
    OBVIOUS
  <2>1. <<"split", s.id>> \in Listing
    BY <1>3, Names
  <2> HIDE DEF L
  <2> QED
    BY <1>2, <1>3, <2>1
<1>5. ASSUME NEW s \in sources, NEW t \in sources, L(s) = L(t), L(s) # None
      PROVE  ~Contradicts(s.key, t.key)
  <2>1. CASE s = t
    <3>1. FactsOf[s.key] \in Nat \cup {None}
      BY FactsAssumption
    <3> QED
      BY <2>1, <3>1 DEF Contradicts
  <2>2. CASE L(s) = s.listing /\ L(t) = t.listing /\ s # t
    <3>1. G(s) = G(t) /\ s \in G(s) /\ t \in G(s)
      BY <1>5, <2>2
    <3>2. ~Conflicts(G(s))
      <4>1. \A u \in {s, t} : L(u) = u.listing => ~Conflicts(G(u)) \/ u = Earliest(G(u))
        <5> SUFFICES ASSUME NEW u \in {s, t}, L(u) = u.listing
                     PROVE  ~Conflicts(G(u)) \/ u = Earliest(G(u))
          OBVIOUS
        <5>1. u \in sources /\ L(u) # None /\ u.listing # None
          BY <1>5
        <5>2. u.listing # <<"split", u.id>>
          <6>1. u.listing[1] # "split"
            BY <5>1
          <6>2. <<"split", u.id>>[1] = "split"
            OBVIOUS
          <6> HIDE DEF L, G
          <6> QED
            BY <6>1, <6>2
        <5> HIDE DEF L, G
        <5> QED
          BY <1>2, <5>1, <5>2
      <4> HIDE DEF L, G
      <4> QED
        BY <2>2, <3>1, <4>1
    <3> HIDE DEF L, G
    <3> QED
      BY <3>1, <3>2 DEF Conflicts
  <2>3. CASE L(s) = <<"split", s.id>> /\ L(t) = <<"split", t.id>>
    <3>1. s.id = t.id
      <4> HIDE DEF L
      <4> QED
        BY <1>5, <2>3, Names
    <3>2. s = t
      BY <3>1
    <3> QED
      BY <2>1, <3>2
  <2>4. ASSUME NEW u \in sources, NEW v \in sources, L(u) = L(v), L(u) = <<"split", u.id>>,
               L(v) = v.listing, L(v) # None
        PROVE  FALSE
    <3>1. v.listing[1] # "split"
      <4> HIDE DEF L
      <4> QED
        BY <2>4
    <3>2. v.listing = <<"split", u.id>>
      <4> HIDE DEF L
      <4> QED
        BY <2>4
    <3> QED
      BY <3>1, <3>2
  <2> HIDE DEF L, G
  <2> QED
    BY <1>2, <1>5, <2>1, <2>2, <2>3, <2>4
<1> HIDE DEF L
<1>7. ASSUME NEW s \in sources
      PROVE  /\ P(s) \in Source
             /\ P(s).listing = L(s)
             /\ P(s).key = s.key /\ P(s).last = s.last /\ P(s).historical = s.historical
  <2>1. s \in Source /\ L(s) \in {None} \cup Listing
    BY <1>4
  <2> QED
    BY <2>1 DEF Source
<1> HIDE DEF P
<1>8. Agree(Split(sources))
  <2> SUFFICES ASSUME NEW s \in sources, NEW t \in sources, P(s).listing = P(t).listing,
                      P(s).listing # None
               PROVE  ~Contradicts(P(s).key, P(t).key)
    BY <1>1 DEF Agree, Listed
  <2> QED
    BY <1>5, <1>7
<1>9. \A r, u \in Split(sources) : r.key = u.key => r = u
  BY <1>1, <1>7
<1> QED
  BY <1>1, <1>7, <1>8, <1>9

Silent(d) ==
    \A s \in Listed(d.sources) :
        s.historical => s.listing \in d.silent /\ s.listing \notin d.waiting

(* The adverts before 107, between 107 and 109, and after 109, of which     *)
(* there were those of the keys o before.                                   *)
Original(d, o) ==
    /\ d \in Row
    /\ SeenBy(d.sources)
    /\ \A s, t \in d.sources : s.id = t.id => s = t
    /\ \A s \in d.sources : s.key \in DOMAIN Canon
    /\ \A s \in d.sources : s.historical = FALSE
    /\ \A s \in d.sources : s.listing # None => s.listing[1] = "old"
    /\ o = {Canon[s.key] : s \in d.sources}

Shared(d, o) ==
    /\ d \in Row
    /\ SeenBy(d.sources)
    /\ \A s, t \in d.sources : s.key = t.key => s = t
    /\ \A s \in d.sources : s.key \in DOMAIN Canon
    /\ Agree(d.sources)
    /\ Silent(d)
    /\ \A k \in o : \E s \in d.sources : Canon[s.key] = k /\ s.historical

Canonical(d, o) ==
    /\ d \in Row
    /\ \A s \in d.sources : s.key \in DOMAIN Canon /\ s.key = Canon[s.key]
    /\ \A s, t \in d.sources : s.key = t.key => s = t
    /\ \A s \in d.sources : s.key \in o => s.historical
    /\ \A k \in o : \E s \in d.sources : s.key = k
    /\ d.claims = SourceClaims(d.sources)
    /\ Silent(d)

LEMMA RowIs ==
    ASSUME NEW d \in Row
    PROVE  /\ d.sources \in SUBSET Source
           /\ d.listings \in SUBSET Listing
           /\ d.silent \in SUBSET Listing
           /\ d.waiting \in SUBSET Listing
           /\ d.claims \in SUBSET (Nat \X Listing)
  BY DEF Row

LEMMA ListedIs ==
    ASSUME NEW S \in SUBSET Source
    PROVE  /\ {s.listing : s \in Listed(S)} \in SUBSET Listing
           /\ SourceClaims(S) \in SUBSET (Nat \X Listing)
<1>1. \A s \in Listed(S) : s.key \in Nat /\ s.listing \in Listing
  BY DEF Listed, Source
<1> QED
  BY <1>1 DEF SourceClaims

LEMMA SharedPipelineShares ==
    ASSUME NEW d, NEW o, Original(d, o)
    PROVE  Shared(SharedPipeline(d), o)
<1> DEFINE c == Consolidated(d.sources)
           S == Split(c)
           e == SharedPipeline(d)
           ls == d.listings \cup {s.listing : s \in Listed(S)}
<1>1. d \in Row /\ d.sources \in SUBSET Source
  BY RowIs DEF Original
<1>2. OneForEach(c, d.sources)
  BY <1>1, ConsolidatedIs DEF Original
<1> HIDE DEF c
<1>3. /\ \A s \in c : s.key \in DOMAIN Canon
      /\ \A s \in c : s.listing # None => s.listing[1] = "old"
  <2>3. \A s \in d.sources : s.key \in DOMAIN Canon /\ (s.listing # None => s.listing[1] = "old")
    BY DEF Original
  <2>1. ASSUME NEW s \in c
        PROVE  s.key \in DOMAIN Canon
    <3>1. s.key \in {r.key : r \in d.sources}
      BY <1>2 DEF OneForEach
    <3> QED
      BY <2>3, <3>1
  <2>2. ASSUME NEW s \in c, s.listing # None
        PROVE  s.listing[1] = "old"
    <3>1. PICK r \in d.sources : r.listing = s.listing
      BY <1>2, <2>2 DEF OneForEach
    <3> QED
      BY <2>2, <2>3, <3>1
  <2> QED
    BY <2>1, <2>2
<1>4. /\ S \in SUBSET Source
      /\ Agree(S)
      /\ \A r \in S : \E s \in c :
            r.key = s.key /\ r.last = s.last /\ r.historical = s.historical
      /\ \A s \in c : \E r \in S : r.key = s.key /\ r.historical = s.historical
      /\ \A r, u \in S : r.key = u.key => r = u
  BY <1>2, <1>3, SplitIs DEF OneForEach
<1>5. ls \in SUBSET Listing /\ SourceClaims(S) \in SUBSET (Nat \X Listing)
  BY <1>1, <1>4, RowIs, ListedIs
<1>6. e = [d EXCEPT !.sources = S, !.listings = ls, !.claims = SourceClaims(S),
                    !.silent = @ \cup ls, !.waiting = {}]
  BY <1>1 DEF SharedPipeline, Retired, c, Row
<1> HIDE DEF S, e
<1>7. \A s \in Listed(S) : s.listing \in ls
  OBVIOUS
<1> HIDE DEF ls
<1>8. e.sources = S /\ e.silent = d.silent \cup ls /\ e.waiting = {}
  BY <1>1, <1>6 DEF Row
<1>9. e \in Row
  BY <1>1, <1>4, <1>5, <1>6 DEF Row
<1>10. SeenBy(S)
  <2>1. PICK b \in Nat : \A s \in c : s.last <= b
    BY <1>2 DEF OneForEach, SeenBy
  <2>2. \A r \in S : r.last <= b
    BY <1>4, <2>1
  <2> QED
    BY <2>2 DEF SeenBy
<1>11. Silent(e)
  BY <1>7, <1>8 DEF Silent
<1>12. ASSUME NEW k \in o
       PROVE  \E s \in S : Canon[s.key] = k /\ s.historical
  <2>1. PICK s \in d.sources : Canon[s.key] = k
    BY DEF Original
  <2>2. PICK t \in c : t.key = s.key /\ t.historical
    <3>1. s.key \in {r.key : r \in c}
      BY <1>2 DEF OneForEach
    <3> QED
      BY <1>2, <3>1 DEF OneForEach
  <2> QED
    BY <1>4, <2>1, <2>2
<1>14. \A s \in S : s.key \in DOMAIN Canon
  BY <1>3, <1>4
<1>15. Shared(e, o)
  BY <1>4, <1>8, <1>9, <1>10, <1>11, <1>12, <1>14 DEF Shared
<1> QED
  BY <1>15 DEF e

LEMMA JoinedIs ==
    ASSUME NEW S \in SUBSET Source, SeenBy(S), \A s \in S : s.key \in DOMAIN Canon,
           NEW k \in {Canon[s.key] : s \in S}
    PROVE  LET same == {t \in S : Canon[t.key] = k}
               j    == Joined(same)
           IN  /\ j \in Source
               /\ j.key = k
               /\ j.historical = \E s \in same : s.historical
               /\ \E s \in same : s.listing = j.listing
<1> DEFINE same == {t \in S : Canon[t.key] = k}
           canonical == {s \in same : s.key = Canon[s.key]}
           heirs == IF canonical # {} THEN canonical ELSE same
           e == Earliest(heirs)
           firsts == {s.first : s \in same}
           lasts == {s.last : s \in same}
           h == \E s \in same : s.historical
           j == [e EXCEPT !.key = Canon[@], !.first = Least(firsts),
                          !.last = Greatest(lasts), !.historical = h]
<1>1. same \in SUBSET Source /\ same # {}
  OBVIOUS
<1>2. heirs \in SUBSET same /\ heirs # {}
  BY <1>1
<1>3. e \in same
  <2> HIDE DEF heirs, same
  <2>1. heirs \in SUBSET Source
    BY <1>1, <1>2
  <2> QED
    BY <1>2, <2>1, EarliestIs
<1>4. firsts \subseteq Nat /\ firsts # {}
  BY <1>1 DEF Source
<1>5. Least(firsts) \in Nat
  <2> HIDE DEF firsts
  <2> QED
    BY <1>4, LeastIs
<1>6. Greatest(lasts) \in Nat
  <2>1. PICK b \in Nat : \A s \in S : s.last <= b
    BY DEF SeenBy
  <2>2. lasts \subseteq Nat /\ lasts # {} /\ \A n \in lasts : n <= b
    BY <1>1, <2>1 DEF Source
  <2> HIDE DEF lasts
  <2> QED
    BY <2>2, GreatestIs
<1>7. Joined(same) = j
  BY DEF Joined
<1>8. h \in BOOLEAN
  OBVIOUS
<1>9. e \in Source /\ e.key \in DOMAIN Canon /\ Canon[e.key] = k /\ k \in Nat
  BY <1>3, CanonAssumption
<1> HIDE DEF e, firsts, lasts, h
<1>10. j \in Source
  BY <1>5, <1>6, <1>8, <1>9 DEF Source
<1>11. j.key = k /\ j.historical = h /\ j.listing = e.listing
  BY <1>9 DEF Source
<1> HIDE DEF j
<1>12. \E s \in same : s.listing = j.listing
  BY <1>3, <1>11
<1> QED
  BY <1>7, <1>10, <1>11, <1>12 DEF h

LEMMA CanonicalSourcesCanonical ==
    ASSUME NEW d, NEW o, Shared(d, o)
    PROVE  Canonical(CanonicalSources(d), o)
<1> DEFINE K(s) == Canon[s.key]
           J(k) == Joined({t \in d.sources : Canon[t.key] = k})
           Keys == {Canon[s.key] : s \in d.sources}
           N == Normalized(d.sources)
           H == {s.listing : s \in {t \in Listed(N) : t.historical}}
           e == CanonicalSources(d)
<1>1. /\ d \in Row /\ d.sources \in SUBSET Source /\ SeenBy(d.sources)
      /\ \A s \in d.sources : s.key \in DOMAIN Canon
  BY RowIs DEF Shared
<1>2. N = {J(k) : k \in Keys}
  BY DEF Normalized
<1>3. ASSUME NEW k \in Keys
      PROVE  /\ J(k) \in Source
             /\ J(k).key = k
             /\ J(k).historical = \E s \in d.sources : Canon[s.key] = k /\ s.historical
             /\ \E s \in d.sources : Canon[s.key] = k /\ s.listing = J(k).listing
  <2> DEFINE same == {t \in d.sources : Canon[t.key] = k}
  <2>1. LET j == Joined(same)
        IN  /\ j \in Source
            /\ j.key = k
            /\ j.historical = \E s \in same : s.historical
            /\ \E s \in same : s.listing = j.listing
    BY <1>1, JoinedIs
  <2>2. J(k) = Joined(same)
    OBVIOUS
  <2> HIDE DEF J
  <2> QED
    BY <2>1, <2>2
<1>18. \A s \in d.sources : Canon[s.key] \in Keys
  OBVIOUS
<1>19. \A k \in Keys : k \in DOMAIN Canon /\ Canon[k] = k
  BY <1>1, CanonAssumption
<1> HIDE DEF J, N, Keys
<1>20. \A k \in Keys : J(k) \in Source /\ J(k).key = k
  BY <1>3
<1>21. \A k \in Keys : J(k).historical = \E s \in d.sources : Canon[s.key] = k /\ s.historical
  BY <1>3
<1>4. N \in SUBSET Source
  BY <1>2, <1>3
<1>5. \A s \in N : s.key \in DOMAIN Canon /\ s.key = Canon[s.key]
  BY <1>2, <1>19, <1>20
<1>6. \A s, t \in N : s.key = t.key => s = t
  BY <1>2, <1>20
<1>7. \A s \in N : s.key \in o => s.historical
  <2>1. ASSUME NEW k \in Keys, k \in o
        PROVE  J(k).historical
    <3>1. PICK s \in d.sources : Canon[s.key] = k /\ s.historical
      BY <2>1 DEF Shared
    <3> QED
      BY <1>21, <3>1
  <2> QED
    BY <1>2, <1>20, <2>1
<1>8. \A k \in o : \E s \in N : s.key = k
  <2> SUFFICES ASSUME NEW k \in o PROVE \E s \in N : s.key = k
    OBVIOUS
  <2>1. PICK s \in d.sources : Canon[s.key] = k /\ s.historical
    BY DEF Shared
  <2>2. k \in Keys
    BY <1>18, <2>1
  <2> QED
    BY <1>2, <1>20, <2>2
<1>9. H \in SUBSET Listing
  BY <1>4 DEF Listed, Source
<1>10. e = [d EXCEPT !.sources = N, !.silent = @ \cup H, !.waiting = @ \ (d.silent \cup H),
                     !.claims = SourceClaims(N)]
  BY <1>1 DEF CanonicalSources, Reclaimed, Silenced, N, Row
<1>11. \A s \in Listed(N) : s.historical => s.listing \in H
  OBVIOUS
<1>12. SourceClaims(N) \in SUBSET (Nat \X Listing)
  BY <1>4, ListedIs
<1> HIDE DEF H, e
<1>13. e \in Row
  BY <1>1, <1>4, <1>9, <1>10, <1>12, RowIs DEF Row
<1>14. /\ e.sources = N /\ e.silent = d.silent \cup H /\ e.waiting = d.waiting \ (d.silent \cup H)
       /\ e.claims = SourceClaims(N)
  BY <1>1, <1>10 DEF Row
<1>15. Silent(e)
  BY <1>11, <1>14 DEF Silent
<1>17. Canonical(e, o)
  BY <1>4, <1>5, <1>6, <1>7, <1>8, <1>13, <1>14, <1>15 DEF Canonical
<1> QED
  BY <1>17 DEF e

(* What the application does to the adverts. *)
Discovered(d, key) ==
    [d EXCEPT !.sources = @ \cup {[id |-> 10 + key, key |-> key, first |-> 10 + key,
                                   last |-> 10 + key, listing |-> None, historical |-> FALSE]}]

Finalized(d, s, l, accepted) ==
    [d EXCEPT !.sources = (@ \ {s}) \cup {[s EXCEPT !.listing = l]},
              !.listings = @ \cup {l},
              !.waiting = IF accepted THEN @ \cup ({l} \ d.silent) ELSE @,
              !.claims = @ \cup {<<s.key, l>>}]

(* One source is written, which is not historical, and its claim recorded;  *)
(* nothing that is silent comes to wait.                                    *)
Writes(d, e, s, n) ==
    /\ n \in Source /\ n.historical = FALSE /\ n.key \in DOMAIN Canon
    /\ e \in Row
    /\ e.sources = (d.sources \ {s}) \cup {n}
    /\ s \in d.sources => s.key = n.key /\ s.listing = None /\ s.historical = FALSE
    /\ \A t \in d.sources : t.key = n.key => t = s
    /\ e.silent = d.silent
    /\ e.waiting \cap d.silent = d.waiting \cap d.silent
    /\ e.claims = d.claims \cup SourceClaims({n})
    /\ SeenBy(d.sources) => SeenBy(e.sources)

LEMMA SeenWith ==
    ASSUME NEW S \in SUBSET Source, SeenBy(S), NEW n \in Source, NEW T,
           T \subseteq S \cup {n}
    PROVE  SeenBy(T)
<1>1. PICK b \in Nat : \A t \in S : t.last <= b
  BY DEF SeenBy
<1>2. n.last \in Nat /\ \A t \in S : t.last \in Nat
  BY DEF Source
<1>3. \A t \in T : t.last <= b + n.last
  BY <1>1, <1>2
<1>4. b + n.last \in Nat
  BY <1>1, <1>2
<1> QED
  BY <1>3, <1>4 DEF SeenBy

LEMMA DiscoveredWrites ==
    ASSUME NEW d \in Row, NEW key \in DOMAIN Canon, \A t \in d.sources : t.key # key
    PROVE  \E s, n : n.key = key /\ Writes(d, Discovered(d, key), s, n)
<1> DEFINE n == [id |-> 10 + key, key |-> key, first |-> 10 + key, last |-> 10 + key,
                 listing |-> None, historical |-> FALSE]
           e == Discovered(d, key)
<1>1. key \in Nat /\ 10 + key \in Nat
  BY CanonAssumption
<1>2. n \in Source /\ n.key = key /\ n.historical = FALSE /\ n.listing = None
  BY <1>1 DEF Source
<1>3. e = [d EXCEPT !.sources = @ \cup {n}]
  BY DEF Discovered
<1> HIDE DEF n, e
<1>4. /\ e.sources = d.sources \cup {n} /\ e.silent = d.silent
      /\ e.waiting = d.waiting /\ e.claims = d.claims
  BY <1>3 DEF Row
<1>5. e \in Row
  BY <1>2, <1>3 DEF Row
<1>6. n \notin d.sources
  BY <1>2
<1>7. e.sources = (d.sources \ {n}) \cup {n}
  BY <1>4
<1>8. e.claims = d.claims \cup SourceClaims({n})
  BY <1>2, <1>4 DEF SourceClaims, Listed
<1>9. SeenBy(d.sources) => SeenBy(e.sources)
  BY <1>2, <1>4, RowIs, SeenWith
<1>10. Writes(d, e, n, n)
  BY <1>2, <1>4, <1>5, <1>6, <1>7, <1>8, <1>9 DEF Writes
<1> QED
  BY <1>2, <1>10 DEF e

LEMMA FinalizedWrites ==
    ASSUME NEW d \in Row, NEW s \in d.sources, ~s.historical, s.listing = None,
           s.key \in DOMAIN Canon, \A t \in d.sources : t.key = s.key => t = s,
           NEW l \in d.listings \cup {<<"new", s.key>>}, NEW accepted \in BOOLEAN
    PROVE  \E n : n.key = s.key /\ Writes(d, Finalized(d, s, l, accepted), s, n)
<1> DEFINE n == [s EXCEPT !.listing = l]
           e == Finalized(d, s, l, accepted)
           w == IF accepted THEN d.waiting \cup ({l} \ d.silent) ELSE d.waiting
<1>1. s \in Source /\ l \in Listing /\ l # None
  <2>1. s \in Source /\ d.listings \in SUBSET Listing
    BY RowIs
  <2>2. s.key \in Nat /\ <<"new", s.key>> \in Listing
    BY CanonAssumption, Names
  <2> QED
    BY <2>1, <2>2, FactsAssumption
<1>2. n \in Source /\ n.key = s.key /\ n.historical = FALSE /\ n.listing = l
  BY <1>1 DEF Source
<1>3. e = [d EXCEPT !.sources = (@ \ {s}) \cup {n}, !.listings = @ \cup {l}, !.waiting = w,
                    !.claims = @ \cup {<<s.key, l>>}]
  BY DEF Finalized, Row
<1>4. w \in SUBSET Listing /\ w \cap d.silent = d.waiting \cap d.silent
  BY <1>1, RowIs
<1> HIDE DEF n, e, w
<1>5. /\ e.sources = (d.sources \ {s}) \cup {n} /\ e.silent = d.silent
      /\ e.waiting = w /\ e.claims = d.claims \cup {<<s.key, l>>}
  BY <1>3 DEF Row
<1>6. e \in Row
  <2>1. <<s.key, l>> \in Nat \X Listing
    BY <1>1, CanonAssumption
  <2> QED
    BY <1>1, <1>2, <1>3, <1>4, <2>1, RowIs DEF Row
<1>7. SourceClaims({n}) = {<<s.key, l>>}
  <2>1. Listed({n}) = {n}
    BY <1>1, <1>2 DEF Listed
  <2> QED
    BY <1>2, <2>1 DEF SourceClaims
<1>8. SeenBy(d.sources) => SeenBy(e.sources)
  BY <1>2, <1>5, RowIs, SeenWith
<1>9. s.historical = FALSE
  BY <1>1 DEF Source
<1>10. Writes(d, e, s, n)
  BY <1>2, <1>4, <1>5, <1>6, <1>7, <1>8, <1>9 DEF Writes
<1> QED
  BY <1>2, <1>10 DEF e

LEMMA WritesAreSilent ==
    ASSUME NEW d, NEW e, NEW s, NEW n, Writes(d, e, s, n), Silent(d)
    PROVE  Silent(e)
<1> SUFFICES ASSUME NEW t \in Listed(e.sources), t.historical
             PROVE  t.listing \in e.silent /\ t.listing \notin e.waiting
  BY DEF Silent
<1>1. t \in Listed(d.sources)
  BY DEF Writes, Listed
<1>2. t.listing \in d.silent /\ t.listing \notin d.waiting
  BY <1>1 DEF Silent
<1> QED
  BY <1>2 DEF Writes

LEMMA WritesShare ==
    ASSUME NEW d, NEW o, Shared(d, o), NEW e, NEW s, NEW n, Writes(d, e, s, n)
    PROVE  Shared(e, o)
<1>1. e.sources = (d.sources \ {s}) \cup {n} /\ n.historical = FALSE
  BY DEF Writes
<1>2. Agree(e.sources)
  <2> SUFFICES ASSUME NEW t \in Listed(e.sources), NEW u \in Listed(e.sources),
                      t.historical, u.historical, t.listing = u.listing
               PROVE  ~Contradicts(t.key, u.key)
    BY DEF Agree
  <2>1. t \in Listed(d.sources) /\ u \in Listed(d.sources)
    BY <1>1 DEF Listed
  <2>2. Agree(d.sources)
    BY DEF Shared
  <2> QED
    BY <2>1, <2>2 DEF Agree
<1>3. Silent(e)
  BY WritesAreSilent DEF Shared
<1>4. ASSUME NEW t \in e.sources, NEW u \in e.sources, t.key = u.key
      PROVE  t = u
  <2>1. \A v \in d.sources : v.key = n.key => v = s
    BY DEF Writes
  <2>2. \A v, x \in d.sources : v.key = x.key => v = x
    BY DEF Shared
  <2> QED
    BY <1>1, <1>4, <2>1, <2>2
<1>5. ASSUME NEW k \in o
      PROVE  \E t \in e.sources : Canon[t.key] = k /\ t.historical
  <2>1. PICK t \in d.sources : Canon[t.key] = k /\ t.historical
    BY DEF Shared
  <2>2. t # s
    BY <2>1 DEF Writes
  <2> QED
    BY <1>1, <2>1, <2>2
<1>6. \A t \in e.sources : t.key \in DOMAIN Canon
  BY <1>1 DEF Shared, Writes
<1>7. e \in Row /\ SeenBy(e.sources)
  BY DEF Shared, Writes
<1> QED
  BY <1>2, <1>3, <1>4, <1>5, <1>6, <1>7 DEF Shared

LEMMA WritesAreCanonical ==
    ASSUME NEW d, NEW o, Canonical(d, o), NEW e, NEW s, NEW n, Writes(d, e, s, n),
           Canon[n.key] = n.key, n.key \notin o
    PROVE  Canonical(e, o)
<1>1. e.sources = (d.sources \ {s}) \cup {n} /\ n.historical = FALSE
  BY DEF Writes
<1>2. Silent(e)
  BY WritesAreSilent DEF Canonical
<1>3. ASSUME NEW t \in e.sources, NEW u \in e.sources, t.key = u.key
      PROVE  t = u
  <2>1. \A v \in d.sources : v.key = n.key => v = s
    BY DEF Writes
  <2>2. \A v, x \in d.sources : v.key = x.key => v = x
    BY DEF Canonical
  <2> QED
    BY <1>1, <1>3, <2>1, <2>2
<1>4. \A t \in e.sources : t.key \in DOMAIN Canon /\ t.key = Canon[t.key]
  BY <1>1 DEF Canonical, Writes
<1>5. \A t \in e.sources : t.key \in o => t.historical
  BY <1>1 DEF Canonical
<1>6. ASSUME NEW k \in o
      PROVE  \E t \in e.sources : t.key = k
  <2>1. PICK t \in d.sources : t.key = k
    BY DEF Canonical
  <2>2. t # s
    BY <2>1 DEF Writes
  <2> QED
    BY <1>1, <2>1, <2>2
<1>7. e.claims = SourceClaims(e.sources)
  <2>1. Listed(e.sources) = Listed(d.sources) \cup Listed({n})
    <3>1. s \notin Listed(d.sources)
      BY DEF Writes, Listed
    <3> QED
      BY <1>1, <3>1 DEF Listed
  <2>2. SourceClaims(e.sources) = SourceClaims(d.sources) \cup SourceClaims({n})
    BY <2>1 DEF SourceClaims
  <2> QED
    BY <2>2 DEF Canonical, Writes
<1>8. e \in Row
  BY DEF Writes
<1> QED
  BY <1>2, <1>3, <1>4, <1>5, <1>6, <1>7, <1>8 DEF Canonical

LEMMA AnnouncedIs ==
    ASSUME NEW d, d \in Row, NEW l
    PROVE  LET e == [d EXCEPT !.waiting = @ \ {l}]
           IN  /\ e \in Row /\ e.sources = d.sources /\ e.claims = d.claims
               /\ Silent(d) => Silent(e)
<1> DEFINE e == [d EXCEPT !.waiting = @ \ {l}]
<1>1. /\ e.sources = d.sources /\ e.claims = d.claims /\ e.silent = d.silent
      /\ e.waiting = d.waiting \ {l}
  BY DEF Row
<1>2. e \in Row
  BY DEF Row
<1> HIDE DEF e
<1>3. Silent(d) => Silent(e)
  BY <1>1 DEF Silent
<1> QED
  BY <1>1, <1>2, <1>3 DEF e
-----------------------------------------------------------------------------
(* Which of the repairs the adverts have seen is what the ledger says. *)
AdvertsFollow ==
    /\ 107 \notin DOMAIN ledger => Original(data, old)
    /\ 107 \in DOMAIN ledger /\ 109 \notin DOMAIN ledger => Shared(data, old)
    /\ 109 \in DOMAIN ledger => Canonical(data, old)

(* No deployed release lacks a repair that was made. *)
RepairsDeployed == {107, 109} \cap DOMAIN ledger \subseteq DOMAIN release

Bounds ==
    /\ \A p \in Process : /\ proc[p].at \in {"down", "runs", "ready", "refused"}
                          /\ proc[p].next <= Len(Order) + 1
    /\ faults \in 0 .. MaxFaults
    /\ legacy \in Legacy

RInv == IInv /\ AdvertsFollow /\ RepairsDeployed /\ Bounds

LEMMA InitRInv == Init => RInv
<1> SUFFICES ASSUME Init PROVE RInv
  OBVIOUS
<1>1. PICK d \in Databases : /\ ledger = d.ledger
                             /\ data = d.data
                             /\ old = {Canon[s.key] : s \in d.data.sources}
  BY DEF Init
<1>2. /\ DOMAIN d.ledger \subseteq {100, 101}
      /\ d.data \in Row
      /\ IsFiniteSet(d.data.sources)
      /\ \A s, t \in d.data.sources : s.id = t.id => s = t
  BY DatabasesAssumption
<1>3. /\ \A s \in data.sources : s.key \in DOMAIN Canon
      /\ \A s \in data.sources : s.listing # None => s.listing[1] = "old"
  BY <1>1, DatabasesAssumption
<1>4. \A s \in data.sources : s.historical = FALSE
  <2>1. data.sources \in SUBSET Source
    BY <1>1, <1>2, RowIs
  <2>2. \A s \in data.sources : ~s.historical
    BY <1>1, DatabasesAssumption
  <2>3. \A s \in data.sources : s.historical \in BOOLEAN
    BY <2>1 DEF Source
  <2> QED
    BY <2>2, <2>3
<1>5. SeenBy(data.sources)
  BY <1>1, <1>2, RowIs, FiniteIsSeen
<1>6. Original(data, old)
  BY <1>1, <1>2, <1>3, <1>4, <1>5 DEF Original
<1>7. 107 \notin DOMAIN ledger /\ 109 \notin DOMAIN ledger
  BY <1>1, <1>2
<1>8. Bounds
  <2>1. legacy \in Legacy
    BY DatabasesAssumption DEF Init
  <2> QED
    BY <2>1, MigrationsAssumption, OrderFacts DEF Init, Down, Bounds
<1> QED
  BY <1>6, <1>7, <1>8, InitIInv DEF RInv, AdvertsFollow, RepairsDeployed

LEMMA AppliesFollows ==
    ASSUME RInv, NEW p \in Process, Applies(p)
    PROVE  AdvertsFollow'
<1>1. /\ Steps(p)
      /\ MayRecord(At(p), proc[p].executed)
      /\ ledger' = With(ledger, At(p), release[At(p)])
      /\ data' = Effect(At(p))
      /\ old' = old
  BY DEF Applies, Pending
<1>2. DOMAIN ledger' = DOMAIN ledger \cup {At(p)}
  BY <1>1 DEF With
<1>3. proc[p].next \in 1 .. Len(Order) /\ proc[p].at = "runs" /\ At(p) = Order[proc[p].next]
  BY <1>1 DEF Steps, HasNext, At, RInv, IInv, Shape
<1>4. At(p) # 100 => At(p) \notin DOMAIN ledger
  BY <1>1 DEF MayRecord, IsLegacyBaselineUpgrade
<1>5. Order[1] = 100 /\ Order[2] = 101 /\ Order[3] = 107 /\ Order[4] = 109 /\ Len(Order) = 4
  BY DEF Order
<1>6. 109 \in DOMAIN ledger => 107 \in DOMAIN ledger
  BY <1>5 DEF RInv, IInv, LedgerIsTrue
<1>7. CASE At(p) = 107
  <2>1. 107 \notin DOMAIN ledger /\ 109 \notin DOMAIN ledger
    BY <1>4, <1>6, <1>7
  <2>2. data' = SharedPipeline(data)
    BY <1>1, <1>7 DEF Effect
  <2>3. Shared(data', old')
    BY <1>1, <2>1, <2>2, SharedPipelineShares DEF RInv, AdvertsFollow
  <2>4. 107 \in DOMAIN ledger' /\ 109 \notin DOMAIN ledger'
    BY <1>2, <1>7, <2>1
  <2> QED
    BY <2>3, <2>4 DEF AdvertsFollow
<1>8. CASE At(p) = 109
  <2>1. proc[p].next = 4
    <3>1. 4 \in 1 .. Len(Order) /\ Order[proc[p].next] = Order[4]
      BY <1>3, <1>5, <1>8
    <3> QED
      BY <1>3, <3>1, OrderFacts
  <2>2. 107 \in DOMAIN ledger
    BY <1>3, <1>5, <2>1 DEF RInv, IInv, GoneThrough
  <2>3. 109 \notin DOMAIN ledger
    BY <1>4, <1>8
  <2>4. data' = CanonicalSources(data)
    BY <1>1, <1>8 DEF Effect
  <2>5. Canonical(data', old')
    BY <1>1, <2>2, <2>3, <2>4, CanonicalSourcesCanonical DEF RInv, AdvertsFollow
  <2>6. 107 \in DOMAIN ledger' /\ 109 \in DOMAIN ledger'
    BY <1>2, <1>8, <2>2
  <2> QED
    BY <2>5, <2>6 DEF AdvertsFollow
<1>9. CASE At(p) # 107 /\ At(p) # 109
  <2>1. data' = data
    BY <1>1, <1>9 DEF Effect
  <2>2. /\ 107 \in DOMAIN ledger' <=> 107 \in DOMAIN ledger
        /\ 109 \in DOMAIN ledger' <=> 109 \in DOMAIN ledger
    BY <1>2, <1>9
  <2> QED
    BY <1>1, <2>1, <2>2 DEF RInv, AdvertsFollow
<1> QED
  BY <1>7, <1>8, <1>9

(* What is written after the cutover keeps to its phase. *)
LEMMA WritesFollow ==
    ASSUME RInv, NEW s, NEW n, Writes(data, data', s, n),
           109 \in DOMAIN ledger => Canon[n.key] = n.key /\ n.key \notin old,
           107 \in DOMAIN ledger, UNCHANGED <<ledger, old>>
    PROVE  AdvertsFollow'
<1>1. CASE 109 \in DOMAIN ledger
  <2>1. Canonical(data, old)
    BY <1>1 DEF RInv, AdvertsFollow
  <2>2. Canonical(data', old)
    BY <1>1, <2>1, WritesAreCanonical
  <2> QED
    BY <1>1, <2>2 DEF AdvertsFollow
<1>2. CASE 109 \notin DOMAIN ledger
  <2>1. Shared(data, old)
    BY <1>2 DEF RInv, AdvertsFollow
  <2>2. Shared(data', old)
    BY <2>1, WritesShare
  <2> QED
    BY <1>2, <2>2 DEF AdvertsFollow
<1> QED
  BY <1>1, <1>2

LEMMA ReadyAfterCutover ==
    ASSUME RInv, proc[app].at = "ready", 107 \in DOMAIN release
    PROVE  107 \in DOMAIN ledger /\ data \in Row
<1>1. ReadyOnCurrentSchema
  BY IInvReady DEF RInv
<1> QED
  BY <1>1 DEF ReadyOnCurrentSchema, RInv, AdvertsFollow, Shared, Canonical

LEMMA DiscoversFollows ==
    ASSUME RInv, NEW k \in NewKeys, Discovers(k)
    PROVE  AdvertsFollow'
<1> DEFINE key == IF 109 \in DOMAIN release THEN Canon[k] ELSE k
<1>1. k \in DOMAIN Canon
  BY MigrationsAssumption
<1>2. key \in DOMAIN Canon
  BY <1>1, CanonAssumption
<1>3. /\ proc[app].at = "ready"
      /\ 107 \in DOMAIN release
      /\ \A s \in data.sources : s.key # key
      /\ UNCHANGED <<release, ledger, old>>
  BY DEF Discovers
<1>4. data' = Discovered(data, key)
  BY DEF Discovers, Discovered
<1>5. 107 \in DOMAIN ledger /\ data \in Row
  BY <1>3, ReadyAfterCutover
<1>6. 109 \in DOMAIN ledger => Canon[key] = key
  BY <1>1, CanonAssumption DEF RInv, RepairsDeployed
<1> HIDE DEF key
<1>7. PICK s, n : n.key = key /\ Writes(data, data', s, n)
  BY <1>2, <1>3, <1>4, <1>5, DiscoveredWrites
<1>8. 109 \in DOMAIN ledger => key \notin old
  <2> SUFFICES ASSUME 109 \in DOMAIN ledger, key \in old PROVE FALSE
    OBVIOUS
  <2>1. Canonical(data, old)
    BY DEF RInv, AdvertsFollow
  <2> QED
    BY <1>3, <2>1 DEF Canonical
<1> QED
  BY <1>3, <1>5, <1>6, <1>7, <1>8, WritesFollow

LEMMA FinalizesFollows ==
    ASSUME RInv, NEW s \in data.sources, Finalizes(s)
    PROVE  AdvertsFollow'
<1>1. /\ proc[app].at = "ready"
      /\ 107 \in DOMAIN release
      /\ ~s.historical /\ s.listing = None
      /\ UNCHANGED <<release, ledger, old>>
  BY DEF Finalizes
<1>2. PICK l \in data.listings \cup {<<"new", s.key>>}, accepted \in BOOLEAN :
        data' = Finalized(data, s, l, accepted)
  BY DEF Finalizes, Finalized
<1>3. 107 \in DOMAIN ledger /\ data \in Row
  BY <1>1, ReadyAfterCutover
<1>4. Shared(data, old) \/ (109 \in DOMAIN ledger /\ Canonical(data, old))
  BY <1>3 DEF RInv, AdvertsFollow
<1>5. s.key \in DOMAIN Canon /\ \A t \in data.sources : t.key = s.key => t = s
  BY <1>4 DEF Shared, Canonical
<1>6. PICK n : n.key = s.key /\ Writes(data, data', s, n)
  BY <1>1, <1>2, <1>3, <1>5, FinalizedWrites
<1>7. 109 \in DOMAIN ledger => Canon[s.key] = s.key /\ s.key \notin old
  <2> SUFFICES ASSUME 109 \in DOMAIN ledger PROVE Canon[s.key] = s.key /\ s.key \notin old
    OBVIOUS
  <2>1. Canonical(data, old)
    BY DEF RInv, AdvertsFollow
  <2> QED
    BY <1>1, <2>1 DEF Canonical
<1> QED
  BY <1>1, <1>3, <1>6, <1>7, WritesFollow

LEMMA AnnouncesFollows ==
    ASSUME RInv, NEW l, Announces(l)
    PROVE  AdvertsFollow'
<1>1. /\ data' = [data EXCEPT !.waiting = @ \ {l}]
      /\ UNCHANGED <<ledger, old>>
  BY DEF Announces
<1>2. data \in Row
  BY DEF RInv, AdvertsFollow, Original, Shared, Canonical
<1>3. /\ data' \in Row /\ data'.sources = data.sources /\ data'.claims = data.claims
      /\ Silent(data) => Silent(data')
  BY <1>1, <1>2, AnnouncedIs
<1>4. Original(data, old) => Original(data', old)
  BY <1>3 DEF Original
<1>5. Shared(data, old) => Shared(data', old)
  BY <1>3 DEF Shared
<1>6. Canonical(data, old) => Canonical(data', old)
  BY <1>3 DEF Canonical
<1> QED
  BY <1>1, <1>4, <1>5, <1>6 DEF RInv, AdvertsFollow

LEMMA NextRInv == RInv /\ [Next]_vars => RInv'
<1> SUFFICES ASSUME RInv, [Next]_vars PROVE RInv'
  OBVIOUS
<1>1. IInv'
  BY NextIInv DEF RInv
<1>2. ASSUME NEW p \in Process,
             Starts(p) \/ Skips(p) \/ Refuses(p) \/ Rejects(p) \/ Collides(p)
                 \/ Finishes(p) \/ Fails(p) \/ Dies(p) \/ Ends(p)
      PROVE  UNCHANGED <<release, ledger, data, old>>
  BY <1>2 DEF Starts, Skips, Refuses, Rejects, Collides, Finishes, Fails, Dies, Ends
<1>3. ASSUME UNCHANGED <<ledger, data, old>>
      PROVE  AdvertsFollow'
  BY <1>3 DEF RInv, AdvertsFollow
<1>4. ASSUME NEW p \in Process, AdvancesChecksum(p)
      PROVE  /\ DOMAIN ledger' = DOMAIN ledger
             /\ UNCHANGED <<release, data, old>>
  BY <1>4 DEF AdvancesChecksum
<1>5. AdvertsFollow'
  <2>1. ASSUME NEW p \in Process, AdvancesChecksum(p)
        PROVE  AdvertsFollow'
    BY <1>4, <2>1 DEF RInv, AdvertsFollow
  <2>2. CASE Deploys
    BY <1>3, <2>2 DEF Deploys
  <2>3. CASE UNCHANGED vars
    BY <1>3, <2>3 DEF vars
  <2>4. CASE Consolidates
    BY <1>3, <2>4 DEF Consolidates
  <2> QED
    BY <1>2, <1>3, <2>1, <2>2, <2>3, <2>4, AppliesFollows, DiscoversFollows,
       FinalizesFollows, AnnouncesFollows DEF Next, Migrates
<1>6. RepairsDeployed'
  <2>1. ASSUME NEW p \in Process, Applies(p)
        PROVE  RepairsDeployed'
    <3>1. /\ At(p) \in DOMAIN release
          /\ DOMAIN ledger' = DOMAIN ledger \cup {At(p)}
          /\ UNCHANGED release
      BY <2>1 DEF Applies, Pending, Steps, HasNext, At, With
    <3> QED
      BY <3>1 DEF RInv, RepairsDeployed
  <2>2. ASSUME NEW p \in Process, AdvancesChecksum(p)
        PROVE  RepairsDeployed'
    BY <1>4, <2>2 DEF RInv, RepairsDeployed
  <2>3. CASE Deploys
    BY <2>3 DEF Deploys, RInv, RepairsDeployed
  <2>4. ASSUME UNCHANGED <<release, ledger>>
        PROVE  RepairsDeployed'
    BY <2>4 DEF RInv, RepairsDeployed
  <2>5. CASE \/ Consolidates
             \/ \E k \in NewKeys : Discovers(k)
             \/ \E s \in data.sources : Finalizes(s)
             \/ \E l \in data.waiting : Announces(l)
    BY <2>4, <2>5 DEF Consolidates, Discovers, Finalizes, Announces
  <2>6. CASE UNCHANGED vars
    BY <2>4, <2>6 DEF vars
  <2> QED
    BY <1>2, <2>1, <2>2, <2>3, <2>4, <2>5, <2>6 DEF Next, Migrates
<1>7. Bounds'
  <2>1. /\ DOMAIN proc = Process
        /\ \A q \in Process : /\ proc[q].at \in {"down", "runs", "ready", "refused"}
                              /\ proc[q].next \in Nat /\ proc[q].next <= Len(Order) + 1
        /\ faults \in 0 .. MaxFaults /\ MaxFaults \in Nat /\ Len(Order) = 4
        /\ legacy \in Legacy
    BY MigrationsAssumption, OrderFacts DEF RInv, IInv, Shape, Bounds
  <2>2. ASSUME NEW p \in Process, NEW r, proc' = [proc EXCEPT ![p] = r],
               r.at \in {"down", "runs", "ready", "refused"}, r.next <= Len(Order) + 1,
               faults' \in 0 .. MaxFaults, legacy' = legacy
        PROVE  Bounds'
    BY <2>1, <2>2 DEF Bounds
  <2>3. ASSUME NEW p \in Process, proc' = [proc EXCEPT ![p] = Down], faults' \in 0 .. MaxFaults,
               legacy' = legacy
        PROVE  Bounds'
    <3>1. Down.at = "down" /\ Down.next <= Len(Order) + 1
      BY <2>1 DEF Down
    <3> QED
      BY <2>2, <2>3, <3>1
  <2>4. ASSUME NEW p \in Process, NEW x, Goes(p, x), Steps(p), UNCHANGED <<faults, legacy>>
        PROVE  Bounds'
    <3> DEFINE r == [at |-> "runs", next |-> proc[p].next + 1, executed |-> x]
    <3>1. proc' = [proc EXCEPT ![p] = r] /\ r.at = "runs" /\ r.next = proc[p].next + 1
      BY <2>4 DEF Goes
    <3>2. r.next <= Len(Order) + 1
      BY <2>1, <2>4, <3>1 DEF Steps, HasNext
    <3> HIDE DEF r
    <3> QED
      BY <2>1, <2>2, <2>4, <3>1, <3>2
  <2>5. ASSUME NEW p \in Process, NEW at \in {"ready", "refused"}, Enters(p, at),
               UNCHANGED <<faults, legacy>>
        PROVE  Bounds'
    <3> DEFINE r == [at |-> at, next |-> proc[p].next, executed |-> proc[p].executed]
    <3>1. proc' = [proc EXCEPT ![p] = r] /\ r.at = at /\ r.next = proc[p].next
      BY <2>5 DEF Enters
    <3> HIDE DEF r
    <3> QED
      BY <2>1, <2>2, <2>5, <3>1
  <2>6. ASSUME NEW p \in Process, Starts(p)
        PROVE  Bounds'
    <3> DEFINE r == [at |-> "runs", next |-> 1, executed |-> ledger]
    <3>1. /\ proc' = [proc EXCEPT ![p] = r] /\ r.at = "runs" /\ r.next = 1
          /\ UNCHANGED <<faults, legacy>>
      BY <2>6 DEF Starts
    <3> HIDE DEF r
    <3>2. r.next <= Len(Order) + 1 /\ r.at \in {"down", "runs", "ready", "refused"}
      BY <2>1, <3>1
    <3>3. faults' \in 0 .. MaxFaults
      BY <2>1, <3>1
    <3> QED
      BY <2>2, <3>1, <3>2, <3>3
  <2>7. ASSUME NEW p \in Process, Fails(p) \/ Dies(p) \/ Rejects(p) \/ Collides(p) \/ Ends(p)
        PROVE  Bounds'
    <3>1. faults' \in 0 .. MaxFaults
      BY <2>1, <2>7 DEF Fails, Dies, Rejects, Collides, Ends
    <3>2. proc' = [proc EXCEPT ![p] = Down] /\ legacy' = legacy
      BY <2>7 DEF Fails, Dies, Rejects, Collides, Ends
    <3> QED
      BY <2>3, <3>1, <3>2
  <2>8. ASSUME NEW p \in Process, Skips(p) \/ AdvancesChecksum(p) \/ Applies(p)
        PROVE  Bounds'
    BY <2>4, <2>8 DEF Skips, AdvancesChecksum, Applies, Pending
  <2>9. ASSUME NEW p \in Process, Refuses(p) \/ Finishes(p)
        PROVE  Bounds'
    BY <2>5, <2>9 DEF Refuses, Finishes
  <2>10. CASE Deploys
    <3>1. \A p \in Process : proc'[p].at = "down" /\ proc'[p].next = 1
      BY <2>10 DEF Deploys, Down
    <3>2. UNCHANGED <<faults, legacy>>
      BY <2>10 DEF Deploys
    <3> QED
      BY <2>1, <3>1, <3>2 DEF Bounds
  <2>11. ASSUME UNCHANGED <<proc, faults, legacy>>
         PROVE  Bounds'
    BY <2>11 DEF RInv, Bounds
  <2>12. CASE \/ \E k \in NewKeys : Discovers(k)
              \/ \E s \in data.sources : Finalizes(s)
              \/ \E l \in data.waiting : Announces(l)
    BY <2>11, <2>12 DEF Discovers, Finalizes, Announces
  <2>14. CASE Consolidates
    <3>1. legacy' \in Legacy
      BY <2>1, <2>14 DEF Consolidates, Legacy
    <3> QED
      BY <2>14, <3>1 DEF Consolidates, RInv, Bounds
  <2>13. CASE UNCHANGED vars
    BY <2>11, <2>13 DEF vars
  <2> QED
    BY <2>6, <2>7, <2>8, <2>9, <2>10, <2>12, <2>13, <2>14 DEF Next, Migrates
<1> QED
  BY <1>1, <1>5, <1>6, <1>7 DEF RInv

LEMMA RInvHolds == RInv => RepairsHold
<1> SUFFICES ASSUME RInv PROVE RepairsHold
  OBVIOUS
<1>1. 109 \in DOMAIN ledger => 107 \in DOMAIN ledger
  <2>1. Order[3] = 107 /\ Order[4] = 109 /\ Len(Order) = 4
    BY DEF Order
  <2> QED
    BY <2>1 DEF RInv, IInv, LedgerIsTrue
<1>2. \/ Original(data, old)
      \/ Shared(data, old)
      \/ Canonical(data, old)
  BY DEF RInv, AdvertsFollow
<1>3. TypeOK
  <2>1. data \in Row
    BY <1>2 DEF Original, Shared, Canonical
  <2>2. /\ release \in Releases /\ DOMAIN ledger \subseteq Migration
        /\ \A m \in DOMAIN applied : applied[m] \in Nat
    BY DEF RInv, IInv, Shape
  <2>3. \A p \in Process : /\ proc[p].at \in {"down", "runs", "ready", "refused"}
                           /\ proc[p].next \in 1 .. Len(Order) + 1
    BY OrderFacts DEF RInv, IInv, Shape, Bounds
  <2>4. faults \in 0 .. MaxFaults /\ legacy \in Legacy
    BY DEF RInv, Bounds
  <2> QED
    BY <2>1, <2>2, <2>3, <2>4 DEF TypeOK
<1>4. ListingsAgree
  BY DEF RInv, AdvertsFollow, Shared, Agree, ListingsAgree
<1>5. HistoryIsSilent
  <2>1. Original(data, old) => Silent(data)
    BY DEF Original, Silent, Listed
  <2>2. Silent(data)
    BY <1>2, <2>1 DEF Shared, Canonical
  <2> QED
    BY <2>2 DEF Silent, HistoryIsSilent
<1>6. AdvertsAreOne
  <2> SUFFICES ASSUME 109 \in DOMAIN ledger
               PROVE  /\ \A s \in data.sources : s.key = Canon[s.key]
                      /\ \A s, t \in data.sources : s.key = t.key => s = t
                      /\ \A s \in data.sources : s.key \in old => s.historical
                      /\ data.claims = SourceClaims(data.sources)
    BY DEF AdvertsAreOne
  <2>1. Canonical(data, old)
    BY DEF RInv, AdvertsFollow
  <2> QED
    BY <2>1 DEF Canonical
<1> QED
  BY <1>3, <1>4, <1>5, <1>6 DEF RepairsHold

(* The repairs keep their promise about the stored adverts, whatever rows   *)
(* they find, however processes race or die, and whatever is discovered or  *)
(* announced meanwhile: no listing of 107 with sources that contradict each *)
(* other, history silent, and after 109 one source for each advert          *)
(* (frozen/through-109.js:1347-1618, README.md:133-139).                    *)
THEOREM RepairsStayTrue == Spec => []RepairsHold
<1>1. Init => RInv
  BY InitRInv
<1>2. RInv /\ [Next]_vars => RInv'
  BY NextRInv
<1>3. RInv => RepairsHold
  BY RInvHolds
<1> QED
  BY <1>1, <1>2, <1>3, PTL DEF Spec
=============================================================================
