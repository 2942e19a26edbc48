------------------------------ MODULE Migrations ------------------------------
(***************************************************************************)
(* The migrations of the database.  A process that starts reads the ledger  *)
(* once, goes through the files of its release in order, and applies each   *)
(* one that the ledger lacks in a transaction with the ledger's row.  A     *)
(* file whose checksum differs from the ledger's stops it, but for two      *)
(* upgrades: of the baseline, while it is all that was applied, and of the  *)
(* corrected 101, which is only noted.  The application is ready when it    *)
(* has gone through; the maintenance tool runs the same code in a process   *)
(* of its own, and either may die anywhere.                                 *)
(*                                                                         *)
(* Of the ten migrations 100, 101, 107 and 109 stand here for those that    *)
(* treat the ledger or the adverts in a way of their own; the others only   *)
(* change tables and indexes.                                               *)
(***************************************************************************)
EXTENDS SourceRepair, Sequences

CONSTANTS
    Process,     \* the application and the tool
    app,         \* the application
    Releases,    \* the files of each release: their checksums
    Databases,   \* the ledgers, adverts and settings that a first release may find
    NewKeys,     \* keys of adverts that a release may discover
    MaxFaults    \* failed transactions and deaths of a behaviour

Order == <<100, 101, 107, 109>>
Migration == {Order[i] : i \in 1 .. Len(Order)}

ASSUME MigrationsAssumption ==
    /\ app \in Process
    /\ \A r \in Releases : \E n \in 1 .. Len(Order) : DOMAIN r = {Order[i] : i \in 1 .. n}
    /\ \A d \in Databases : \E n \in 0 .. Len(Order) : DOMAIN d.ledger = {Order[i] : i \in 1 .. n}
    /\ NewKeys \subseteq DOMAIN Canon
    /\ MaxFaults \in Nat

(* A first release finds a database from before the cutover, whose rows     *)
(* have ids of their own.                                                   *)
ASSUME DatabasesAssumption ==
    \A d \in Databases :
        /\ DOMAIN d.ledger \subseteq {100, 101}
        /\ d.data \in Row
        /\ d.legacy \in Legacy
        /\ IsFiniteSet(d.data.sources)
        /\ \A s, t \in d.data.sources : s.id = t.id => s = t
        /\ \A s \in d.data.sources :
              /\ s.key \in DOMAIN Canon
              /\ ~s.historical
              /\ s.listing # None => s.listing[1] = "old"

VARIABLES
    release,   \* the files that are deployed
    ledger,    \* schema_migrations
    applied,   \* how often each migration has changed this database
    data,      \* the adverts
    old,       \* the adverts there were before the cutover, by canonical key
    legacy,    \* what 107 finds besides them
    proc,      \* what each process is doing
    faults     \* counts to MaxFaults

vars == <<release, ledger, applied, data, old, legacy, proc, faults>>

Down == [at |-> "down", next |-> 1, executed |-> [m \in {} |-> None]]

TypeOK ==
    /\ release \in Releases
    /\ DOMAIN ledger \subseteq Migration
    /\ \A m \in DOMAIN applied : applied[m] \in Nat
    /\ data \in Row
    /\ legacy \in Legacy
    /\ \A p \in Process : /\ proc[p].at \in {"down", "runs", "ready", "refused"}
                          /\ proc[p].next \in 1 .. Len(Order) + 1
    /\ faults \in 0 .. MaxFaults

Init ==
    /\ release \in Releases
    /\ \E d \in Databases :
          /\ ledger = d.ledger
          /\ applied = [m \in Migration |-> IF m \in DOMAIN d.ledger THEN 1 ELSE 0]
          /\ data = d.data
          /\ legacy = d.legacy
          /\ old = {Canon[s.key] : s \in d.data.sources}
    /\ proc = [p \in Process |-> Down]
    /\ faults = 0
-----------------------------------------------------------------------------
(* isLegacyBaselineUpgrade, of what the process has read of the ledger. *)
IsLegacyBaselineUpgrade(m, executed) ==
    /\ m = 100
    /\ release[m] = "frozen"
    /\ DOMAIN executed = {100}
    /\ executed[100] = "legacy"

IsCorrectedSourceIdentityUpgrade(m, executed) ==
    /\ m = 101
    /\ release[m] = "corrected"
    /\ m \in DOMAIN executed
    /\ executed[m] = "broken"

(* Mutants: plausible slips in the code below. *)

(* The name in the ledger is enough. *)
IsExecutedByName(m, executed) == m \in DOMAIN executed

(* After a failure the application is not started again. *)
StartsOnce(p) ==
    /\ proc[p].at = "down"
    /\ p = app => faults = 0
    /\ proc' = [proc EXCEPT ![p] = [at |-> "runs", next |-> 1, executed |-> ledger]]
    /\ UNCHANGED <<release, ledger, applied, data, old, legacy, faults>>
-----------------------------------------------------------------------------
(* The files of a release are the first ones of the order. *)
HasNext(p) == proc[p].next <= Len(Order) /\ Order[proc[p].next] \in DOMAIN release

Steps(p) == proc[p].at = "runs" /\ HasNext(p)

At(p) == Order[proc[p].next]

IsExecuted(m, executed) == m \in DOMAIN executed /\ executed[m] = release[m]

(* Frozen implementations are pinned; edited files are not loaded. *)
MayLoad(m) == release[m] # "edited"

IsUpgrade(m, executed) ==
    IsLegacyBaselineUpgrade(m, executed) \/ IsCorrectedSourceIdentityUpgrade(m, executed)

(* The ledger's name is unique: an insert of one that is there fails, and   *)
(* with it the transaction; an upgrade updates its row.                     *)
MayRecord(m, executed) == m \notin DOMAIN ledger \/ IsLegacyBaselineUpgrade(m, executed)

Effect(m) ==
    CASE m = 107 -> SharedPipeline(data)
      [] m = 109 -> CanonicalSources(data)
      [] OTHER   -> data

With(f, x, v) == [y \in DOMAIN f \cup {x} |-> IF y = x THEN v ELSE f[y]]

Goes(p, executed) ==
    proc' = [proc EXCEPT ![p] = [at |-> "runs", next |-> proc[p].next + 1, executed |-> executed]]

Enters(p, at) ==
    proc' = [proc EXCEPT ![p] = [at |-> at, next |-> proc[p].next, executed |-> proc[p].executed]]

Starts(p) ==
    /\ proc[p].at = "down"
    /\ proc' = [proc EXCEPT ![p] = [at |-> "runs", next |-> 1, executed |-> ledger]]
    /\ UNCHANGED <<release, ledger, applied, data, old, legacy, faults>>

Skips(p) ==
    /\ Steps(p)
    /\ IsExecuted(At(p), proc[p].executed)
    /\ Goes(p, proc[p].executed)
    /\ UNCHANGED <<release, ledger, applied, data, old, legacy, faults>>

(* A file that has changed since it was applied, or one that may not be     *)
(* loaded, ends the process.                                                *)
Refuses(p) ==
    LET m == At(p) IN
    /\ Steps(p)
    /\ ~IsExecuted(m, proc[p].executed)
    /\ \/ m \in DOMAIN proc[p].executed /\ ~IsUpgrade(m, proc[p].executed)
       \/ ~MayLoad(m)
    /\ Enters(p, "refused")
    /\ UNCHANGED <<release, ledger, applied, data, old, legacy, faults>>

Pending(p) ==
    LET m == At(p) IN
    /\ Steps(p)
    /\ ~IsExecuted(m, proc[p].executed)
    /\ m \notin DOMAIN proc[p].executed \/ IsUpgrade(m, proc[p].executed)
    /\ MayLoad(m)

(* The corrected 101 is noted, not run. *)
AdvancesChecksum(p) ==
    LET m == At(p) IN
    /\ Pending(p)
    /\ IsCorrectedSourceIdentityUpgrade(m, proc[p].executed)
    /\ ledger' = [ledger EXCEPT ![m] = release[m]]
    /\ Goes(p, With(proc[p].executed, m, release[m]))
    /\ UNCHANGED <<release, applied, data, old, legacy, faults>>

(* 107 throws at what the jobs or the receipts say; the others throw at     *)
(* nothing that is stored.                                                  *)
Accepts(m) == m = 107 => Consolidable(legacy)

(* The transaction of a migration and of its row. *)
Applies(p) ==
    LET m == At(p) IN
    /\ Pending(p)
    /\ Accepts(m)
    /\ ~IsCorrectedSourceIdentityUpgrade(m, proc[p].executed)
    /\ MayRecord(m, proc[p].executed)
    /\ data' = Effect(m)
    /\ ledger' = With(ledger, m, release[m])
    /\ applied' = [applied EXCEPT ![m] = @ + 1]
    /\ Goes(p, With(proc[p].executed, m, release[m]))
    /\ UNCHANGED <<release, old, legacy, faults>>

(* Another process has applied it: the row cannot be inserted, everything   *)
(* is rolled back and the process ends.                                     *)
Collides(p) ==
    /\ Pending(p)
    /\ ~IsCorrectedSourceIdentityUpgrade(At(p), proc[p].executed)
    /\ ~MayRecord(At(p), proc[p].executed)
    /\ proc' = [proc EXCEPT ![p] = Down]
    /\ UNCHANGED <<release, ledger, applied, data, old, legacy, faults>>

(* 107 throws and is rolled back: the process ends, and what starts in its  *)
(* place ends in the same way.                                              *)
Rejects(p) ==
    /\ Pending(p)
    /\ ~Accepts(At(p))
    /\ proc' = [proc EXCEPT ![p] = Down]
    /\ UNCHANGED <<release, ledger, applied, data, old, legacy, faults>>

(* The operator gives the jobs one destination, as 107 asks. *)
Consolidates ==
    /\ 107 \notin DOMAIN ledger
    /\ \E n \in legacy.destinations :
          /\ legacy.destinations # {n}
          /\ legacy' = [legacy EXCEPT !.destinations = {n}]
    /\ UNCHANGED <<release, ledger, applied, data, old, proc, faults>>

(* The transaction fails and is rolled back: the process ends. *)
Fails(p) ==
    /\ Pending(p)
    /\ faults < MaxFaults
    /\ faults' = faults + 1
    /\ proc' = [proc EXCEPT ![p] = Down]
    /\ UNCHANGED <<release, ledger, applied, data, old, legacy>>

Finishes(p) ==
    /\ proc[p].at = "runs"
    /\ ~HasNext(p)
    /\ Enters(p, "ready")
    /\ UNCHANGED <<release, ledger, applied, data, old, legacy, faults>>

(* The process dies; a transaction under way is rolled back. *)
Dies(p) ==
    /\ proc[p].at # "down"
    /\ faults < MaxFaults
    /\ faults' = faults + 1
    /\ proc' = [proc EXCEPT ![p] = Down]
    /\ UNCHANGED <<release, ledger, applied, data, old, legacy>>

(* The tool goes on to its own work and ends. *)
Ends(p) ==
    /\ p # app
    /\ proc[p].at \in {"ready", "refused"}
    /\ proc' = [proc EXCEPT ![p] = Down]
    /\ UNCHANGED <<release, ledger, applied, data, old, legacy, faults>>

(* A release with more files is deployed, with nothing running. *)
Deploys ==
    /\ \A p \in Process \ {app} : proc[p].at = "down"
    /\ proc[app].at \in {"down", "ready", "refused"}
    /\ release' \in {r \in Releases : DOMAIN release \subseteq DOMAIN r /\ DOMAIN release # DOMAIN r}
    /\ proc' = [p \in Process |-> Down]
    /\ UNCHANGED <<ledger, applied, data, old, legacy, faults>>

(* What the application does meanwhile, of which Capture, Listings and      *)
(* Outbox tell.  It discovers an advert; 109 comes with the code that takes *)
(* the canonical key.                                                       *)
Discovers(k) ==
    LET key == IF 109 \in DOMAIN release THEN Canon[k] ELSE k
        id  == 10 + key
    IN
    /\ proc[app].at = "ready"
    /\ 107 \in DOMAIN release
    /\ \A s \in data.sources : s.key # key
    /\ data' = [data EXCEPT
                  !.sources = @ \cup {[id |-> id, key |-> key, first |-> id, last |-> id,
                                       listing |-> None, historical |-> FALSE]}]
    /\ UNCHANGED <<release, ledger, applied, old, legacy, proc, faults>>

(* It makes a listing of the advert, or joins it to one that there is, by   *)
(* whichever claim; an accepted listing waits to be announced unless it is  *)
(* silent.                                                                  *)
Finalizes(s) ==
    /\ proc[app].at = "ready"
    /\ 107 \in DOMAIN release
    /\ ~s.historical /\ s.listing = None
    /\ \E l \in data.listings \cup {<<"new", s.key>>}, accepted \in BOOLEAN :
          data' = [data EXCEPT
                     !.sources = (@ \ {s}) \cup {[s EXCEPT !.listing = l]},
                     !.listings = @ \cup {l},
                     !.waiting = IF accepted THEN @ \cup ({l} \ data.silent) ELSE @,
                     !.claims = @ \cup {<<s.key, l>>}]
    /\ UNCHANGED <<release, ledger, applied, old, legacy, proc, faults>>

(* It announces a listing. *)
Announces(l) ==
    /\ proc[app].at = "ready"
    /\ data' = [data EXCEPT !.waiting = @ \ {l}]
    /\ UNCHANGED <<release, ledger, applied, old, legacy, proc, faults>>

Migrates(p) ==
    \/ Skips(p) \/ Refuses(p) \/ AdvancesChecksum(p) \/ Applies(p)
    \/ Rejects(p) \/ Collides(p) \/ Finishes(p)

Next ==
    \/ \E p \in Process : Starts(p) \/ Migrates(p) \/ Fails(p) \/ Dies(p) \/ Ends(p)
    \/ Deploys \/ Consolidates
    \/ \E k \in NewKeys : Discovers(k)
    \/ \E s \in data.sources : Finalizes(s)
    \/ \E l \in data.waiting : Announces(l)

Spec == Init /\ [][Next]_vars

(* A process that runs goes on, and the application is started again.  *)
Fairness == WF_vars(Starts(app)) /\ \A p \in Process : WF_vars(Migrates(p))

FairSpec == Spec /\ Fairness
-----------------------------------------------------------------------------
(* Whatever processes run the migrations at once, fail or die: each one but *)
(* the baseline changes a database once and the ledger says so, and none is *)
(* applied before those it follows (migrate.js:108-165).                    *)
LedgerIsTrue ==
    /\ \A m \in DOMAIN applied \ {100} : applied[m] = IF m \in DOMAIN ledger THEN 1 ELSE 0
    /\ \A i, j \in 1 .. Len(Order) :
          i < j /\ Order[j] \in DOMAIN ledger => Order[i] \in DOMAIN ledger

(* The application runs only on a database to which every file of its       *)
(* release was applied as it is now (index.js:52-55).                       *)
ReadyOnCurrentSchema ==
    proc[app].at = "ready" =>
        \A m \in DOMAIN release : m \in DOMAIN ledger /\ ledger[m] = release[m]

(* What the ledger says is so, and whoever is ready may rely on it. *)
SchemaIsKnown == LedgerIsTrue /\ ReadyOnCurrentSchema

(* 107 leaves no two sources of a listing that contradict each other,       *)
(* though the tolerance is not transitive (README.md:121-125).  What joins  *)
(* them later is not historical.                                            *)
ListingsAgree ==
    107 \in DOMAIN ledger /\ 109 \notin DOMAIN ledger =>
        \A s, t \in Listed(data.sources) :
            s.historical /\ t.historical /\ s.listing = t.listing => ~Contradicts(s.key, t.key)

(* What is historical stays silent: nothing waits to be announced for the   *)
(* listing of a historical source (README.md:133-139).                      *)
HistoryIsSilent ==
    \A s \in Listed(data.sources) :
        s.historical => s.listing \in data.silent /\ s.listing \notin data.waiting

(* After 109 an advert has one source, under its canonical key, which is    *)
(* historical if the advert was there before the cutover, and whose listing *)
(* owns its claim and no other source's.                                    *)
AdvertsAreOne ==
    109 \in DOMAIN ledger =>
        /\ \A s \in data.sources : s.key = Canon[s.key]
        /\ \A s, t \in data.sources : s.key = t.key => s = t
        /\ \A s \in data.sources : s.key \in old => s.historical
        /\ data.claims = SourceClaims(data.sources)

(* The repairs leave the stored adverts as they promise: no listing with    *)
(* sources that contradict each other, history silent, one source for each  *)
(* old advert.                                                              *)
RepairsHold == TypeOK /\ ListingsAgree /\ HistoryIsSilent /\ AdvertsAreOne

(* The application comes up, unless a file was changed after it was applied *)
(* or may not be loaded, or 107 has yet to be applied to what it throws at  *)
(* and the operator leaves it so.  A death, a transaction that fails for    *)
(* another reason, a collision with the tool and settings that conflicted   *)
(* only delay it.                                                           *)
Blocked ==
    \/ \E m \in DOMAIN release : release[m] = "edited"
    \/ 107 \in DOMAIN release \ DOMAIN ledger /\ ~Consolidable(legacy)

ComesUp == <>[](proc[app].at = "ready" \/ Blocked)
=============================================================================
