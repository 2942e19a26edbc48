-------------------------------- MODULE Outbox --------------------------------
(***************************************************************************)
(* From the facts of a canonical listing to messages in Telegram chats:     *)
(* the one shared policy decides every listing, the outbox holds one row    *)
(* per listing and destination, the dispatcher sends them, and the policy   *)
(* may be patched (by the maintenance command, another process on the same  *)
(* database) between any two steps.                                         *)
(*                                                                         *)
(* A tick and a dispatch are synchronous stretches of the one thread of the *)
(* application: nothing else of it runs in between, but each is several     *)
(* accesses to the database, with a patch or a death between any two.       *)
(*                                                                         *)
(* Decisions are taken in three places: when a capture is finalized, when    *)
(* the scheduler reevaluates listings decided under another configuration,  *)
(* and by the dispatcher before it sends.  Only the first two enqueue; the   *)
(* last two decide under the policy they read a moment ago.                 *)
(*                                                                         *)
(* Rows are kept as states of the abstract JobQueue; the dispatcher has one *)
(* at a time.  A listing's facts are the policies that accept them.  Only   *)
(* listings of the new stream are followed (none is suppressed), and a chat *)
(* with its topic is a destination.                                         *)
(***************************************************************************)
EXTENDS Integers, FiniteSets

CONSTANTS
    Listings,        \* how many listings there are, numbered by created_at
    Filters,         \* the filter documents an operator may set
    Destination,     \* a chat and topic
    DestinationSets, \* the notify documents an operator may set
    Layers,          \* photo attempts before the text message
    Limit,           \* how many listings one tick reevaluates
    MaxPatches,      \* bound: policy patches
    MaxFinalized,    \* bound: finalized captures
    MaxFaults        \* bound: failed requests, lost responses, crashes

ASSUME OutboxAssumption ==
    /\ Listings \in Nat \ {0}
    /\ "unset" \notin Filters
    /\ DestinationSets \subseteq (SUBSET Destination) \ {{}}
    /\ Layers \in Nat
    /\ Limit \in Nat \ {0}
    /\ {MaxPatches, MaxFinalized, MaxFaults} \subseteq Nat

Listing == 1 .. Listings
Delivery == Listing \X Destination   \* the keys of notify rows

Unset == "unset"   \* no decision, or config_hash = ''

Open == {"waiting", "processing"}

VARIABLES
    filters,    \* pipeline_config: the filter document
    dests,      \* pipeline_config: the destinations
    facts,      \* the filter documents that accept each listing's facts
    known,      \* the canonical listings there are
    decided,    \* config_hash of each listing's decision
    delivery,   \* the state of each notify row
    receipts,   \* notification_receipts
    messages,   \* how often Telegram accepted a message for each delivery
    tick,       \* the reevaluation under way, as a set of at most one
    dispatching,\* the dispatcher's handler up to the first request, likewise
    sending,    \* the dispatcher's handler during a request, likewise
    covered,    \* history, for the properties: the destinations that the
                \* decisions under a listing's config_hash took care of
    patches, finalized, faults

policy == <<filters, dests, patches>>
listings == <<facts, known, finalized>>
decisions == <<decided, covered>>
stretch == <<tick, dispatching>>
ovars == <<policy, listings, decisions, delivery, receipts, messages, stretch, sending, faults>>

(* reevaluateListings has read the policy, and then its rows. *)
Ticking == [filters : Filters, dests : DestinationSets, selected : BOOLEAN, rows : SUBSET Listing]

(* dispatchDelivery has read the policy, and has then rejected the listing. *)
Dispatching == [delivery : Delivery, filters : Filters, dests : DestinationSets, rejected : BOOLEAN]

(* A request that is under way: the layers after it, and whether Telegram   *)
(* accepted the message.                                                    *)
Sending == [delivery : Delivery, layers : 0 .. Layers, accepted : BOOLEAN]

OTypeOK ==
    /\ filters \in Filters
    /\ dests \in DestinationSets
    /\ facts \in [Listing -> SUBSET Filters]
    /\ known \subseteq Listing
    /\ decided \in [Listing -> Filters \cup {Unset}]
    /\ delivery \in [Delivery -> Open \cup {"none", "done", "dead", "cancelled"}]
    /\ receipts \subseteq Delivery
    /\ messages \in [Delivery -> Nat]
    /\ tick \subseteq Ticking /\ Cardinality(tick) <= 1
    /\ dispatching \subseteq Dispatching /\ Cardinality(dispatching) <= 1
    /\ sending \subseteq Sending /\ Cardinality(sending) <= 1
    /\ covered \in [Listing -> SUBSET Destination]
    /\ patches \in 0 .. MaxPatches
    /\ finalized \in 0 .. MaxFinalized
    /\ faults \in 0 .. MaxFaults

OInit ==
    /\ filters \in Filters
    /\ dests \in DestinationSets
    /\ facts = [l \in Listing |-> {}]
    /\ known = {}
    /\ decided = [l \in Listing |-> Unset]
    /\ delivery = [k \in Delivery |-> "none"]
    /\ receipts = {}
    /\ messages = [k \in Delivery |-> 0]
    /\ tick = {} /\ dispatching = {} /\ sending = {}
    /\ covered = [l \in Listing |-> {}]
    /\ patches = 0 /\ finalized = 0 /\ faults = 0

Fault == faults < MaxFaults /\ faults' = faults + 1

(* No stretch of the application is under way, so another may begin. *)
Idle == tick = {} /\ dispatching = {}
-----------------------------------------------------------------------------
(* Mutants: forms of the definitions below with one plausible slip each. *)

(* Only rows that never were are enqueued. *)
EnqueueNewOnly(D) ==
    [k \in Delivery |-> IF k \in D \ receipts /\ delivery[k] = "none"
                        THEN "waiting" ELSE delivery[k]]

(* The dispatcher does not look for a receipt before it sends. *)
SettledByRow(k) == delivery[k] = "done"

-----------------------------------------------------------------------------
(* enqueueNotification, of the destinations of some listings: a new row, or *)
(* a cancelled one that starts over; every cancelled notify row was         *)
(* cancelled as listing_hidden or adapter_removed.  Others are left alone.  *)
Enqueued(D) ==
    [k \in Delivery |-> IF k \in D \ receipts /\ delivery[k] \in {"none", "cancelled"}
                        THEN "waiting" ELSE delivery[k]]

(* finalizeLive, as far as the outbox goes: the policy is read, the facts    *)
(* are written, decided and, if accepted, enqueued in one transaction.      *)
Finalize(l, F) ==
    /\ Idle
    /\ finalized < MaxFinalized
    /\ finalized' = finalized + 1
    /\ known' = known \cup {l}
    /\ facts' = [facts EXCEPT ![l] = F]
    /\ decided' = [decided EXCEPT ![l] = filters]
    /\ covered' = [covered EXCEPT ![l] = dests]
    /\ delivery' = IF filters \in F THEN Enqueued({l} \X dests) ELSE delivery
    /\ UNCHANGED <<policy, receipts, messages, stretch, sending, faults>>

(* patchPipelineConfig: every decision's hash is cleared. *)
Patch(f, D) ==
    /\ patches < MaxPatches
    /\ patches' = patches + 1
    /\ filters' = f
    /\ dests' = D
    /\ decided' = [l \in Listing |-> Unset]
    /\ UNCHANGED <<listings, covered, delivery, receipts, messages, stretch, sending, faults>>

(* Known listings whose decision is not of the configuration f. *)
DecidedOtherwise(f) == {l \in known : decided[l] # f}

(* A mutant: "config_hash != ?" of a cleared hash that is NULL selects      *)
(* nothing.                                                                 *)
BatchOfDecided(f) ==
    LET S == {l \in DecidedOtherwise(f) : decided[l] # Unset}
    IN {l \in S : Cardinality({m \in S : m < l}) < Limit}

(* The oldest Limit of them. *)
Batch(f) ==
    LET S == DecidedOtherwise(f)
    IN {l \in S : Cardinality({m \in S : m < l}) < Limit}

(* reevaluateListings, at each tick of the scheduler: reads the policy, ... *)
TickReadsPolicy ==
    /\ Idle
    /\ tick' = {[filters |-> filters, dests |-> dests, selected |-> FALSE, rows |-> {}]}
    /\ UNCHANGED <<policy, listings, decisions, delivery, receipts, messages, dispatching, sending, faults>>

(* ... then the rows that were decided under another, ...                   *)
TickSelects(t) ==
    /\ ~t.selected
    /\ tick' = {[t EXCEPT !.selected = TRUE, !.rows = Batch(t.filters)]}
    /\ UNCHANGED <<policy, listings, decisions, delivery, receipts, messages, dispatching, sending, faults>>

(* ... and decides and enqueues these in one transaction, under the policy  *)
(* it read.                                                                 *)
Reevaluate(t) ==
    /\ t.selected
    /\ decided' = [l \in Listing |-> IF l \in t.rows THEN t.filters ELSE decided[l]]
    /\ covered' = [l \in Listing |-> IF l \in t.rows THEN t.dests ELSE covered[l]]
    /\ delivery' = Enqueued({l \in t.rows : t.filters \in facts[l]} \X t.dests)
    /\ tick' = {}
    /\ UNCHANGED <<policy, listings, receipts, messages, dispatching, sending, faults>>
-----------------------------------------------------------------------------
(* The dispatcher. *)

Settled(k) == k \in receipts

Becomes(k, s) == delivery' = [delivery EXCEPT ![k] = s]

(* The claim, and dispatchDelivery up to its reading of the policy. *)
Dispatch(k) ==
    /\ Idle
    /\ sending = {}
    /\ delivery[k] \in Open
    /\ Becomes(k, "processing")
    /\ dispatching' = {[delivery |-> k, filters |-> filters, dests |-> dests, rejected |-> FALSE]}
    /\ UNCHANGED <<policy, listings, decisions, receipts, messages, tick, sending, faults>>

(* The delivery has its receipt, or its destination was removed. *)
Skips(x) ==
    /\ ~x.rejected
    /\ \/ /\ Settled(x.delivery)
          /\ Becomes(x.delivery, "done")
       \/ /\ ~Settled(x.delivery)
          /\ x.delivery[2] \notin x.dests
          /\ Becomes(x.delivery, "cancelled")
    /\ dispatching' = {}
    /\ UNCHANGED <<policy, listings, decisions, receipts, messages, tick, sending, faults>>

(* decideListing writes the decision, under the policy that was read, and   *)
(* an accepted listing goes to Telegram.                                    *)
Judges(x) ==
    LET l == x.delivery[1]
        d == x.delivery[2]
    IN /\ ~x.rejected
       /\ ~Settled(x.delivery)
       /\ d \in x.dests
       /\ decided' = [decided EXCEPT ![l] = x.filters]
       /\ covered' = [covered EXCEPT ![l] = IF decided[l] = x.filters THEN @ \cup {d} ELSE {d}]
       /\ \/ /\ x.filters \in facts[l]
             /\ dispatching' = {}
             /\ \E n \in 0 .. Layers :
                   sending' = {[delivery |-> x.delivery, layers |-> n, accepted |-> FALSE]}
          \/ /\ x.filters \notin facts[l]
             /\ dispatching' = {[x EXCEPT !.rejected = TRUE]}
             /\ UNCHANGED sending
       /\ UNCHANGED <<policy, listings, delivery, receipts, messages, tick, faults>>

(* A rejected one is cancelled. *)
Cancels(x) ==
    /\ x.rejected
    /\ Becomes(x.delivery, "cancelled")
    /\ dispatching' = {}
    /\ UNCHANGED <<policy, listings, decisions, receipts, messages, tick, sending, faults>>

(* Telegram accepts the message. *)
TelegramAccepts(t) ==
    /\ ~t.accepted
    /\ messages' = [messages EXCEPT ![t.delivery] = @ + 1]
    /\ sending' = {[t EXCEPT !.accepted = TRUE]}
    /\ UNCHANGED <<policy, listings, decisions, delivery, receipts, stretch, faults>>

(* Its response arrives: recordDeliveryReceipt and markDeliveriesSent. *)
TelegramResponds(t) ==
    /\ Idle
    /\ t.accepted
    /\ receipts' = receipts \cup {t.delivery}
    /\ Becomes(t.delivery, "done")
    /\ sending' = {}
    /\ UNCHANGED <<policy, listings, decisions, messages, stretch, faults>>

(* The process dies between the two. *)
DiesAfterReceipt(t) ==
    /\ Idle
    /\ t.accepted
    /\ Fault
    /\ receipts' = receipts \cup {t.delivery}
    /\ sending' = {}
    /\ UNCHANGED <<policy, listings, decisions, delivery, messages, stretch>>

LayersLeft(t) == t.layers > 0

(* sendListingToChat: the request failed, or its response was lost, and the *)
(* next layer is tried.                                                     *)
FallsBack(t) ==
    /\ Idle
    /\ LayersLeft(t)
    /\ Fault
    /\ sending' = {[t EXCEPT !.layers = @ - 1, !.accepted = FALSE]}
    /\ UNCHANGED <<policy, listings, decisions, delivery, receipts, messages, stretch>>

(* The last one failed (markDeliveriesFailed), or the deadline aborted the  *)
(* request (failWork): a retry, or the end of the attempts.                 *)
SendFails(t) ==
    /\ Idle
    /\ Fault
    /\ \E s \in {"waiting", "dead"} : Becomes(t.delivery, s)
    /\ sending' = {}
    /\ UNCHANGED <<policy, listings, decisions, receipts, messages, stretch>>

(* The process dies, between any two accesses to the database. *)
Crash ==
    /\ tick # {} \/ dispatching # {} \/ sending # {}
    /\ Fault
    /\ tick' = {} /\ dispatching' = {} /\ sending' = {}
    /\ UNCHANGED <<policy, listings, decisions, delivery, receipts, messages>>

ONext ==
    \/ \E l \in Listing, F \in SUBSET Filters : Finalize(l, F)
    \/ \E f \in Filters, D \in DestinationSets : Patch(f, D)
    \/ TickReadsPolicy
    \/ \E t \in tick : TickSelects(t) \/ Reevaluate(t)
    \/ \E k \in Delivery : Dispatch(k)
    \/ \E x \in dispatching : Skips(x) \/ Judges(x) \/ Cancels(x)
    \/ \E t \in sending : \/ TelegramAccepts(t) \/ TelegramResponds(t) \/ DiesAfterReceipt(t)
                          \/ FallsBack(t) \/ SendFails(t)
    \/ Crash

OSpec == OInit /\ [][ONext]_ovars

(* The scheduler ticks, a stretch that began goes on, the dispatcher polls, *)
(* and a request is answered or runs into its time limit.                   *)
OFairSpec == /\ OSpec
            /\ WF_ovars(TickReadsPolicy)
            /\ WF_ovars(\E t \in tick : TickSelects(t) \/ Reevaluate(t))
            /\ WF_ovars(\E k \in Delivery : Dispatch(k))
            /\ WF_ovars(\E x \in dispatching : Skips(x) \/ Judges(x) \/ Cancels(x))
            /\ WF_ovars(\E t \in sending : TelegramAccepts(t) \/ TelegramResponds(t))
-----------------------------------------------------------------------------
(* "Successful message receipts survive retries" (README): no message goes  *)
(* out for a delivery that has its receipt, whatever crashes, retries,      *)
(* patches and renewed decisions come after it.  A duplicate takes a        *)
(* response that was lost.                                                  *)
NoMessageAfterReceipt ==
    [][\A k \in Delivery : messages'[k] > messages[k] => k \notin receipts]_ovars

Queued(l, d) == delivery[<<l, d>>] \notin {"none", "cancelled"} \/ <<l, d>> \in receipts

UpToDate(l) == decided[l] = filters /\ filters \in facts[l]

(* A listing whose decision is up to date and accepts it has a delivery, on *)
(* its way or at its end, for every present destination that the decisions  *)
(* under this configuration took care of: finalization and reevaluation for *)
(* all they read, the dispatcher for its own.  A patch between reading the  *)
(* policy and deciding under it, stale dispatches that cancel, crashes and  *)
(* batches that leave listings over do not lose one.                        *)
AcceptedIsQueued ==
    \A l \in known : UpToDate(l) => \A d \in dests \cap covered[l] : Queued(l, d)

(* The state is well formed and no accepted listing lacks its delivery.     *)
OutboxConsistent == OTypeOK /\ AcceptedIsQueued

(* "Policy or destination changes reevaluate post-cutover stored facts"     *)
(* (README): nothing is left to do for a listing whose decision is up to    *)
(* date, whatever the destinations are.  The code departs from it: the      *)
(* dispatcher decides for one destination, with the hash of the filters     *)
(* alone, and the reevaluation that would have enqueued the others passes   *)
(* the listing over.                                                        *)
EveryDestinationQueued ==
    \A l \in known : UpToDate(l) => \A d \in dests : Queued(l, d)

Stale(l) == l \in known /\ decided[l] # filters

(* Every patch reaches every listing in the end, a few at each tick, though *)
(* a tick may write decisions under a policy that was just replaced.        *)
Reevaluated == \A l \in Listing : Stale(l) ~> ~Stale(l)
=============================================================================
