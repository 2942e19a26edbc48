--------------------------- MODULE CapturePipeline ---------------------------
(***************************************************************************)
(* From an advert seen on a search page to the facts of its listing:        *)
(* discovery enqueues one detail row per advert, the detail worker fetches  *)
(* the page and stores a capture with a parse row of its own, the parser    *)
(* extracts it and writes the canonical listing.  The hard part is that     *)
(* adverts change while all this is under way: a newer capture supersedes   *)
(* the parse rows of older ones, in the middle of their handlers.           *)
(*                                                                         *)
(* Rows are kept as the states of the abstract JobQueue, which WorkQueue is *)
(* shown to implement: how long a row waits and how often it is retried is  *)
(* settled there, and a failure may here requeue or end it.  Each worker    *)
(* handles one item at a time; a handler that overran its deadline goes on  *)
(* (aborted) beside the next one until its await returns.  One action is    *)
(* what runs between two awaits.                                            *)
(*                                                                         *)
(* An advert's page is its content, named by the first edit that gave it;   *)
(* the search card and the page text change together, so one name stands    *)
(* for discovery_hash and content_hash.  Sources are not historical, the    *)
(* extraction version does not change, and what deduplication merges is     *)
(* Listings' part: canonical is the content of each advert that was last    *)
(* written.                                                                 *)
(***************************************************************************)
EXTENDS Integers

CONSTANTS
    Advert,
    SharedText,  \* all adverts carry the same texts
    EditsOf,     \* bound: how often each advert is edited
    MaxEdits,    \* bound: the most of them
    MaxFaults    \* bound: failures, parks, overrun deadlines and crashes

ASSUME PipelineAssumption ==
    /\ SharedText \in BOOLEAN
    /\ MaxEdits \in Nat
    /\ EditsOf \in [Advert -> 0 .. MaxEdits]
    /\ MaxFaults \in Nat

Edit == 0 .. MaxEdits

(* What the edits of a page may make of it: something new, or what it was   *)
(* before an earlier edit.                                                  *)
History == {h \in [Edit -> Edit] :
               \A e \in Edit : /\ h[e] <= e
                               /\ h[h[e]] = h[e]
                               /\ e > 0 => h[e] # h[e - 1]}

Capture == Advert \X Edit                  \* the keys of parse rows
Text(k) == IF SharedText THEN k[2] ELSE k  \* evidenceHash

None == -1
Open == {"waiting", "processing"}
Ended == {"done", "inactive", "dead", "cancelled"}

VARIABLES
    page,       \* the content of each page after each edit; never changes
    edits,      \* how often each advert's page was edited
    detail,     \* the state of each advert's detail row
    asked,      \* the edit whose fingerprint the detail row carries
    fetches,    \* the detail worker's handlers
    attached,   \* parsing_queue_id of each source: the content it was keyed by
    fetched,    \* the edit at which the attached capture was fetched
    parse,      \* the state of each capture's parse row
    parses,     \* the parser's handlers
    extracted,  \* the captures with llm_json in listing_extractions
    answers,    \* how many answers of the model were saved for each capture
    canonical,  \* the content last written to each advert's listing
    faults      \* failures, parks, overruns and crashes so far

detailVars == <<detail, asked, fetches, attached, fetched>>
parserVars == <<parses, extracted, answers, canonical>>
vars == <<page, edits, detailVars, parse, parserVars, faults>>

Fetch == [advert : Advert, saw : Edit \cup {None}, aborted : BOOLEAN]
Parse == [capture : Capture, aborted : BOOLEAN,
          stage : {"started", "extracting", "geocoding", "written"}]

TypeOK ==
    /\ page \in History
    /\ edits \in [Advert -> Edit]
    /\ detail \in [Advert -> {"none"} \cup Open \cup Ended]
    /\ asked \in [Advert -> Edit \cup {None}]
    /\ fetches \subseteq Fetch
    /\ attached \in [Advert -> {page[e] : e \in Edit} \cup {None}]
    /\ fetched \in [Advert -> Edit \cup {None}]
    /\ parse \in [Capture -> {"none"} \cup Open \cup Ended]
    /\ parses \subseteq Parse
    /\ extracted \subseteq Capture
    /\ answers \in [Capture -> Nat]
    /\ canonical \in [Advert -> {page[e] : e \in Edit} \cup {None}]
    /\ faults \in 0 .. MaxFaults

Init ==
    /\ page \in History
    /\ edits = [a \in Advert |-> 0]
    /\ detail = [a \in Advert |-> "none"]
    /\ asked = [a \in Advert |-> None]
    /\ fetches = {}
    /\ attached = [a \in Advert |-> None]
    /\ fetched = [a \in Advert |-> None]
    /\ parse = [k \in Capture |-> "none"]
    /\ parses = {}
    /\ extracted = {}
    /\ answers = [k \in Capture |-> 0]
    /\ canonical = [a \in Advert |-> None]
    /\ faults = 0

Fault == faults < MaxFaults /\ faults' = faults + 1
-----------------------------------------------------------------------------
(* Mutants: forms of the definitions below with one plausible slip each. *)

(* supersedeOlderCaptures without "key != @key". *)
StoreSupersedesItself(a, e) ==
    /\ parse' = [j \in Capture |->
          IF j[1] = a /\ parse[j] \in Open THEN "cancelled"
          ELSE IF j = <<a, page[e]>> /\ parse[j] = "none" THEN "waiting"
          ELSE parse[j]]
    /\ attached' = [attached EXCEPT ![a] = page[e]]
    /\ fetched' = [fetched EXCEPT ![a] = e]

(* No second currentSourceForParse, after geocoding. *)
Unfenced(k) == TRUE

(* Only the capture's own extraction is looked up. *)
NeverReusable(k) == FALSE

(* 'processing' is not in CLAIMABLE. *)
OpenUnlessClaimed(k) == parse[k] = "waiting"
-----------------------------------------------------------------------------
(* The landlord edits the advert. *)
EditAdvert(a) == /\ edits[a] < EditsOf[a]
                 /\ edits' = [edits EXCEPT ![a] = @ + 1]
                 /\ UNCHANGED <<page, detailVars, parse, parserVars, faults>>

(* enqueueDiscovery: a search page shows a, in its present form or one the  *)
(* page has kept since the last search.  An equal fingerprint leaves the    *)
(* row alone; another one starts it over, also while its handler runs.      *)
Discover(a) ==
    \E e \in asked[a] .. edits[a] :
        /\ e # None
        /\ asked[a] # None => page[e] # page[asked[a]]
        /\ asked' = [asked EXCEPT ![a] = e]
        /\ detail' = [detail EXCEPT ![a] = "waiting"]
        /\ UNCHANGED <<page, edits, fetches, attached, fetched, parse, parserVars, faults>>
-----------------------------------------------------------------------------
(* The detail worker. *)

Leaves(t) == fetches' = fetches \ {t}

DetailClaims(a) ==
    /\ \A t \in fetches : t.aborted
    /\ detail[a] \in Open
    /\ detail' = [detail EXCEPT ![a] = "processing"]
    /\ fetches' = fetches \cup {[advert |-> a, saw |-> None, aborted |-> FALSE]}
    /\ UNCHANGED <<page, edits, asked, attached, fetched, parse, parserVars, faults>>

(* captureDetails reads the page; the images are still to be downloaded. *)
ReadsPage(t) ==
    /\ t.saw = None
    /\ fetches' = (fetches \ {t}) \cup {[t EXCEPT !.saw = edits[t.advert]]}
    /\ UNCHANGED <<page, edits, detail, asked, attached, fetched, parse, parserVars, faults>>

(* enqueueCapture: the other open captures of the advert are superseded, a  *)
(* parse row is inserted unless there is one, and the source points to it.  *)
StoreCapture(a, e) ==
    LET k == <<a, page[e]>>
    IN  /\ parse' = [j \in Capture |->
              IF j = k
              THEN IF parse[k] = "none" THEN "waiting" ELSE parse[k]
              ELSE IF j[1] = a /\ parse[j] \in Open THEN "cancelled" ELSE parse[j]]
        /\ attached' = [attached EXCEPT ![a] = page[e]]
        /\ fetched' = [fetched EXCEPT ![a] = e]

MayWrite(t) == ~t.aborted

(* processCapture, from its last check of the signal to its end. *)
Stores(t) ==
    /\ t.saw # None
    /\ MayWrite(t)
    /\ StoreCapture(t.advert, t.saw)
    /\ detail' = [detail EXCEPT ![t.advert] = "done"]
    /\ Leaves(t)
    /\ UNCHANGED <<page, edits, asked, parserVars, faults>>

(* The process dies after enqueueCapture and before completeWork. *)
DiesStoring(t) ==
    /\ t.saw # None
    /\ MayWrite(t)
    /\ Fault
    /\ StoreCapture(t.advert, t.saw)
    /\ fetches' = {}
    /\ parses' = {}
    /\ UNCHANGED <<page, edits, detail, asked, extracted, answers, canonical>>

(* The page says the advert is gone, as a capture or as an error; counted   *)
(* with the faults to bound how often.                                      *)
FindsInactive(t) ==
    /\ t.saw = None
    /\ MayWrite(t)
    /\ Fault
    /\ detail' = [detail EXCEPT ![t.advert] = "inactive"]
    /\ Leaves(t)
    /\ UNCHANGED <<page, edits, asked, attached, fetched, parse, parserVars>>

(* An error or a park, counted in WorkQueue: the row waits, or is given up.  *)
(* When the deadline expires the handler is aborted and goes on.            *)
DetailFails(t) ==
    /\ ~t.aborted
    /\ Fault
    /\ \E s \in {"waiting", "dead"} : detail' = [detail EXCEPT ![t.advert] = s]
    /\ \/ Leaves(t)
       \/ fetches' = (fetches \ {t}) \cup {[t EXCEPT !.aborted = TRUE]}
    /\ UNCHANGED <<page, edits, asked, attached, fetched, parse, parserVars>>

(* signal.throwIfAborted. *)
DetailNoticesAbort(t) ==
    /\ t.aborted
    /\ Leaves(t)
    /\ UNCHANGED <<page, edits, detail, asked, attached, fetched, parse, parserVars, faults>>
-----------------------------------------------------------------------------
(* The parser. *)

Current(k) == attached[k[1]] = k[2] /\ parse[k] = "processing"

Reusable(k) == \E j \in extracted : j # k /\ Text(j) = Text(k)

Goes(t, stage) == parses' = (parses \ {t}) \cup {[t EXCEPT !.stage = stage]}
Returns(t) == parses' = parses \ {t}

(* cancelWork and completeWork leave a cancelled row cancelled. *)
EndParse(k, s) ==
    parse' = [parse EXCEPT ![k] = IF @ = "cancelled" THEN @ ELSE s]

(* retryWork and deferWork leave a row alone that is no longer open. *)
Requeue(k) ==
    \E s \in {"waiting", "dead"} :
        parse' = [parse EXCEPT ![k] = IF @ \in Open THEN s ELSE @]

(* CLAIMABLE: also a row whose execution was lost, once its lease ran out. *)
Claimable(k) == parse[k] \in Open

ParserClaims(k) ==
    /\ \A t \in parses : t.aborted
    /\ Claimable(k)
    /\ parse' = [parse EXCEPT ![k] = "processing"]
    /\ parses' = parses \cup {[capture |-> k, stage |-> "started", aborted |-> FALSE]}
    /\ UNCHANGED <<page, edits, detailVars, extracted, answers, canonical, faults>>

(* finalizeLive up to the geocoder. *)
BeginFinalize(t) ==
    \/ /\ Current(t.capture)
       /\ Goes(t, "geocoding")
       /\ UNCHANGED parse
    \/ /\ ~Current(t.capture)
       /\ EndParse(t.capture, "cancelled")
       /\ Returns(t)

(* processQueueItem with a saved extraction. *)
ResumesExtracted(t) ==
    /\ t.stage = "started"
    /\ t.capture \in extracted
    /\ BeginFinalize(t)
    /\ UNCHANGED <<page, edits, detailVars, extracted, answers, canonical, faults>>

FindsStale(t) ==
    /\ t.stage = "started"
    /\ t.capture \notin extracted
    /\ ~Current(t.capture)
    /\ EndParse(t.capture, "cancelled")
    /\ Returns(t)
    /\ UNCHANGED <<page, edits, detailVars, extracted, answers, canonical, faults>>

(* The extraction of the same text is saved for this capture, but the audit *)
(* event of updateParseStage calls auditWork, which queueStorage.js does    *)
(* not import: the handler fails with a ReferenceError.                     *)
Reuses(t) ==
    /\ t.stage = "started"
    /\ t.capture \notin extracted
    /\ Current(t.capture)
    /\ Reusable(t.capture)
    /\ extracted' = extracted \cup {t.capture}
    /\ Requeue(t.capture)
    /\ Returns(t)
    /\ UNCHANGED <<page, edits, detailVars, answers, canonical, faults>>

AsksModel(t) ==
    /\ t.stage = "started"
    /\ t.capture \notin extracted
    /\ Current(t.capture)
    /\ ~Reusable(t.capture)
    /\ Goes(t, "extracting")
    /\ UNCHANGED <<page, edits, detailVars, parse, extracted, answers, canonical, faults>>

(* The model answers: the extraction is saved and finalizing begins. *)
ModelAnswers(t) ==
    /\ t.stage = "extracting"
    /\ ~t.aborted
    /\ extracted' = extracted \cup {t.capture}
    /\ answers' = [answers EXCEPT ![t.capture] = @ + 1]
    /\ BeginFinalize(t)
    /\ UNCHANGED <<page, edits, detailVars, canonical, faults>>

Fenced(k) == Current(k)

(* The transaction at the end of finalizeLive.  Without an address there is *)
(* no geocoder to wait for and it follows at once, which is one of the      *)
(* orders in which it may run here.                                         *)
WritesListing(t) ==
    /\ t.stage = "geocoding"
    /\ ~t.aborted
    /\ Fenced(t.capture)
    /\ canonical' = [canonical EXCEPT ![t.capture[1]] = t.capture[2]]
    /\ Goes(t, "written")
    /\ UNCHANGED <<page, edits, detailVars, parse, extracted, answers, faults>>

FindsSuperseded(t) ==
    /\ t.stage = "geocoding"
    /\ ~t.aborted
    /\ ~Fenced(t.capture)
    /\ EndParse(t.capture, "cancelled")
    /\ Returns(t)
    /\ UNCHANGED <<page, edits, detailVars, extracted, answers, canonical, faults>>

(* completeParse, one turn of the microtask queue after the transaction. *)
CompletesParse(t) ==
    /\ t.stage = "written"
    /\ EndParse(t.capture, "done")
    /\ Returns(t)
    /\ UNCHANGED <<page, edits, detailVars, extracted, answers, canonical, faults>>

(* An error, a park or an overrun deadline; no timer fires between the      *)
(* transaction and completeParse, nor before the first await.               *)
ParserFails(t) ==
    /\ ~t.aborted
    /\ t.stage # "started"
    /\ Fault
    /\ Requeue(t.capture)
    /\ \/ Returns(t)
       \/ /\ t.stage # "written"
          /\ parses' = (parses \ {t}) \cup {[t EXCEPT !.aborted = TRUE]}
    /\ UNCHANGED <<page, edits, detailVars, extracted, answers, canonical>>

ParserNoticesAbort(t) ==
    /\ t.aborted
    /\ Returns(t)
    /\ UNCHANGED <<page, edits, detailVars, parse, extracted, answers, canonical, faults>>
-----------------------------------------------------------------------------
(* The process dies and starts again; leases run out and rows are reclaimed. *)
Crash == /\ Fault
         /\ fetches \cup parses # {}
         /\ fetches' = {}
         /\ parses' = {}
         /\ UNCHANGED <<page, edits, detail, asked, attached, fetched, parse,
                        extracted, answers, canonical>>

DetailStep(t) == ReadsPage(t) \/ Stores(t) \/ DetailNoticesAbort(t)

ParserStep(t) == \/ ResumesExtracted(t) \/ FindsStale(t) \/ Reuses(t)
                 \/ AsksModel(t) \/ ModelAnswers(t) \/ WritesListing(t)
                 \/ FindsSuperseded(t) \/ CompletesParse(t)
                 \/ ParserNoticesAbort(t)

Next == \/ \E a \in Advert : EditAdvert(a) \/ Discover(a) \/ DetailClaims(a)
        \/ \E t \in fetches : \/ DetailStep(t) \/ DiesStoring(t)
                              \/ FindsInactive(t) \/ DetailFails(t)
        \/ \E k \in Capture : ParserClaims(k)
        \/ \E t \in parses : ParserStep(t) \/ ParserFails(t)
        \/ Crash

Spec == Init /\ [][Next]_vars

(* Both workers keep going; every await of theirs returns or runs into its  *)
(* deadline, which is a fault.                                              *)
FairSpec == /\ Spec
            /\ WF_vars(\E a \in Advert : DetailClaims(a))
            /\ WF_vars(\E t \in fetches : DetailStep(t))
            /\ WF_vars(\E k \in Capture : ParserClaims(k))
            /\ WF_vars(\E t \in parses : ParserStep(t))
-----------------------------------------------------------------------------
(* However captures, parses, crashes and repeated fetches interleave, only  *)
(* the capture a source points to is still to be parsed.                    *)
OneOpenCapture ==
    \A k \in Capture : parse[k] \in Open => attached[k[1]] = k[2]

(* A handler that was superseded or overran its deadline, and goes on, does *)
(* no harm.  A listing is only ever given the content its source points to  *)
(* at that moment: a capture superseded while its text was extracted or its *)
(* address geocoded writes nothing.  And a source never goes back to an     *)
(* earlier state of the page.                                               *)
LateWorkIsFenced ==
    [][\A a \in Advert : /\ canonical'[a] # canonical[a] => canonical'[a] = attached[a]
                         /\ fetched'[a] >= fetched[a]]_vars

(* The capture a source points to is being worked on, was given up after    *)
(* its retries, or is what the listing shows.                               *)
Accounted(a) ==
    LET state == parse[<<a, attached[a]>>]
    IN  \/ state \in Open \cup {"dead"}
        \/ state = "done" /\ canonical[a] = attached[a]

(* The source points to a content the page had not had before. *)
Fresh(a) == attached[a] # None /\ fetched[a] = attached[a]

(* No order of supersession, crash and late completion silently drops new   *)
(* content ("changed content ... creates fresh work", README).              *)
CurrentIsWritten == \A a \in Advert : Fresh(a) => Accounted(a)

(* The rows of an advert agree with its source and its listing. *)
CaptureConsistent == TypeOK /\ OneOpenCapture /\ CurrentIsWritten

(* "Identical normalized text reuses extraction" (README): no two answers   *)
(* of the model are paid for and kept for one text, whatever is retried,    *)
(* reclaimed or shared between adverts.                                     *)
ExtractedOnce ==
    \A j, k \in Capture :
        IF j = k THEN answers[k] <= 1
        ELSE Text(j) = Text(k) => answers[j] + answers[k] <= 1

(* New content that stays current is written to its listing, or given up.   *)
Published ==
    \A k \in Capture :
        attached[k[1]] = k[2] /\ Fresh(k[1]) ~> \/ canonical[k[1]] = k[2]
                                               \/ attached[k[1]] # k[2]
                                               \/ parse[k] = "dead"
=============================================================================
