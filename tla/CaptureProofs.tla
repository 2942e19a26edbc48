---------------------------- MODULE CaptureProofs ----------------------------
(***************************************************************************)
(* CapturePipeline for any adverts, edits, histories and faults: its types, *)
(* that only the capture a source points to is open, that new content is    *)
(* worked on or written, that late handlers write nothing old, and that a   *)
(* text is paid for once.                                                   *)
(***************************************************************************)
EXTENDS CapturePipeline, TLAPS

(* A source points to the content its page had when it was fetched.         *)
AttachedIsFetched ==
    \A a \in Advert : attached[a] = IF fetched[a] = None THEN None ELSE page[fetched[a]]

FetchedIsPast == /\ \A a \in Advert : fetched[a] <= edits[a]
                 /\ \A t \in fetches : t.saw <= edits[t.advert]

(* One fetch at most may still store, and what it has read is not older     *)
(* than what is stored.                                                     *)
OneFetchStores ==
    \A t \in fetches : ~t.aborted =>
        /\ \A u \in fetches : ~u.aborted => u = t
        /\ t.saw # None => fetched[t.advert] <= t.saw

(* Whoever has fetched a content has fetched no earlier state since.        *)
RowsAreOfThePast ==
    \A k \in Capture : parse[k] # "none" => k[2] <= fetched[k[1]]

(* One parse at most may still write.  Its row is its own, or superseded.   *)
OneParseWrites ==
    \A t \in parses : ~t.aborted =>
        /\ \A u \in parses : ~u.aborted => u = t
        /\ parse[t.capture] \in {"processing", "cancelled"}

(* How far a parse is says what was done.                                   *)
StagesAreTrue ==
    \A t \in parses :
        /\ t.stage \in {"started", "written"} => ~t.aborted
        /\ t.stage = "written" => canonical[t.capture[1]] = t.capture[2]
        /\ t.stage = "extracting" /\ ~t.aborted =>
              \A j \in extracted : Text(j) # Text(t.capture)

AnswersAreSaved == \A k \in Capture : answers[k] > 0 => k \in extracted

IInv == /\ TypeOK
        /\ AttachedIsFetched
        /\ FetchedIsPast
        /\ OneFetchStores
        /\ RowsAreOfThePast
        /\ OneParseWrites
        /\ StagesAreTrue
        /\ AnswersAreSaved
        /\ OneOpenCapture
        /\ CurrentIsWritten
        /\ ExtractedOnce
-----------------------------------------------------------------------------
LEMMA Numbers == /\ MaxEdits \in Nat /\ Edit \subseteq Int /\ None \in Int
                 /\ 0 \in Edit /\ \A e \in Edit : e >= 0 /\ e # None
                 /\ \A a \in Advert : EditsOf[a] \in Edit
BY PipelineAssumption DEF Edit, None

(* What a handler refers to.                                                *)
LEMMA Handlers ==
    ASSUME TypeOK
    PROVE  /\ \A t \in fetches : t.advert \in Advert /\ t.saw \in Edit \cup {None}
           /\ \A t \in parses : /\ t.capture \in Capture
                                 /\ t.capture[1] \in Advert /\ t.capture[2] \in Edit
                                 /\ t.capture = <<t.capture[1], t.capture[2]>>
BY DEF TypeOK, Fetch, Parse, Capture

(* The content of a page is named by the first edit that gave it.           *)
LEMMA Contents ==
    ASSUME TypeOK, NEW e \in Edit
    PROVE  page[e] \in Edit /\ page[e] <= e /\ page[page[e]] = page[e]
BY DEF TypeOK, History
-----------------------------------------------------------------------------
(* Types. *)

LEMMA StoreType ==
    ASSUME TypeOK, NEW a \in Advert, NEW e \in Edit, StoreCapture(a, e)
    PROVE  /\ attached' \in [Advert -> {page[f] : f \in Edit} \cup {None}]
           /\ fetched' \in [Advert -> Edit \cup {None}]
           /\ parse' \in [Capture -> {"none"} \cup Open \cup Ended]
BY DEF StoreCapture, TypeOK, Open, Ended

LEMMA DetailType ==
    ASSUME TypeOK
    PROVE  /\ \A a \in Advert : EditAdvert(a) \/ Discover(a) \/ DetailClaims(a) => TypeOK'
           /\ \A t \in fetches : DetailStep(t) \/ DiesStoring(t) \/ FindsInactive(t)
                                 \/ DetailFails(t) => TypeOK'
<1>1. ASSUME NEW a \in Advert, EditAdvert(a) PROVE TypeOK'
  <2>1. edits[a] + 1 \in Edit  BY <1>1, Numbers DEF EditAdvert, TypeOK, Edit
  <2>2. QED  BY <1>1, <2>1 DEF EditAdvert, TypeOK, detailVars, parserVars
<1>2. ASSUME NEW a \in Advert, Discover(a) PROVE TypeOK'
  <2>1. \A e \in asked[a] .. edits[a] : e # None => e \in Edit
    BY Numbers DEF TypeOK, Edit, None
  <2>2. QED  BY <1>2, <2>1 DEF Discover, TypeOK, Open, parserVars
<1>3. ASSUME NEW a \in Advert, DetailClaims(a) PROVE TypeOK'
  <2>1. [advert |-> a, saw |-> None, aborted |-> FALSE] \in Fetch  BY DEF Fetch
  <2>2. QED  BY <1>3, <2>1 DEF DetailClaims, TypeOK, Open, parserVars
<1>4. ASSUME NEW t \in fetches, ReadsPage(t) PROVE TypeOK'
  <2>1. [t EXCEPT !.saw = edits[t.advert]] \in Fetch  BY DEF TypeOK, Fetch
  <2>2. QED  BY <1>4, <2>1 DEF ReadsPage, TypeOK, parserVars
<1>5. ASSUME NEW t \in fetches, Stores(t) PROVE TypeOK'
  <2>1. t.advert \in Advert /\ t.saw \in Edit  BY <1>5, Handlers DEF Stores
  <2>2. QED
    BY <1>5, <2>1, StoreType DEF Stores, TypeOK, Leaves, Ended, parserVars
<1>6. ASSUME NEW t \in fetches, DiesStoring(t) PROVE TypeOK'
  <2>1. t.advert \in Advert /\ t.saw \in Edit  BY <1>6, Handlers DEF DiesStoring
  <2>2. faults' \in 0 .. MaxFaults
    BY <1>6, PipelineAssumption DEF DiesStoring, Fault, TypeOK
  <2>3. QED  BY <1>6, <2>1, <2>2, StoreType DEF DiesStoring, TypeOK
<1>7. ASSUME NEW t \in fetches, FindsInactive(t) \/ DetailFails(t) PROVE TypeOK'
  <2>1. faults' \in 0 .. MaxFaults
    BY <1>7, PipelineAssumption DEF FindsInactive, DetailFails, Fault, TypeOK
  <2>2. [t EXCEPT !.aborted = TRUE] \in Fetch  BY DEF TypeOK, Fetch
  <2>3. fetches' \subseteq Fetch
    BY <1>7, <2>2 DEF FindsInactive, DetailFails, Leaves, TypeOK
  <2>4. detail' \in [Advert -> {"none"} \cup Open \cup Ended]
    BY <1>7 DEF FindsInactive, DetailFails, TypeOK, Open, Ended
  <2>5. QED
    BY <1>7, <2>1, <2>3, <2>4 DEF FindsInactive, DetailFails, TypeOK, parserVars
<1>8. ASSUME NEW t \in fetches, DetailNoticesAbort(t) PROVE TypeOK'
  BY <1>8 DEF DetailNoticesAbort, Leaves, TypeOK, parserVars
<1>9. QED
  BY <1>1, <1>2, <1>3, <1>4, <1>5, <1>6, <1>7, <1>8 DEF DetailStep

LEMMA ParserType ==
    ASSUME TypeOK
    PROVE  /\ \A k \in Capture : ParserClaims(k) => TypeOK'
           /\ \A t \in parses : ParserStep(t) \/ ParserFails(t) => TypeOK'
<1>1. ASSUME NEW k \in Capture, ParserClaims(k) PROVE TypeOK'
  <2>1. [capture |-> k, stage |-> "started", aborted |-> FALSE] \in Parse  BY DEF Parse
  <2>2. QED  BY <1>1, <2>1 DEF ParserClaims, TypeOK, Open, detailVars
<1>2. \A t \in parses : /\ [t EXCEPT !.aborted = TRUE] \in Parse
                         /\ \A s \in {"extracting", "geocoding", "written"} :
                               [t EXCEPT !.stage = s] \in Parse
  BY DEF TypeOK, Parse
<1>3. \A t \in parses : \A s \in {"extracting", "geocoding", "written"} :
         /\ Goes(t, s) => parses' \subseteq Parse
         /\ Returns(t) => parses' \subseteq Parse
  BY <1>2 DEF Goes, Returns, TypeOK
<1>4. \A t \in parses : \/ EndParse(t.capture, "cancelled") \/ EndParse(t.capture, "done")
                         \/ Requeue(t.capture)
         => parse' \in [Capture -> {"none"} \cup Open \cup Ended]
  BY Handlers DEF EndParse, Requeue, TypeOK, Open, Ended
<1>5. ASSUME NEW t \in parses, BeginFinalize(t)
      PROVE  /\ parses' \subseteq Parse
             /\ parse' \in [Capture -> {"none"} \cup Open \cup Ended]
  BY <1>3, <1>4, <1>5 DEF BeginFinalize, TypeOK
<1>6. ASSUME NEW t \in parses, ResumesExtracted(t) \/ FindsStale(t) \/ Reuses(t)
                               \/ AsksModel(t)
      PROVE  TypeOK'
  BY <1>3, <1>4, <1>5, <1>6, Handlers
  DEF ResumesExtracted, FindsStale, Reuses, AsksModel, TypeOK, detailVars
<1>7. ASSUME NEW t \in parses, ModelAnswers(t) PROVE TypeOK'
  <2>1. answers' \in [Capture -> Nat]
    BY <1>7, Handlers DEF ModelAnswers, TypeOK
  <2>2. QED  BY <1>5, <1>7, <2>1, Handlers DEF ModelAnswers, TypeOK, detailVars
<1>8. ASSUME NEW t \in parses, WritesListing(t) PROVE TypeOK'
  <2>1. t.capture[2] = attached[t.capture[1]]  BY <1>8 DEF WritesListing, Fenced, Current
  <2>2. canonical' \in [Advert -> {page[e] : e \in Edit} \cup {None}]
    BY <1>8, <2>1, Handlers DEF WritesListing, TypeOK
  <2>3. QED  BY <1>3, <1>8, <2>2 DEF WritesListing, TypeOK, detailVars
<1>9. ASSUME NEW t \in parses,
             FindsSuperseded(t) \/ CompletesParse(t) \/ ParserNoticesAbort(t)
      PROVE  TypeOK'
  BY <1>3, <1>4, <1>9
  DEF FindsSuperseded, CompletesParse, ParserNoticesAbort, TypeOK, detailVars
<1>10. ASSUME NEW t \in parses, ParserFails(t) PROVE TypeOK'
  <2>1. faults' \in 0 .. MaxFaults
    BY <1>10, PipelineAssumption DEF ParserFails, Fault, TypeOK
  <2>2. parses' \subseteq Parse  BY <1>2, <1>10 DEF ParserFails, Returns, TypeOK
  <2>3. QED  BY <1>4, <1>10, <2>1, <2>2 DEF ParserFails, TypeOK, detailVars
<1>11. QED
  BY <1>1, <1>6, <1>7, <1>8, <1>9, <1>10 DEF ParserStep

LEMMA TypeStep == TypeOK /\ [Next]_vars => TypeOK'
<1> SUFFICES ASSUME TypeOK, [Next]_vars PROVE TypeOK'
  OBVIOUS
<1>1. CASE Crash
  <2>1. faults' \in 0 .. MaxFaults
    BY <1>1, PipelineAssumption DEF Crash, Fault, TypeOK
  <2>2. QED  BY <1>1, <2>1 DEF Crash, TypeOK
<1>2. CASE UNCHANGED vars  BY <1>2 DEF vars, detailVars, parserVars, TypeOK
<1>3. QED  BY <1>1, <1>2, DetailType, ParserType DEF Next

LEMMA TypeInit == Init => TypeOK
BY Numbers, PipelineAssumption DEF Init, TypeOK, Open, Ended, None

(* Rows, handlers and contents keep their types.                            *)
THEOREM CaptureTypeCorrect == Spec => []TypeOK
BY TypeInit, TypeStep, PTL DEF Spec
-----------------------------------------------------------------------------
(* What the detail worker does to the invariant. *)

(* A step that stores nothing: the parser's part, the rows and the sources  *)
(* are left alone.                                                          *)
LEMMA NothingStored ==
    ASSUME IInv, TypeOK', OneFetchStores', FetchedIsPast',
           UNCHANGED <<page, attached, fetched, parse, parserVars>>
    PROVE  IInv'
BY DEF IInv, AttachedIsFetched, RowsAreOfThePast, OneParseWrites, StagesAreTrue,
       AnswersAreSaved, OneOpenCapture, CurrentIsWritten, Fresh, Accounted,
       ExtractedOnce, parserVars

(* Handlers leave or overrun.                                               *)
LEMMA FetchesLeave ==
    ASSUME IInv, NEW t \in fetches,
           \/ fetches' = fetches \ {t}
           \/ fetches' = (fetches \ {t}) \cup {[t EXCEPT !.aborted = TRUE]},
           UNCHANGED <<fetched, edits>>
    PROVE  OneFetchStores' /\ FetchedIsPast'
<1>1. /\ [t EXCEPT !.aborted = TRUE].aborted = TRUE
      /\ [t EXCEPT !.aborted = TRUE].saw = t.saw
      /\ [t EXCEPT !.aborted = TRUE].advert = t.advert
  BY DEF IInv, TypeOK, Fetch
<1>2. QED  BY <1>1 DEF IInv, OneFetchStores, FetchedIsPast

LEMMA DetailLeavesRows ==
    ASSUME IInv, TypeOK'
    PROVE  /\ \A a \in Advert : EditAdvert(a) \/ Discover(a) \/ DetailClaims(a) => IInv'
           /\ \A t \in fetches : ReadsPage(t) \/ DetailNoticesAbort(t)
                                 \/ FindsInactive(t) \/ DetailFails(t) => IInv'
<1>0. /\ \A a \in Advert : edits[a] \in Int /\ fetched[a] \in Int /\ None <= edits[a]
      /\ \A t \in fetches : t.saw \in Int /\ t.advert \in Advert
  BY Numbers, Handlers DEF IInv, TypeOK, Edit, None
<1>1. ASSUME NEW a \in Advert, EditAdvert(a) PROVE IInv'
  <2>1. OneFetchStores'  BY <1>1 DEF EditAdvert, detailVars, IInv, OneFetchStores
  <2>2. \A b \in Advert : edits'[b] \in Int /\ edits[b] <= edits'[b]
    BY <1>0, <1>1 DEF EditAdvert, IInv, TypeOK
  <2>3. FetchedIsPast'
    BY <1>0, <1>1, <2>2 DEF EditAdvert, detailVars, IInv, FetchedIsPast
  <2>4. QED  BY <1>1, <2>1, <2>3, NothingStored DEF EditAdvert, detailVars
<1>2. ASSUME NEW a \in Advert, Discover(a) PROVE IInv'
  <2>1. OneFetchStores' /\ FetchedIsPast'
    BY <1>2 DEF Discover, IInv, OneFetchStores, FetchedIsPast
  <2>2. QED  BY <1>2, <2>1, NothingStored DEF Discover
<1>3. ASSUME NEW a \in Advert, DetailClaims(a) PROVE IInv'
  <2> DEFINE u == [advert |-> a, saw |-> None, aborted |-> FALSE]
  <2>1. u.advert = a /\ u.saw = None  OBVIOUS
  <2>2. u.saw <= edits[u.advert]  BY <1>0, <2>1
  <2>3. /\ \A t \in fetches : t.aborted
        /\ fetches' = fetches \cup {u} /\ fetched' = fetched /\ edits' = edits
    BY <1>3 DEF DetailClaims
  <2> HIDE DEF u
  <2>4. OneFetchStores'  BY <2>1, <2>3 DEF OneFetchStores
  <2>5. FetchedIsPast'  BY <2>2, <2>3 DEF IInv, FetchedIsPast
  <2>6. QED  BY <1>3, <2>4, <2>5, NothingStored DEF DetailClaims
<1>4. ASSUME NEW t \in fetches, ReadsPage(t) PROVE IInv'
  <2> DEFINE u == [t EXCEPT !.saw = edits[t.advert]]
  <2>1. u.advert = t.advert /\ u.saw = edits[t.advert] /\ u.aborted = t.aborted
    BY DEF IInv, TypeOK, Fetch
  <2>2. fetched[t.advert] <= edits[t.advert] /\ u.saw <= edits[t.advert]
    BY <1>0, <2>1 DEF IInv, FetchedIsPast
  <2>3. /\ fetches' = (fetches \ {t}) \cup {u}
        /\ fetched' = fetched /\ edits' = edits
    BY <1>4 DEF ReadsPage
  <2> HIDE DEF u
  <2>4. OneFetchStores' /\ FetchedIsPast'
    BY <2>1, <2>2, <2>3 DEF IInv, OneFetchStores, FetchedIsPast
  <2>5. QED  BY <1>4, <2>4, NothingStored DEF ReadsPage
<1>5. ASSUME NEW t \in fetches,
             DetailNoticesAbort(t) \/ FindsInactive(t) \/ DetailFails(t)
      PROVE  IInv'
  <2>1. \/ fetches' = fetches \ {t}
        \/ fetches' = (fetches \ {t}) \cup {[t EXCEPT !.aborted = TRUE]}
    BY <1>5 DEF DetailNoticesAbort, FindsInactive, DetailFails, Leaves
  <2>2. fetched' = fetched /\ edits' = edits
    BY <1>5 DEF DetailNoticesAbort, FindsInactive, DetailFails
  <2>3. OneFetchStores' /\ FetchedIsPast'  BY <2>1, <2>2, FetchesLeave
  <2>4. QED
    BY <1>5, <2>3, NothingStored DEF DetailNoticesAbort, FindsInactive, DetailFails
<1>6. QED  BY <1>1, <1>2, <1>3, <1>4, <1>5

(* Both ways in which a capture is stored: the detail worker goes on, or    *)
(* the process dies.                                                        *)
Storing(t) ==
    /\ t.saw # None /\ ~t.aborted
    /\ StoreCapture(t.advert, t.saw)
    /\ fetches' \in {fetches \ {t}, {}} /\ parses' \in {parses, {}}
    /\ UNCHANGED <<page, edits, extracted, answers, canonical>>

LEMMA StoringSteps ==
    \A t \in fetches : Stores(t) \/ DiesStoring(t) => Storing(t)
BY DEF Stores, DiesStoring, Storing, MayWrite, Leaves, parserVars

(* The source moves on to what the handler read, which is not older; a row  *)
(* that is there already is that of the capture the source points to.       *)
LEMMA StoringMovesOn ==
    ASSUME IInv, NEW t \in fetches, Storing(t), NEW a, NEW k, NEW e,
           a = t.advert, e = t.saw, k = <<a, page[e]>>
    PROVE  /\ a \in Advert /\ e \in Edit /\ k \in Capture
           /\ fetched[a] <= e /\ fetched[a] \in Int /\ e <= edits[a]
           /\ attached' = [attached EXCEPT ![a] = k[2]] /\ attached'[a] = k[2]
           /\ fetched' = [fetched EXCEPT ![a] = e] /\ fetched'[a] = e
           /\ parse'[k] = (IF parse[k] = "none" THEN "waiting" ELSE parse[k])
           /\ page[e] = e /\ parse[k] # "none" => attached[a] = e /\ fetched[a] = e
<1>1. a \in Advert /\ e \in Edit  BY Handlers DEF Storing, IInv
<1>2. page[e] \in Edit  BY <1>1, Contents DEF IInv
<1>3. k \in Capture  BY <1>1, <1>2 DEF Capture
<1>4. fetched[a] <= e /\ e <= edits[a]
  BY DEF Storing, IInv, OneFetchStores, FetchedIsPast
<1>5. fetched[a] \in Int /\ fetched[a] \in Edit \cup {None}
  BY <1>1, Numbers DEF IInv, TypeOK
<1>6. ASSUME page[e] = e, parse[k] # "none" PROVE attached[a] = e /\ fetched[a] = e
  <2>1. e <= fetched[a]  BY <1>3, <1>6 DEF IInv, RowsAreOfThePast
  <2>2. fetched[a] = e  BY <1>1, <1>4, <1>5, <2>1, Numbers
  <2>3. e # None  BY <1>1, Numbers
  <2>4. attached[a] = page[e]  BY <1>1, <2>2, <2>3 DEF IInv, AttachedIsFetched
  <2>5. QED  BY <1>6, <2>2, <2>4
<1>7. /\ attached' = [attached EXCEPT ![a] = k[2]] /\ attached'[a] = k[2]
      /\ fetched' = [fetched EXCEPT ![a] = e] /\ fetched'[a] = e
      /\ parse'[k] = (IF parse[k] = "none" THEN "waiting" ELSE parse[k])
  BY <1>1, <1>3 DEF Storing, StoreCapture, IInv, TypeOK
<1>8. QED  BY <1>1, <1>3, <1>4, <1>5, <1>6, <1>7

LEMMA StoringKeeps ==
    ASSUME IInv, TypeOK', NEW t \in fetches, Storing(t)
    PROVE  IInv'
<1> DEFINE a == t.advert
           e == t.saw
           k == <<a, page[e]>>
<1>1. /\ a \in Advert /\ e \in Edit /\ k \in Capture
      /\ fetched[a] <= e /\ fetched[a] \in Int /\ e <= edits[a]
      /\ attached' = [attached EXCEPT ![a] = k[2]] /\ attached'[a] = k[2]
      /\ fetched' = [fetched EXCEPT ![a] = e] /\ fetched'[a] = e
      /\ parse'[k] = (IF parse[k] = "none" THEN "waiting" ELSE parse[k])
      /\ page[e] = e /\ parse[k] # "none" => attached[a] = e /\ fetched[a] = e
  BY StoringMovesOn
<1>2. k[1] = a /\ k[2] = page[e] /\ page[e] \in Edit /\ page[e] <= e /\ e # None
  BY <1>1, Contents, Numbers DEF IInv
<1>3. \A j \in Capture : /\ j = <<j[1], j[2]>> /\ j[1] \in Advert /\ j[2] \in Edit
                         /\ j[1] # a => parse'[j] = parse[j]
                         /\ j[1] = a /\ j # k => parse'[j] = IF parse[j] \in Open
                                                 THEN "cancelled" ELSE parse[j]
  BY DEF Storing, StoreCapture, Capture
<1>4. /\ page' = page /\ edits' = edits /\ extracted' = extracted
      /\ answers' = answers /\ canonical' = canonical
      /\ fetches' \subseteq fetches \ {t} /\ parses' \subseteq parses
  BY DEF Storing
<1>5. \A b \in Advert : b # a => attached'[b] = attached[b] /\ fetched'[b] = fetched[b]
  BY <1>1 DEF IInv, TypeOK
<1> HIDE DEF a, e, k
<1>6. AttachedIsFetched'
  BY <1>1, <1>2, <1>4, <1>5 DEF IInv, AttachedIsFetched
<1>7. FetchedIsPast'
  BY <1>1, <1>4, <1>5 DEF IInv, FetchedIsPast
<1>8. OneFetchStores'
  <2>1. \A u \in fetches' : u.aborted
    BY <1>4 DEF Storing, IInv, OneFetchStores
  <2>2. QED  BY <2>1 DEF OneFetchStores
<1>9. RowsAreOfThePast'
  <2> SUFFICES ASSUME NEW j \in Capture, parse'[j] # "none" PROVE j[2] <= fetched'[j[1]]
    BY DEF RowsAreOfThePast
  <2>1. CASE j = k  BY <1>1, <1>2, <2>1
  <2>2. CASE j # k
    <3>1. parse[j] # "none"  BY <1>3, <2>2 DEF Open
    <3>2. j[2] <= fetched[j[1]]  BY <3>1 DEF IInv, RowsAreOfThePast
    <3>3. j[2] \in Int /\ e \in Int  BY <1>1, <1>3, Numbers
    <3>4. QED  BY <1>1, <1>3, <1>5, <3>2, <3>3
  <2>3. QED  BY <2>1, <2>2
<1>10. OneOpenCapture'
  BY <1>1, <1>2, <1>3, <1>5 DEF IInv, OneOpenCapture, Open
<1>11. CurrentIsWritten'
  <2> SUFFICES ASSUME NEW b \in Advert, Fresh(b)' PROVE Accounted(b)'
    BY DEF CurrentIsWritten
  <2>1. CASE b # a
    <3>1. attached'[b] = attached[b] /\ fetched'[b] = fetched[b]  BY <1>5, <2>1
    <3>2. Fresh(b)  BY <3>1 DEF Fresh
    <3>3. Accounted(b)  BY <3>2 DEF IInv, CurrentIsWritten
    <3>4. <<b, attached[b]>> \in Capture
      <4>1. attached[b] # None /\ attached[b] \in {page[f] : f \in Edit} \cup {None}
        BY <3>2 DEF Fresh, IInv, TypeOK
      <4>2. attached[b] \in Edit  BY <4>1, Contents DEF IInv
      <4>3. QED  BY <4>2 DEF Capture
    <3>5. parse'[<<b, attached[b]>>] = parse[<<b, attached[b]>>]
      BY <1>3, <2>1, <3>4
    <3>6. QED  BY <1>4, <3>1, <3>3, <3>5 DEF Accounted
  <2>2. CASE b = a
    <3>1. page[e] = e  BY <1>1, <1>2, <2>2 DEF Fresh
    <3>2. k = <<a, e>> /\ attached'[a] = e  BY <1>1, <1>2, <3>1 DEF k
    <3>3. CASE parse[k] = "none"
      BY <1>1, <2>2, <3>2, <3>3 DEF Accounted, Open
    <3>4. CASE parse[k] # "none"
      <4>1. attached[a] = e /\ fetched[a] = e  BY <1>1, <3>1, <3>4
      <4>2. Accounted(a)  BY <1>1, <1>2, <4>1 DEF Fresh, IInv, CurrentIsWritten
      <4>3. QED  BY <1>1, <1>4, <2>2, <3>2, <3>4, <4>1, <4>2 DEF Accounted
    <3>5. QED  BY <3>3, <3>4
  <2>3. QED  BY <2>1, <2>2
<1>12. OneParseWrites'
  <2>1. \A j \in Capture : parse[j] \in {"processing", "cancelled"}
           => parse'[j] \in {"processing", "cancelled"}
    BY <1>1, <1>2, <1>3
  <2>2. QED  BY <1>4, <2>1, Handlers DEF IInv, OneParseWrites
<1>13. StagesAreTrue' /\ AnswersAreSaved' /\ ExtractedOnce'
  BY <1>4 DEF IInv, StagesAreTrue, AnswersAreSaved, ExtractedOnce
<1>14. QED
  BY <1>6, <1>7, <1>8, <1>9, <1>10, <1>11, <1>12, <1>13 DEF IInv
-----------------------------------------------------------------------------
(* What the parser does to the invariant. *)

(* One row is handled; it is not created, and opened only if it was open.   *)
RowMoves(k) ==
    /\ \A j \in Capture : j # k => parse'[j] = parse[j]
    /\ parse'[k] \in Open => parse[k] \in Open
    /\ parse'[k] # "none" => parse[k] # "none"

LEMMA SourcesStand ==
    ASSUME IInv, UNCHANGED <<page, edits, detailVars>>,
           NEW k \in Capture, RowMoves(k)
    PROVE  /\ AttachedIsFetched' /\ FetchedIsPast' /\ OneFetchStores'
           /\ RowsAreOfThePast' /\ OneOpenCapture'
<1>1. AttachedIsFetched' /\ FetchedIsPast' /\ OneFetchStores'
  BY DEF IInv, AttachedIsFetched, FetchedIsPast, OneFetchStores, detailVars
<1>2. RowsAreOfThePast' /\ OneOpenCapture'
  BY DEF IInv, RowsAreOfThePast, OneOpenCapture, detailVars, RowMoves
<1>3. QED  BY <1>1, <1>2

(* Fresh content stays accounted for when the row of its capture stays as   *)
(* it is, is open or given up, or is done with the listing written.         *)
LEMMA StaysAccounted ==
    ASSUME IInv, UNCHANGED <<page, edits, detailVars>>, NEW k \in Capture,
           \A j \in Capture : j # k => parse'[j] = parse[j],
           \A b \in Advert : canonical'[b] # canonical[b] => canonical'[b] = attached[b],
           attached[k[1]] = k[2] => \/ parse'[k] \in Open \cup {"dead"} \cup {parse[k]}
                                    \/ parse'[k] = "done" /\ canonical'[k[1]] = k[2]
    PROVE  CurrentIsWritten'
<1> SUFFICES ASSUME NEW b \in Advert, Fresh(b)' PROVE Accounted(b)'
  BY DEF CurrentIsWritten
<1>1. attached' = attached /\ fetched' = fetched  BY DEF detailVars
<1>2. Fresh(b)  BY <1>1 DEF Fresh
<1>3. Accounted(b)  BY <1>2 DEF IInv, CurrentIsWritten
<1> DEFINE j == <<b, attached[b]>>
<1>4. j \in Capture
  <2>1. attached[b] # None /\ attached[b] \in {page[f] : f \in Edit} \cup {None}
    BY <1>2 DEF Fresh, IInv, TypeOK
  <2>2. attached[b] \in Edit  BY <2>1, Contents DEF IInv
  <2>3. QED  BY <2>2 DEF Capture
<1>5. canonical[b] = attached[b] => canonical'[b] = attached[b]  OBVIOUS
<1>6. CASE parse'[j] = parse[j]  BY <1>1, <1>3, <1>5, <1>6 DEF Accounted
<1>7. CASE parse'[j] # parse[j]
  <2>1. k = j /\ k[1] = b /\ k[2] = attached[b]  BY <1>4, <1>7
  <2>2. \/ parse'[j] \in Open \cup {"dead"}
        \/ parse'[j] = "done" /\ canonical'[b] = attached[b]
    BY <1>7, <2>1
  <2>3. QED  BY <1>1, <2>2 DEF Accounted
<1>8. QED  BY <1>6, <1>7

(* A handler ends or overruns: nobody is left who may write.                *)
Ends(t) ==
    \/ Returns(t)
    \/ /\ t.stage \notin {"started", "written"}
       /\ parses' = (parses \ {t}) \cup {[t EXCEPT !.aborted = TRUE]}

LEMMA NobodyWrites ==
    ASSUME IInv, NEW t \in parses, ~t.aborted, Ends(t)
    PROVE  OneParseWrites' /\ StagesAreTrue'
<1> DEFINE u == [t EXCEPT !.aborted = TRUE]
<1>1. u.aborted /\ u.stage = t.stage  BY DEF IInv, TypeOK, Parse
<1>2. \A v \in parses : v # t => v.aborted  BY DEF IInv, OneParseWrites
<1>3. \A v \in parses' : \/ v \in parses /\ v # t
                         \/ v = u /\ t.stage \notin {"started", "written"}
  BY DEF Ends, Returns
<1> HIDE DEF u
<1>4. \A v \in parses' : v.aborted /\ v.stage \notin {"started", "written"}
  BY <1>1, <1>2, <1>3 DEF IInv, StagesAreTrue
<1>5. QED  BY <1>4 DEF OneParseWrites, StagesAreTrue

(* A handler goes on, past an await or a write.                             *)
LEMMA OneGoesOn ==
    ASSUME IInv, NEW t \in parses, ~t.aborted, UNCHANGED parse,
           NEW s \in {"extracting", "geocoding", "written"}, Goes(t, s),
           s = "written" => canonical'[t.capture[1]] = t.capture[2],
           s = "extracting" => \A j \in extracted' : Text(j) # Text(t.capture)
    PROVE  OneParseWrites' /\ StagesAreTrue'
<1> DEFINE u == [t EXCEPT !.stage = s]
<1>1. u.aborted = FALSE /\ u.stage = s /\ u.capture = t.capture
  BY DEF IInv, TypeOK, Parse
<1>2. \A v \in parses : v # t => v.aborted /\ v.stage \notin {"started", "written"}
  BY DEF IInv, OneParseWrites, StagesAreTrue
<1>3. \A v \in parses' : \/ v.aborted /\ v.stage \notin {"started", "written"}
                         \/ v = u
  BY <1>2 DEF Goes
<1>4. parse[t.capture] \in {"processing", "cancelled"}  BY DEF IInv, OneParseWrites
<1> HIDE DEF u
<1>5. OneParseWrites'  BY <1>1, <1>3, <1>4 DEF OneParseWrites
<1>6. StagesAreTrue'  BY <1>1, <1>3 DEF StagesAreTrue
<1>7. QED  BY <1>5, <1>6

(* The row of a handler that may still write is its own or superseded.      *)
LEMMA OwnRow ==
    ASSUME IInv, NEW t \in parses, ~t.aborted
    PROVE  t.capture \in Capture /\ parse[t.capture] \in {"processing", "cancelled"}
BY Handlers DEF IInv, OneParseWrites

(* The three ways in which a handler leaves its row: given up as no longer  *)
(* current, requeued after an error, or completed with the listing written. *)
RowEnds(t) ==
    LET k == t.capture
    IN  \/ EndParse(k, "cancelled") /\ ~Current(k)
        \/ Requeue(k)
        \/ EndParse(k, "done") /\ t.stage = "written"

LEMMA EndsInOrder ==
    ASSUME IInv, UNCHANGED <<page, edits, detailVars, canonical>>,
           NEW t \in parses, ~t.aborted, RowEnds(t), Ends(t)
    PROVE  /\ RowMoves(t.capture) /\ CurrentIsWritten'
           /\ OneParseWrites' /\ StagesAreTrue'
<1> DEFINE k == t.capture
<1>1. k \in Capture /\ parse[k] \in {"processing", "cancelled"}  BY OwnRow
<1>2. \A j \in Capture : j # k => parse'[j] = parse[j]
  BY DEF RowEnds, EndParse, Requeue, IInv, TypeOK
<1>3. \/ parse'[k] = parse[k]
      \/ parse'[k] = "cancelled" /\ ~Current(k) /\ parse[k] = "processing"
      \/ parse'[k] \in {"waiting", "dead"} /\ parse[k] \in Open
      \/ parse'[k] = "done" /\ t.stage = "written"
  BY <1>1 DEF RowEnds, EndParse, Requeue, IInv, TypeOK
<1>4. t.stage = "written" => canonical[k[1]] = k[2]  BY DEF IInv, StagesAreTrue
<1> HIDE DEF k
<1>5. RowMoves(k)
  <2>1. parse[k] # "none"  BY <1>1
  <2>2. parse'[k] \in Open => parse[k] \in Open  BY <1>3 DEF Open
  <2>3. QED  BY <1>2, <2>1, <2>2 DEF RowMoves
<1>6. attached[k[1]] = k[2] => \/ parse'[k] \in Open \cup {"dead"} \cup {parse[k]}
                               \/ parse'[k] = "done" /\ canonical'[k[1]] = k[2]
  BY <1>3, <1>4 DEF Open, Current
<1>7. CurrentIsWritten'
  BY <1>1, <1>2, <1>6, StaysAccounted
<1>8. OneParseWrites' /\ StagesAreTrue'  BY NobodyWrites
<1>9. QED  BY <1>5, <1>7, <1>8 DEF k

(* What is known of the texts, when no answer is saved.                     *)
LEMMA TextsStand ==
    ASSUME IInv, UNCHANGED answers, extracted \subseteq extracted'
    PROVE  AnswersAreSaved' /\ ExtractedOnce'
BY DEF IInv, AnswersAreSaved, ExtractedOnce

(* An answer is saved for a text that has none.                             *)
LEMMA AnswerIsTheFirst ==
    ASSUME IInv, NEW t \in parses, ModelAnswers(t)
    PROVE  AnswersAreSaved' /\ ExtractedOnce'
<1> DEFINE k == t.capture
<1>1. k \in Capture  BY Handlers DEF IInv
<1>2. /\ extracted' = extracted \cup {k}
      /\ answers' = [answers EXCEPT ![k] = @ + 1]
      /\ answers \in [Capture -> Nat]
  BY DEF ModelAnswers, IInv, TypeOK
<1>3. \A j \in extracted : Text(j) # Text(k)
  BY DEF ModelAnswers, IInv, StagesAreTrue
<1> HIDE DEF k
<1>4. \A j \in Capture : Text(j) = Text(k) => answers[j] = 0
  <2>1. \A j \in Capture : answers[j] \in Nat /\ (answers[j] > 0 => j \in extracted)
    BY <1>2 DEF IInv, AnswersAreSaved
  <2>2. QED  BY <1>3, <2>1
<1>5. answers'[k] = 1 /\ \A j \in Capture : j # k => answers'[j] = answers[j]
  BY <1>1, <1>2, <1>4
<1>6. AnswersAreSaved'  BY <1>1, <1>2, <1>5 DEF IInv, AnswersAreSaved
<1>7. ExtractedOnce'
  <2> SUFFICES ASSUME NEW i \in Capture, NEW j \in Capture
               PROVE  IF i = j THEN answers'[j] <= 1
                      ELSE Text(i) = Text(j) => answers'[i] + answers'[j] <= 1
    BY DEF ExtractedOnce
  <2>1. CASE i # k /\ j # k  BY <1>5, <2>1 DEF IInv, ExtractedOnce
  <2>2. CASE i = k /\ j = k  BY <1>5, <2>2
  <2>3. CASE i = k /\ j # k  BY <1>4, <1>5, <2>3
  <2>4. CASE i # k /\ j = k  BY <1>4, <1>5, <2>4
  <2>5. QED  BY <2>1, <2>2, <2>3, <2>4
<1>8. QED  BY <1>6, <1>7

LEMMA ParserEndsKeep ==
    ASSUME IInv, TypeOK', NEW t \in parses,
           UNCHANGED <<page, edits, detailVars, canonical>>,
           ~t.aborted, RowEnds(t), Ends(t),
           AnswersAreSaved' /\ ExtractedOnce'
    PROVE  IInv'
<1>1. t.capture \in Capture  BY OwnRow
<1>2. /\ RowMoves(t.capture) /\ CurrentIsWritten'
      /\ OneParseWrites' /\ StagesAreTrue'
  BY EndsInOrder
<1>3. /\ AttachedIsFetched' /\ FetchedIsPast' /\ OneFetchStores'
      /\ RowsAreOfThePast' /\ OneOpenCapture'
  BY <1>1, <1>2, SourcesStand
<1>4. QED  BY <1>2, <1>3 DEF IInv

LEMMA ParserGoesOnKeeps ==
    ASSUME IInv, TypeOK', NEW t \in parses,
           UNCHANGED <<page, edits, detailVars, parse>>, ~t.aborted,
           NEW s \in {"extracting", "geocoding", "written"}, Goes(t, s),
           IF s = "written"
           THEN /\ attached[t.capture[1]] = t.capture[2]
                /\ canonical' = [canonical EXCEPT ![t.capture[1]] = t.capture[2]]
           ELSE canonical' = canonical,
           s = "extracting" => \A j \in extracted' : Text(j) # Text(t.capture),
           AnswersAreSaved' /\ ExtractedOnce'
    PROVE  IInv'
<1>1. /\ t.capture \in Capture /\ t.capture[1] \in Advert
      /\ parse[t.capture] \in {"processing", "cancelled"}
  BY OwnRow, Handlers DEF IInv
<1>2. /\ \A b \in Advert : canonical'[b] # canonical[b] => canonical'[b] = attached[b]
      /\ s = "written" => canonical'[t.capture[1]] = t.capture[2]
  BY <1>1 DEF IInv, TypeOK
<1>3. OneParseWrites' /\ StagesAreTrue'  BY <1>2, OneGoesOn
<1>4. RowMoves(t.capture)  BY DEF RowMoves
<1>5. CurrentIsWritten'  BY <1>1, <1>2, StaysAccounted
<1>6. /\ AttachedIsFetched' /\ FetchedIsPast' /\ OneFetchStores'
      /\ RowsAreOfThePast' /\ OneOpenCapture'
  BY <1>1, <1>4, SourcesStand
<1>7. QED  BY <1>3, <1>5, <1>6 DEF IInv

LEMMA ParserKeeps ==
    ASSUME IInv, TypeOK'
    PROVE  /\ \A k \in Capture : ParserClaims(k) => IInv'
           /\ \A t \in parses : ParserStep(t) \/ ParserFails(t) => IInv'
<1>1. ASSUME NEW k \in Capture, ParserClaims(k) PROVE IInv'
  <2> DEFINE u == [capture |-> k, stage |-> "started", aborted |-> FALSE]
  <2>1. u.capture = k /\ u.stage = "started" /\ u.aborted = FALSE  OBVIOUS
  <2>2. parses' = parses \cup {u} /\ \A t \in parses : t.aborted
    BY <1>1 DEF ParserClaims
  <2>3. /\ parse[k] \in Open /\ parse'[k] = "processing"
        /\ \A j \in Capture : j # k => parse'[j] = parse[j]
    BY <1>1 DEF ParserClaims, Claimable, IInv, TypeOK
  <2> HIDE DEF u
  <2>4. OneParseWrites'  BY <2>1, <2>2, <2>3 DEF OneParseWrites
  <2>5. StagesAreTrue'
    BY <1>1, <2>1, <2>2 DEF ParserClaims, IInv, StagesAreTrue
  <2>6. UNCHANGED <<page, edits, detailVars, canonical, answers, extracted>>
    BY <1>1 DEF ParserClaims
  <2>7. RowMoves(k)  BY <2>3 DEF RowMoves, Open
  <2>8. CurrentIsWritten'
    <3>1. parse'[k] \in Open  BY <2>3 DEF Open
    <3>2. QED  BY <2>3, <2>6, <3>1, StaysAccounted
  <2>9. /\ AttachedIsFetched' /\ FetchedIsPast' /\ OneFetchStores'
        /\ RowsAreOfThePast' /\ OneOpenCapture'
    BY <2>6, <2>7, SourcesStand
  <2>10. AnswersAreSaved' /\ ExtractedOnce'  BY <2>6, TextsStand
  <2>11. QED  BY <2>4, <2>5, <2>8, <2>9, <2>10 DEF IInv
<1>2. ASSUME NEW t \in parses, t.stage = "started" PROVE ~t.aborted
  BY <1>2 DEF IInv, StagesAreTrue
<1>3. ASSUME NEW t \in parses, ResumesExtracted(t) PROVE IInv'
  <2>1. UNCHANGED <<page, edits, detailVars, canonical, answers, extracted>> /\ ~t.aborted
    BY <1>2, <1>3 DEF ResumesExtracted
  <2>2. AnswersAreSaved' /\ ExtractedOnce'  BY <2>1, TextsStand
  <2>3. CASE Goes(t, "geocoding") /\ UNCHANGED parse
    BY <2>1, <2>2, <2>3, ParserGoesOnKeeps
  <2>4. CASE ~Current(t.capture) /\ EndParse(t.capture, "cancelled") /\ Returns(t)
    BY <2>1, <2>2, <2>4, ParserEndsKeep DEF RowEnds, Ends
  <2>5. QED  BY <1>3, <2>3, <2>4 DEF ResumesExtracted, BeginFinalize
<1>4. ASSUME NEW t \in parses, FindsStale(t) \/ FindsSuperseded(t) PROVE IInv'
  <2>1. /\ UNCHANGED <<page, edits, detailVars, canonical, answers, extracted>>
        /\ ~t.aborted /\ ~Current(t.capture)
        /\ EndParse(t.capture, "cancelled") /\ Returns(t)
    BY <1>2, <1>4 DEF FindsStale, FindsSuperseded, Fenced
  <2>2. AnswersAreSaved' /\ ExtractedOnce'  BY <2>1, TextsStand
  <2>3. QED  BY <2>1, <2>2, ParserEndsKeep DEF RowEnds, Ends
<1>5. ASSUME NEW t \in parses, Reuses(t) PROVE IInv'
  <2>1. /\ UNCHANGED <<page, edits, detailVars, canonical, answers>>
        /\ ~t.aborted /\ Requeue(t.capture) /\ Returns(t)
        /\ extracted \subseteq extracted'
    BY <1>2, <1>5 DEF Reuses
  <2>2. AnswersAreSaved' /\ ExtractedOnce'  BY <2>1, TextsStand
  <2>3. QED  BY <2>1, <2>2, ParserEndsKeep DEF RowEnds, Ends
<1>6. ASSUME NEW t \in parses, AsksModel(t) PROVE IInv'
  <2>1. /\ UNCHANGED <<page, edits, detailVars, parse, canonical, answers, extracted>>
        /\ ~t.aborted /\ Goes(t, "extracting")
    BY <1>2, <1>6 DEF AsksModel
  <2>2. \A j \in extracted' : Text(j) # Text(t.capture)
    BY <1>6, <2>1 DEF AsksModel, Reusable
  <2>3. AnswersAreSaved' /\ ExtractedOnce'  BY <2>1, TextsStand
  <2>4. QED  BY <2>1, <2>2, <2>3, ParserGoesOnKeeps
<1>7. ASSUME NEW t \in parses, ModelAnswers(t) PROVE IInv'
  <2>1. UNCHANGED <<page, edits, detailVars, canonical>> /\ ~t.aborted
    BY <1>7 DEF ModelAnswers
  <2>2. AnswersAreSaved' /\ ExtractedOnce'  BY <1>7, AnswerIsTheFirst
  <2>3. CASE Goes(t, "geocoding") /\ UNCHANGED parse
    BY <2>1, <2>2, <2>3, ParserGoesOnKeeps
  <2>4. CASE ~Current(t.capture) /\ EndParse(t.capture, "cancelled") /\ Returns(t)
    BY <2>1, <2>2, <2>4, ParserEndsKeep DEF RowEnds, Ends
  <2>5. QED  BY <1>7, <2>3, <2>4 DEF ModelAnswers, BeginFinalize
<1>8. ASSUME NEW t \in parses, WritesListing(t) PROVE IInv'
  <2>1. /\ UNCHANGED <<page, edits, detailVars, parse, answers, extracted>>
        /\ ~t.aborted /\ Goes(t, "written")
        /\ attached[t.capture[1]] = t.capture[2]
        /\ canonical' = [canonical EXCEPT ![t.capture[1]] = t.capture[2]]
    BY <1>8 DEF WritesListing, Fenced, Current
  <2>2. AnswersAreSaved' /\ ExtractedOnce'  BY <2>1, TextsStand
  <2>3. QED  BY <2>1, <2>2, ParserGoesOnKeeps
<1>9. ASSUME NEW t \in parses, CompletesParse(t) PROVE IInv'
  <2>1. /\ UNCHANGED <<page, edits, detailVars, canonical, answers, extracted>>
        /\ EndParse(t.capture, "done") /\ t.stage = "written" /\ Returns(t)
    BY <1>9 DEF CompletesParse
  <2>2. ~t.aborted  BY <2>1 DEF IInv, StagesAreTrue
  <2>3. AnswersAreSaved' /\ ExtractedOnce'  BY <2>1, TextsStand
  <2>4. QED  BY <2>1, <2>2, <2>3, ParserEndsKeep DEF RowEnds, Ends
<1>10. ASSUME NEW t \in parses, ParserFails(t) PROVE IInv'
  <2>1. /\ UNCHANGED <<page, edits, detailVars, canonical, answers, extracted>>
        /\ ~t.aborted /\ Requeue(t.capture) /\ Ends(t)
    BY <1>10 DEF ParserFails, Ends
  <2>2. AnswersAreSaved' /\ ExtractedOnce'  BY <2>1, TextsStand
  <2>3. QED  BY <2>1, <2>2, ParserEndsKeep DEF RowEnds
<1>11. ASSUME NEW t \in parses, ParserNoticesAbort(t) PROVE IInv'
  <2>1. /\ UNCHANGED <<page, edits, detailVars, parse, canonical, answers, extracted>>
        /\ parses' = parses \ {t}
    BY <1>11 DEF ParserNoticesAbort, Returns
  <2>2. QED
    BY <2>1 DEF IInv, AttachedIsFetched, FetchedIsPast, OneFetchStores, RowsAreOfThePast,
       OneParseWrites, StagesAreTrue, AnswersAreSaved, OneOpenCapture, CurrentIsWritten,
       Fresh, Accounted, ExtractedOnce, detailVars
<1>12. QED
  BY <1>1, <1>3, <1>4, <1>5, <1>6, <1>7, <1>8, <1>9, <1>10, <1>11 DEF ParserStep

-----------------------------------------------------------------------------
(* The whole. *)

LEMMA IInvInit == Init => IInv
<1> SUFFICES ASSUME Init PROVE IInv
  OBVIOUS
<1>1. TypeOK  BY TypeInit
<1>2. AttachedIsFetched /\ FetchedIsPast /\ OneFetchStores
  BY DEF Init, AttachedIsFetched, FetchedIsPast, OneFetchStores, None
<1>3. RowsAreOfThePast /\ OneParseWrites /\ StagesAreTrue /\ OneOpenCapture
  BY DEF Init, RowsAreOfThePast, OneParseWrites, StagesAreTrue, OneOpenCapture, Open
<1>4. CurrentIsWritten  BY DEF Init, CurrentIsWritten, Fresh
<1>5. AnswersAreSaved /\ ExtractedOnce  BY DEF Init, AnswersAreSaved, ExtractedOnce
<1>6. QED  BY <1>1, <1>2, <1>3, <1>4, <1>5 DEF IInv

LEMMA IInvStep == IInv /\ [Next]_vars => IInv'
<1> SUFFICES ASSUME IInv, [Next]_vars PROVE IInv'
  OBVIOUS
<1>1. TypeOK'  BY TypeStep DEF IInv
<1>2. ASSUME UNCHANGED <<page, edits, attached, fetched, parse, extracted, answers, canonical>>,
             fetches' \in {fetches, {}}, parses' \in {parses, {}}
      PROVE  IInv'
  BY <1>1, <1>2 DEF IInv, AttachedIsFetched, FetchedIsPast, OneFetchStores,
     RowsAreOfThePast, OneParseWrites, StagesAreTrue, AnswersAreSaved, OneOpenCapture,
     CurrentIsWritten, Fresh, Accounted, ExtractedOnce
<1>3. CASE Crash \/ UNCHANGED vars
  BY <1>2, <1>3 DEF Crash, vars, detailVars, parserVars
<1>4. ASSUME NEW t \in fetches, DetailStep(t) \/ DiesStoring(t) \/ FindsInactive(t)
                                \/ DetailFails(t)
      PROVE  IInv'
  <2>1. CASE Stores(t) \/ DiesStoring(t)
    <3>1. Storing(t)  BY <2>1, StoringSteps
    <3>2. QED  BY <1>1, <3>1, StoringKeeps
  <2>2. CASE \/ ReadsPage(t) \/ DetailNoticesAbort(t)
             \/ FindsInactive(t) \/ DetailFails(t)
    BY <1>1, <2>2, DetailLeavesRows
  <2>3. QED  BY <1>4, <2>1, <2>2 DEF DetailStep
<1>5. ASSUME NEW a \in Advert, EditAdvert(a) \/ Discover(a) \/ DetailClaims(a) PROVE IInv'
  BY <1>1, <1>5, DetailLeavesRows
<1>6. ASSUME NEW k \in Capture, ParserClaims(k) PROVE IInv'
  BY <1>1, <1>6, ParserKeeps
<1>7. ASSUME NEW t \in parses, ParserStep(t) \/ ParserFails(t) PROVE IInv'
  BY <1>1, <1>7, ParserKeeps
<1>8. QED  BY <1>3, <1>4, <1>5, <1>6, <1>7 DEF Next

LEMMA Invariant == Spec => []IInv
BY IInvInit, IInvStep, PTL DEF Spec

(* The rows of an advert agree with its source and its listing: only the    *)
(* capture a source points to is open, and content the page had not had     *)
(* before is being worked on, was given up after its retries, or is what    *)
(* the listing shows.                                                       *)
THEOREM CaptureStaysConsistent == Spec => []CaptureConsistent
<1>1. IInv => CaptureConsistent  BY DEF IInv, CaptureConsistent
<1>2. QED  BY <1>1, Invariant, PTL

(* No two answers of the model are kept for one text, whatever is retried,  *)
(* reclaimed or shared between adverts.                                     *)
THEOREM TextsAreExtractedOnce == Spec => []ExtractedOnce
<1>1. IInv => ExtractedOnce  BY DEF IInv
<1>2. QED  BY <1>1, Invariant, PTL

(* A step that writes a listing writes what its source points to; a step    *)
(* that stores a capture stores one that was not fetched earlier.           *)
LEMMA FencedStep ==
    ASSUME IInv, [Next]_vars, NEW b \in Advert
    PROVE  /\ canonical'[b] # canonical[b] => canonical'[b] = attached[b]
           /\ fetched'[b] >= fetched[b]
<1>1. fetched[b] \in Int  BY Numbers DEF IInv, TypeOK
<1>2. ASSUME NEW t \in fetches, Stores(t) \/ DiesStoring(t)
      PROVE  fetched'[b] >= fetched[b] /\ canonical' = canonical
  <2>1. Storing(t)  BY <1>2, StoringSteps
  <2>2. /\ fetched' = [fetched EXCEPT ![t.advert] = t.saw]
        /\ fetched[t.advert] <= t.saw
    <3> DEFINE a == t.advert
               e == t.saw
               k == <<a, page[e]>>
    <3> HIDE DEF a, e, k
    <3>1. a = t.advert /\ e = t.saw /\ k = <<a, page[e]>>  BY DEF a, e, k
    <3>2. fetched[a] <= e /\ fetched' = [fetched EXCEPT ![a] = e]
      BY <2>1, <3>1, StoringMovesOn
    <3>3. QED  BY <3>1, <3>2
  <2>3. fetched'[b] \in {fetched[b], t.saw} /\ (fetched'[b] # fetched[b] => b = t.advert)
    BY <2>2 DEF IInv, TypeOK
  <2>4. QED  BY <1>1, <2>1, <2>2, <2>3 DEF Storing
<1>3. ASSUME NEW t \in parses, WritesListing(t)
      PROVE  /\ canonical'[b] # canonical[b] => canonical'[b] = attached[b]
             /\ fetched' = fetched
  BY <1>3, Handlers DEF WritesListing, Fenced, Current, IInv, TypeOK, detailVars
<1>4. CASE UNCHANGED <<canonical, fetched>>  BY <1>1, <1>4
<1>5. CASE \E t \in parses : ParserStep(t) \/ ParserFails(t)
  <2>1. PICK t \in parses : ParserStep(t) \/ ParserFails(t)  BY <1>5
  <2>2. CASE WritesListing(t)  BY <1>1, <1>3, <2>2
  <2>3. CASE ~WritesListing(t)
    BY <1>4, <2>1, <2>3 DEF ParserStep, ParserFails, ResumesExtracted, FindsStale, Reuses,
       AsksModel, ModelAnswers, FindsSuperseded, CompletesParse, ParserNoticesAbort, detailVars
  <2>4. QED  BY <2>2, <2>3
<1>6. CASE \E t \in fetches : DetailStep(t) \/ DiesStoring(t) \/ FindsInactive(t)
                              \/ DetailFails(t)
  <2>1. PICK t \in fetches : DetailStep(t) \/ DiesStoring(t) \/ FindsInactive(t)
                             \/ DetailFails(t)
    BY <1>6
  <2>2. CASE Stores(t) \/ DiesStoring(t)  BY <1>2, <2>2
  <2>3. CASE ~(Stores(t) \/ DiesStoring(t))
    BY <1>4, <2>1, <2>3 DEF DetailStep, ReadsPage, DetailNoticesAbort, FindsInactive,
       DetailFails, parserVars
  <2>4. QED  BY <2>2, <2>3
<1>7. CASE \/ \E a \in Advert : EditAdvert(a) \/ Discover(a) \/ DetailClaims(a)
           \/ \E k \in Capture : ParserClaims(k)
           \/ Crash \/ UNCHANGED vars
  BY <1>4, <1>7 DEF EditAdvert, Discover, DetailClaims, ParserClaims, Crash, vars,
     detailVars, parserVars
<1>8. QED  BY <1>5, <1>6, <1>7 DEF Next

(* Work that was superseded, or overran its deadline and goes on, does no   *)
(* harm: a listing is only ever given what its source points to at that     *)
(* moment, and a source never goes back to an earlier state of its page.    *)
THEOREM LateWorkStaysFenced == Spec => LateWorkIsFenced
<1> DEFINE Fence == \A a \in Advert :
              /\ canonical'[a] # canonical[a] => canonical'[a] = attached[a]
              /\ fetched'[a] >= fetched[a]
<1>1. IInv /\ [Next]_vars => [Fence]_vars
  BY FencedStep
<1>2. QED  BY <1>1, Invariant, PTL DEF Spec, LateWorkIsFenced
=============================================================================
