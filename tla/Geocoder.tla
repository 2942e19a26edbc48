------------------------------- MODULE Geocoder -------------------------------
(***************************************************************************)
(* Locating an address (lib/services/geocoding): the cache, the pause after *)
(* an error, and the list of candidates that Google is asked one after the  *)
(* other, with the place reached in it kept in the database.                *)
(*                                                                         *)
(* The parser locates one address at a time.  Cut off by its deadline, by   *)
(* an outage or by a crash, an attempt leaves its progress to the next one  *)
(* for the same cache key, which may be for an advert that spells the       *)
(* address differently and so has another list.  An address is what the     *)
(* code tells apart in it; results are described relative to the address.   *)
(***************************************************************************)
EXTENDS Integers, Sequences, SequencesExt, FiniteSets

CONSTANTS
    Address,   \* the addresses adverts give, see AddressAssumption
    Results,   \* the results Google gives, see ResultAssumption
    None       \* no attempt, no row, no result

Texts == {"as given", "with city", "postcode", "street"}
Postcodes == {"none", "real", "placeholder"}

(* key: addressKey, the text without case and spacing and the market;       *)
(* spelling: what the key forgets of the text; street, postcode: parsed out *)
(* of it; bare: the street is all of it; full: it is already spelled as     *)
(* street, postcode and city; city: the search has a city.                  *)
ASSUME AddressAssumption ==
    \A a \in Address :
        /\ {"key", "spelling", "street", "postcode", "bare", "full", "city"} = DOMAIN a
        /\ {a.street, a.bare, a.full, a.city} \subseteq BOOLEAN
        /\ a.postcode \in Postcodes
        /\ a.bare => a.street /\ a.postcode = "none"
        /\ a.full => a.street /\ a.postcode # "none" /\ a.city
        /\ \A b \in Address : b.key = a.key => [b EXCEPT !.spelling = a.spelling] = a

VARIABLES
    cache,      \* homeserver_geocode_cache
    progress,   \* geocode_progress
    paused,     \* geocode_paused_until lies ahead
    attempt,    \* the address being located and the candidate asked for
    refused     \* history: the candidates answered in vain since the key's last result

gvars == <<cache, progress, paused, attempt, refused>>

Key == {a.key : a \in Address}
Spelling == {a.spelling : a \in Address}

(* A result of Google's, seen from the address: whether it lies in Germany, *)
(* whether its postcode is the address's, another, missing or only in its   *)
(* formatted text, whether its route is the street, another or missing, and *)
(* whether it names the city.                                               *)
Result == [germany : BOOLEAN, postcode : {"same", "other", "none", "mentioned"},
           route : {"street", "other", "none"}, city : BOOLEAN,
           type : {"ROOFTOP", "RANGE_INTERPOLATED", "GEOMETRIC_CENTER", "APPROXIMATE"}]

ASSUME ResultAssumption == Results \subseteq Result

Accuracy == {"house", "street", "postcode", "district"}
Coarse == {"postcode", "district"}

Facts == {"germany", "postcode", "street", "city"}

(* of: which of the facts about the address the row's coordinates share. *)
Row == [status : {"ok"}, fresh : BOOLEAN, accuracy : Accuracy, of : SUBSET Facts]
       \cup [status : {"failed"}, fresh : BOOLEAN]

Failed == [status |-> "failed", fresh |-> TRUE]
-----------------------------------------------------------------------------
(* Mutants: plausible slips in the code below. *)

(* Every attempt begins with the first candidate. *)
StartOver(a) == 1

(* The progress of another spelling's list counts. *)
StartAnywhere(a) == IF progress[a.key] # None THEN progress[a.key].next ELSE 1

(* A missing postcode fits. *)
PostcodeFitsMissing(r, c, a) == r.postcode # "other"

-----------------------------------------------------------------------------
(* buildCandidates: the address as given, then less and less of it, then,   *)
(* for the postcodes that portals put in for none, without the postcode.    *)
Candidate(kind, text, postcode, requireCity, anyPostcode) ==
    [kind |-> kind, text |-> text, postcode |-> postcode,
     requireCity |-> requireCity, anyPostcode |-> anyPostcode]

AllCandidates(a) ==
    LET coded == a.postcode # "none"
    IN <<Candidate(IF a.street THEN "street" ELSE "freeform",
                   IF a.bare /\ a.city THEN "with city" ELSE "as given",
                   coded, a.bare /\ a.city, FALSE)>>
       \o (IF a.city /\ a.street /\ coded
           THEN <<Candidate("street", IF a.full THEN "as given" ELSE "with city",
                            TRUE, FALSE, FALSE)>> ELSE <<>>)
       \o (IF a.city /\ coded
           THEN <<Candidate("postcode", "postcode", TRUE, FALSE, FALSE)>> ELSE <<>>)
       \o (IF a.city /\ a.street /\ a.postcode = "placeholder"
           THEN <<Candidate("street_postcode_mismatch", "street", FALSE, TRUE, TRUE)>>
           ELSE <<>>)

SameRequest(c, d) == c.kind = d.kind /\ c.text = d.text /\ c.postcode = d.postcode

(* dedupeCandidates keeps the first of each; only the second can be one     *)
(* again, the address with the city that it already names.                  *)
Candidates(a) ==
    LET all == AllCandidates(a)
    IN IF Len(all) > 1 /\ SameRequest(all[1], all[2]) THEN RemoveAt(all, 2) ELSE all

(* acceptResult *)
PostcodeFits(r, c, a) ==
    \/ c.anyPostcode \/ a.postcode = "none"
    \/ r.postcode \in {"same", "mentioned"}

Accepts(r, c, a) ==
    /\ r.germany
    /\ PostcodeFits(r, c, a)
    /\ (c.kind \in {"street", "street_postcode_mismatch"} /\ a.street) => r.route = "street"
    /\ c.requireCity => r.city

(* accuracyFor *)
AccuracyFor(r, c, a) ==
    CASE r.type = "ROOFTOP" -> "house"
      [] r.type = "RANGE_INTERPOLATED" -> "street"
      [] a.street /\ r.route = "street" /\ c.kind = "street" -> "street"
      [] c.kind = "postcode" -> "postcode"
      [] r.type = "APPROXIMATE" -> "district"
      [] OTHER -> "postcode"

Located(r, c, a) ==
    [status |-> "ok", fresh |-> TRUE, accuracy |-> AccuracyFor(r, c, a),
     of |-> {f \in Facts : \/ f = "germany" /\ r.germany
                           \/ f = "postcode" /\ r.postcode \in {"same", "mentioned"}
                           \/ f = "street" /\ a.street /\ r.route = "street"
                           \/ f = "city" /\ r.city}]
-----------------------------------------------------------------------------
Attempt == [of : Address, at : 1 .. 4]
Progress == [spelling : Spelling, next : 1 .. 5]

ASSUME NoneAssumption == None \notin Row \cup Progress \cup Attempt

GTypeOK ==
    /\ cache \in [Key -> {None} \cup Row]
    /\ progress \in [Key -> {None} \cup Progress]
    /\ paused \in BOOLEAN
    /\ attempt \in {None} \cup Attempt
    /\ attempt # None => attempt.at <= Len(Candidates(attempt.of))
    /\ refused \in [Key -> SUBSET (Spelling \X (1 .. 4))]

GInit ==
    /\ cache = [k \in Key |-> None]
    /\ progress = [k \in Key |-> None]
    /\ paused = FALSE
    /\ attempt = None
    /\ refused = [k \in Key |-> {}]

(* getUsableCache: precise rows, coarse rows and failures each have an age  *)
(* at which Google is asked again.                                          *)
Usable(k) == cache[k] # None /\ cache[k].fresh

Start(a) ==
    LET p == progress[a.key]
    IN IF p # None /\ p.spelling = a.spelling THEN p.next ELSE 1

(* The round over the candidates is over: the cache has its result and the  *)
(* progress is deleted.                                                     *)
Concludes(k, row) ==
    /\ cache' = [cache EXCEPT ![k] = row]
    /\ progress' = [progress EXCEPT ![k] = None]
    /\ refused' = [refused EXCEPT ![k] = {}]

(* geocodeAddress, where neither the cache nor the pause answers: it goes   *)
(* on after the last candidate that was answered for this spelling.         *)
Begins(a) ==
    /\ attempt = None /\ ~Usable(a.key) /\ ~paused
    /\ \/ /\ Start(a) <= Len(Candidates(a))
          /\ attempt' = [of |-> a, at |-> Start(a)]
          /\ UNCHANGED <<cache, progress, refused>>
       \/ /\ Start(a) > Len(Candidates(a))
          /\ Concludes(a.key, Failed)
          /\ UNCHANGED attempt
    /\ UNCHANGED paused

Asked == Candidates(attempt.of)[attempt.at]

(* An acceptable result ends the round. *)
Finds(a) ==
    /\ attempt # None /\ attempt.of = a
    /\ \E r \in {r \in Results : Accepts(r, Asked, a)} :
          Concludes(a.key, Located(r, Asked, a))
    /\ attempt' = None
    /\ UNCHANGED paused

Saved(a, at) == [progress EXCEPT ![a.key] = [spelling |-> a.spelling, next |-> at + 1]]

(* Google has nothing, or nothing acceptable: the place is saved and the next   *)
(* candidate asked for; after the last one the address counts as failed.    *)
Refuses(a) ==
    /\ attempt # None /\ attempt.of = a
    /\ \/ /\ attempt.at < Len(Candidates(a))
          /\ progress' = Saved(a, attempt.at)
          /\ refused' = [refused EXCEPT ![a.key] = @ \cup {<<a.spelling, attempt.at>>}]
          /\ attempt' = [attempt EXCEPT !.at = @ + 1]
          /\ UNCHANGED cache
       \/ /\ attempt.at = Len(Candidates(a))
          /\ Concludes(a.key, Failed)
          /\ attempt' = None
    /\ UNCHANGED paused

Responds(a) == Finds(a) \/ Refuses(a)

(* Google refuses or cannot be reached, or the attempt's own deadline of a  *)
(* minute passes: geocoding pauses.                                         *)
GeocoderPauses ==
    /\ attempt # None
    /\ attempt' = None
    /\ paused' = TRUE
    /\ UNCHANGED <<cache, progress, refused>>

PauseEnds == paused /\ paused' = FALSE /\ UNCHANGED <<cache, progress, attempt, refused>>

(* The parser's deadline aborts the attempt, or the process dies while      *)
(* Google is asked: nothing is written.                                     *)
CutOff ==
    /\ attempt # None
    /\ attempt' = None
    /\ UNCHANGED <<cache, progress, paused, refused>>

(* The process dies when the place is saved and before anything else.       *)
DiesAfterRefusal(a) ==
    /\ attempt # None /\ attempt.of = a
    /\ progress' = Saved(a, attempt.at)
    /\ refused' = [refused EXCEPT ![a.key] = @ \cup {<<a.spelling, attempt.at>>}]
    /\ attempt' = None
    /\ UNCHANGED <<cache, paused>>

(* Or when the round is over, by an answer or because an earlier attempt    *)
(* saved the place past the list, and its progress deleted, and before its  *)
(* result is cached: the round is lost.                                     *)
LosesRound(a) ==
    /\ \/ /\ attempt # None /\ attempt.of = a
          /\ \/ attempt.at = Len(Candidates(a))
             \/ \E r \in Results : Accepts(r, Asked, a)
       \/ /\ attempt = None /\ ~Usable(a.key) /\ ~paused
          /\ Start(a) > Len(Candidates(a))
    /\ Concludes(a.key, cache[a.key])
    /\ attempt' = None
    /\ UNCHANGED paused

(* A row reaches its age. *)
Expires(k) ==
    /\ Usable(k)
    /\ cache' = [cache EXCEPT ![k].fresh = FALSE]
    /\ UNCHANGED <<progress, paused, attempt, refused>>

GNext ==
    \/ \E a \in Address : Begins(a) \/ Responds(a) \/ DiesAfterRefusal(a) \/ LosesRound(a)
    \/ GeocoderPauses \/ PauseEnds \/ CutOff
    \/ \E k \in Key : Expires(k)

GSpec == GInit /\ [][GNext]_gvars

(* The clock, and the deadlines of a request and of an attempt. *)
Goes == GeocoderPauses \/ \E a \in Address : Responds(a)

GFairSpec == GSpec /\ WF_gvars(PauseEnds) /\ WF_gvars(Goes)
-----------------------------------------------------------------------------
(* An address is cached as failed only when each candidate for one of its   *)
(* spellings was answered in vain since the last result, in however many    *)
(* attempts, cut off wherever.                                              *)
FailedIsExhausted ==
    [][\A k \in Key :
         cache'[k] = Failed /\ cache[k] # Failed
           => \E a \in Address :
                /\ a.key = k
                /\ \A i \in 1 .. Len(Candidates(a)) :
                      \/ <<a.spelling, i>> \in refused[k]
                      \/ attempt = [of |-> a, at |-> i]]_gvars

(* Coordinates in the cache lie in Germany; they are in the address's       *)
(* postcode, unless a portal made it up and they are on the street in the   *)
(* city; those of an address that is only a street are on that street, and  *)
(* in the city that it is looked for in.                                    *)
CachedIsAnchored ==
    \A a \in Address :
        (cache[a.key] # None /\ cache[a.key].status = "ok")
          => LET row == cache[a.key]
             IN /\ "germany" \in row.of
                /\ a.postcode = "real" => "postcode" \in row.of
                /\ a.postcode = "placeholder" =>
                      "postcode" \in row.of \/ {"street", "city"} \subseteq row.of
                /\ a.bare => "street" \in row.of /\ (a.city => "city" \in row.of)

(* The cache has well-formed rows, and they lie where the addresses say. *)
CacheIsSound == GTypeOK /\ CachedIsAnchored

(* Where an address has one spelling, no candidate is paid for twice before *)
(* the round has a result.                                                  *)
OneSpelling(a) == \A b \in Address : b.key = a.key => b = a

NotAskedAgain ==
    [][attempt' # attempt /\ attempt' # None /\ OneSpelling(attempt'.of)
         => <<attempt'.of.spelling, attempt'.at>> \notin refused'[attempt'.of.key]]_gvars

(* However attempts are cut off, the progress neither skips a candidate nor *)
(* repeats one.                                                             *)
ProgressIsKept == FailedIsExhausted /\ NotAskedAgain

(* An address that adverts keep naming, and for which Google keeps          *)
(* answering, is located or given up, though every attempt may be cut off:  *)
(* the progress outlives the attempts.  Only the process must not die for   *)
(* ever just when a round is over.                                          *)
Settles ==
    \A a \in Address :
        (OneSpelling(a) /\ SF_gvars(Begins(a)) /\ SF_gvars(Responds(a)) /\ <>[][~LosesRound(a)]_gvars)
            => []<>Usable(a.key)
=============================================================================
