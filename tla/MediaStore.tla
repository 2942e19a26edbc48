------------------------------ MODULE MediaStore ------------------------------
(***************************************************************************)
(* The picture files of the captures, and the rows of listing_images that   *)
(* refer to them.  A file is named by the hash of its content, so that      *)
(* captures share it.  It is written while a capture is under way, before   *)
(* the transaction that stores the reference, and removed by maintenance.   *)
(*                                                                         *)
(* Time is kept as ages and remaining times, in ticks: a file has an age    *)
(* since it was written or touched (mtime), a row the time left until       *)
(* retained_until.  Both stop counting where the code stops telling them    *)
(* apart.  A capture has one picture here.                                  *)
(***************************************************************************)
EXTENDS Naturals

CONSTANTS
    Capture,      \* the captures, by parse key
    Picture,      \* the contents of pictures
    PictureOf,    \* what each capture shows
    Retention,    \* FREDY_MEDIA_RETENTION_DAYS
    OrphanAge     \* 24 h: a younger file may be of a capture under way

ASSUME MediaAssumption ==
    /\ PictureOf \in [Capture -> Picture]
    /\ OrphanAge \in Nat \ {0, 1}
    /\ Retention \in Nat /\ Retention >= OrphanAge

VARIABLES
    files,     \* the age of each file there is
    rows,      \* the rows of listing_images, by capture
    getting    \* how far the picture of a capture under way is

mediaVars == <<files, rows, getting>>

FileTypeOK ==
    /\ DOMAIN files \subseteq Picture
    /\ \A p \in DOMAIN files : files[p] \in 0 .. Retention
    /\ DOMAIN rows \subseteq Capture
    /\ \A c \in DOMAIN rows :
          /\ rows[c].status \in {"stored", "failed", "missing", "expired"}
          /\ rows[c].left \in 0 .. Retention
    /\ getting \in [Capture -> {"no", "exists", "have", "failed"}]

NoFiles == [p \in {} |-> 0]
With(f, x, v) == [y \in DOMAIN f \cup {x} |-> IF y = x THEN v ELSE f[y]]
Without(f, S) == [y \in DOMAIN f \ S |-> f[y]]

References(p) == {c \in DOMAIN rows : rows[c].status = "stored" /\ PictureOf[c] = p}

(* A stored row whose file is not there. *)
Dangling == {c \in DOMAIN rows : rows[c].status = "stored" /\ PictureOf[c] \notin DOMAIN files}
-----------------------------------------------------------------------------
(* Mutants: plausible slips in the code below. *)

(* The first reference whose retention ends takes the file. *)
ExpirableByAny ==
    {p \in DOMAIN files : /\ \E c \in References(p) : rows[c].left = 0
                          /\ files[p] >= Retention}

(* An unreferenced file is removed whatever its age. *)
OrphansOfAnyAge(fs, rs) ==
    {p \in DOMAIN fs : ~\E c \in DOMAIN rs : rs[c].status = "stored" /\ PictureOf[c] = p}

(* Rows that lost their file count as references. *)
OrphansOfNoRow(fs, rs) ==
    {p \in DOMAIN fs : /\ ~\E c \in DOMAIN rs : PictureOf[c] = p
                       /\ fs[p] >= OrphanAge}

-----------------------------------------------------------------------------
FilesInit ==
    /\ files = NoFiles
    /\ rows = NoFiles
    /\ getting = [c \in Capture |-> "no"]

(* The picture is downloaded and its file written, if there is none yet. *)
Downloads(c) ==
    /\ \A d \in Capture : getting[d] = "no"
    /\ IF PictureOf[c] \in DOMAIN files
       THEN /\ getting' = [getting EXCEPT ![c] = "exists"]
            /\ UNCHANGED files
       ELSE /\ files' = With(files, PictureOf[c], 0)
            /\ getting' = [getting EXCEPT ![c] = "have"]
    /\ UNCHANGED rows

DownloadFails(c) ==
    /\ \A d \in Capture : getting[d] = "no"
    /\ getting' = [getting EXCEPT ![c] = "failed"]
    /\ UNCHANGED <<files, rows>>

(* After EEXIST the file is touched; utimes fails where it has gone. *)
Touches(c) ==
    /\ getting[c] = "exists"
    /\ IF PictureOf[c] \in DOMAIN files
       THEN /\ files' = [files EXCEPT ![PictureOf[c]] = 0]
            /\ getting' = [getting EXCEPT ![c] = "have"]
       ELSE /\ getting' = [getting EXCEPT ![c] = "failed"]
            /\ UNCHANGED files
    /\ UNCHANGED rows

(* The transaction of the capture.  A capture that has rows keeps them. *)
StoresCapture(c) ==
    /\ getting[c] \in {"have", "failed"}
    /\ rows' = IF c \in DOMAIN rows THEN rows
               ELSE With(rows, c, [status |-> IF getting[c] = "have" THEN "stored" ELSE "failed",
                                   left |-> Retention])
    /\ getting' = [getting EXCEPT ![c] = "no"]
    /\ UNCHANGED files

(* The capture ends without its transaction: it timed out or was cancelled. *)
DropsCapture(c) ==
    /\ getting[c] # "no"
    /\ getting' = [getting EXCEPT ![c] = "no"]
    /\ UNCHANGED <<files, rows>>
-----------------------------------------------------------------------------
(* A file goes when the retention of each reference and of the file ends. *)
Expirable ==
    {p \in DOMAIN files : /\ References(p) # {}
                          /\ \A c \in References(p) : rows[c].left = 0
                          /\ files[p] >= Retention}

RowsExpired(gone) ==
    [c \in DOMAIN rows |-> IF rows[c].status = "stored" /\ PictureOf[c] \in gone
                           THEN [rows[c] EXCEPT !.status = "expired"] ELSE rows[c]]

(* reconcileMissingImages *)
Reconciled(fs, rs) ==
    [c \in DOMAIN rs |->
        IF rs[c].status = "stored" /\ PictureOf[c] \notin DOMAIN fs
        THEN [rs[c] EXCEPT !.status = "missing"] ELSE rs[c]]

(* mediaStats: the unreferenced files that are old enough. *)
Orphans(fs, rs) ==
    {p \in DOMAIN fs : /\ ~\E c \in DOMAIN rs : rs[c].status = "stored" /\ PictureOf[c] = p
                       /\ fs[p] >= OrphanAge}

SweepsFiles ==
    LET kept   == Without(files, Expirable)
        marked == Reconciled(kept, RowsExpired(Expirable))
    IN  /\ files' = Without(kept, Orphans(kept, marked))
        /\ rows' = marked
        /\ UNCHANGED getting

(* The process dies between the removal of a file and the update of its     *)
(* rows; some other files may have been expired before.                     *)
SweepIsCut ==
    \E p \in Expirable : \E done \in SUBSET (Expirable \ {p}) :
        /\ files' = Without(files, done \cup {p})
        /\ rows' = RowsExpired(done)
        /\ getting' = [c \in Capture |-> "no"]

FilesSurvive ==
    /\ getting' = [c \in Capture |-> "no"]
    /\ UNCHANGED <<files, rows>>

Less(n) == IF n = 0 THEN 0 ELSE n - 1

(* A capture whose file is written ends within a tick: its deadline is ten  *)
(* minutes, a tick is half a day.                                           *)
CapturesInTime ==
    \A c \in Capture : getting[c] = "have" /\ PictureOf[c] \in DOMAIN files
                          => files[PictureOf[c]] = 0

FilesAge ==
    /\ files' = [p \in DOMAIN files |-> IF files[p] < Retention THEN files[p] + 1 ELSE Retention]
    /\ rows' = [c \in DOMAIN rows |-> [rows[c] EXCEPT !.left = Less(rows[c].left)]]
    /\ UNCHANGED getting
=============================================================================
