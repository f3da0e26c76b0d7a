------------------------------ MODULE DriverFile ------------------------------
(***************************************************************************)
(* A driver's application: the profile row, its documents and the review   *)
(* (routes/driver_routes.ts, services/admin_service.ts updateDriverStatus, *)
(* the document route of routes/admin_routes.ts).                          *)
(*                                                                         *)
(* Every request reads the row and saves all of it, some of them after     *)
(* processing an image.  A file is named by a number; an administrator's   *)
(* replacement removes the file it replaced from the disk.                 *)
(***************************************************************************)
EXTENDS Naturals, FiniteSets

CONSTANTS
    Papers,     \* the documents an approval needs
    Filings,    \* requests that may be in flight together
    MaxFiles,   \* bound: files ever uploaded
    MaxFilings  \* bound: requests in all

ASSUME DriverFileAssumption ==
    Papers # {} /\ MaxFiles \in Nat /\ MaxFilings \in Nat

VARIABLES
    profile,    \* the driver_profile row
    disk,       \* files in the uploads directory
    uploaded,   \* files uploaded so far
    filing,     \* filing[q]: the request in flight
    filings,    \* requests so far (bound)
    crossed     \* two requests were in flight together (history)

driverFileVars == <<profile, disk, uploaded, filing, filings, crossed>>

-------------------------------------------------------------------------------

DriverStatus == {"pending_documents", "pending_review", "approved", "rejected",
                 "suspended"}

\* paper[p]: the file the row names for p, 0 for null.
Profile == [status : DriverStatus, paper : [Papers -> 0..MaxFiles], nin : BOOLEAN]
NoProfile == [status |-> "unregistered"]
Blank == [status |-> "pending_documents", paper |-> [p \in Papers |-> 0], nin |-> FALSE]

Ruling == {"approved", "rejected", "suspended"}
FilingOp == {"onboarding", "vehicle", "nin", "upload", "replace"} \cup Ruling
Filed == [op : FilingOp, at : {"image", "save", "unlink"}, row : Profile,
          fresh : BOOLEAN, paper : Papers, file : 0..MaxFiles, old : 0..MaxFiles]
NoFiling == [op |-> "none"]

DriverFileTypeOK ==
    /\ profile \in Profile \cup {NoProfile}
    /\ disk \subseteq 1..uploaded
    /\ uploaded \in 0..MaxFiles
    /\ \A q \in Filings : filing[q] \in Filed \cup {NoFiling}
    /\ filings \in 0..MaxFilings
    /\ crossed \in BOOLEAN

DriverFileInit ==
    /\ profile = NoProfile
    /\ disk = {}
    /\ uploaded = 0
    /\ filing = [q \in Filings |-> NoFiling]
    /\ filings = 0
    /\ crossed = FALSE

-------------------------------------------------------------------------------

NoneFiled(q) == filing[q] = NoFiling

allDocsPresent(row) == \A p \in Papers : row.paper[p] # 0

\* Mutant: an approval does not look at the documents.
ApprovesAnyway(op, row) == TRUE

\* updateDriverStatus refuses to approve an incomplete application; a NIN that
\* is verified is not verified again.
MayFile(op, row) ==
    /\ op = "approved" => allDocsPresent(row)
    /\ op = "nin" => ~row.nin

Files(q, op, p, first) ==
    LET row == IF profile = NoProfile THEN Blank ELSE profile IN
    /\ NoneFiled(q) /\ filings < MaxFilings
    /\ profile = NoProfile => op = "onboarding"
    /\ MayFile(op, row)
    /\ filing' = [filing EXCEPT ![q] =
          [op |-> op, at |-> first, row |-> row, fresh |-> profile = NoProfile,
           paper |-> p, file |-> 0, old |-> row.paper[p]]]
    /\ filings' = filings + 1
    /\ crossed' = (crossed \/ \E o \in Filings : ~NoneFiled(o))
    /\ UNCHANGED <<profile, disk, uploaded>>

\* A request that carries no image.
FilesForm(q, op) == Files(q, op, CHOOSE p \in Papers : TRUE, "save")

Onboards(q) == FilesForm(q, "onboarding")
EditsProfile(q) == FilesForm(q, "vehicle")
VerifiesNin(q) == FilesForm(q, "nin")
ReviewsDriver(q) == \E op \in Ruling : FilesForm(q, op)

\* A driver's upload, and an administrator's replacement.
Uploads(q) == \E p \in Papers : Files(q, "upload", p, "image")
ReplacesPaper(q) == \E p \in Papers : Files(q, "replace", p, "image")

\* The image is processed into a file, or cannot be.
ProcessesImage(q) ==
    /\ ~NoneFiled(q) /\ filing[q].at = "image"
    /\ \/ /\ uploaded < MaxFiles
          /\ uploaded' = uploaded + 1 /\ disk' = disk \cup {uploaded'}
          /\ filing' = [filing EXCEPT ![q].at = "save", ![q].file = uploaded']
       \/ filing' = [filing EXCEPT ![q] = NoFiling] /\ UNCHANGED <<uploaded, disk>>
    /\ UNCHANGED <<profile, filings, crossed>>

\* What op makes of the row it read.
Entered(op, row, p, file) ==
    CASE op = "onboarding" ->
            [row EXCEPT !.status = IF allDocsPresent(row) THEN "pending_review"
                                   ELSE "pending_documents"]
      [] op = "upload" ->
            LET with == [row EXCEPT !.paper[p] = file]
            IN  [with EXCEPT !.status = IF allDocsPresent(with) THEN "pending_review"
                                        ELSE @]
      [] op = "replace" -> [row EXCEPT !.paper[p] = file]
      [] op = "nin" -> [row EXCEPT !.nin = TRUE]
      [] op = "approved" -> [row EXCEPT !.status = "approved", !.nin = TRUE]
      [] op \in {"rejected", "suspended"} -> [row EXCEPT !.status = op]
      [] OTHER -> row

\* The whole row is saved.  An onboarding that found no row names only the
\* columns it sets: those of a row that came meanwhile stay.
SavesProfile(q) ==
    LET call == filing[q]
        row == Entered(call.op, call.row, call.paper, call.file)
    IN  /\ ~NoneFiled(q) /\ call.at = "save"
        /\ profile' = IF call.fresh /\ profile # NoProfile
                      THEN [profile EXCEPT !.status = row.status] ELSE row
        /\ filing' = [filing EXCEPT ![q] =
              IF call.op = "replace" /\ call.old # 0
              THEN [call EXCEPT !.at = "unlink"] ELSE NoFiling]
        /\ UNCHANGED <<disk, uploaded, filings, crossed>>

\* The replaced file is removed, if that succeeds.
RemovesOld(q) ==
    /\ ~NoneFiled(q) /\ filing[q].at = "unlink"
    /\ disk' \in {disk, disk \ {filing[q].old}}
    /\ filing' = [filing EXCEPT ![q] = NoFiling]
    /\ UNCHANGED <<profile, uploaded, filings, crossed>>

DriverFileNext ==
    \E q \in Filings :
        \/ Onboards(q) \/ EditsProfile(q) \/ VerifiesNin(q) \/ ReviewsDriver(q)
        \/ Uploads(q) \/ ReplacesPaper(q) \/ ProcessesImage(q)
        \/ SavesProfile(q) \/ RemovesOld(q)

DriverFileSpec == DriverFileInit /\ [][DriverFileNext]_driverFileVars

-------------------------------------------------------------------------------
(* Properties *)

\* An approved driver has every document and a reviewed NIN, however the saves
\* of old rows overlap; a driver becomes approved only by a review, or by a
\* request that had read the row approved; and a document that the row names
\* is on disk, unless requests overlapped (driver_routes.ts:27-266,
\* admin_service.ts:80-146, admin_routes.ts:566-640).
DriverFileStep ==
    /\ profile'.status = "approved" => allDocsPresent(profile') /\ profile'.nin
    /\ profile.status # "approved" /\ profile'.status = "approved" =>
          \E q \in Filings :
             /\ filing[q] # filing'[q]
             /\ filing[q].op = "approved" \/ filing[q].row.status = "approved"
    /\ profile' # NoProfile /\ ~crossed' =>
          \A p \in Papers : profile'.paper[p] \in disk' \cup {0}
===============================================================================
