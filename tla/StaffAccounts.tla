---------------------------- MODULE StaffAccounts ------------------------------
(***************************************************************************)
(* One staff account and its sessions (services/staff_service.ts,          *)
(* services/staff_auth_service.ts, middleware/staff_auth.ts, behind        *)
(* routes/staff_admin_routes.ts and routes/staff_auth_routes.ts).          *)
(*                                                                         *)
(* A handler reads the account's row, asks something (a bcrypt, another    *)
(* query) and saves the whole row it read; only the bump of                *)
(* credentialVersion is an UPDATE in place.  Two things end a session: its *)
(* own row is revoked, and the account's version moves past the one its    *)
(* tokens carry.  Locks and links that lapse, and failures that are not    *)
(* yet one too many, are choices.                                          *)
(***************************************************************************)
EXTENDS Naturals

CONSTANTS
    Officers,       \* requests that may be in flight together
    MaxVersion,     \* bound: credentialVersion
    MaxPasses,      \* bound: sessions opened
    MaxLetters,     \* bound: setup links generated
    MaxOfficeOps    \* bound: requests in all

ASSUME AccountsAssumption ==
    /\ MaxVersion \in Nat \ {0, 1} /\ MaxPasses \in Nat
    /\ MaxLetters \in Nat /\ MaxOfficeOps \in Nat

VARIABLES
    account,    \* the StaffUser row
    passes,     \* passes[p]: a StaffSession row
    letters,    \* setup links: how many were generated, which reached somebody
    officer,    \* officer[o]: the request in flight and the row it read
    officeOps,  \* requests so far (bound)
    annals      \* history: what the properties need of the past

accountVars == <<account, passes, letters, officer, officeOps, annals>>

-------------------------------------------------------------------------------
(* Types *)

StaffStatus == {"none", "invited", "active", "locked", "suspended", "deactivated"}
Letter == 0..MaxLetters     \* 0: no link
Version == 0..MaxVersion    \* 0: no such row
Pass == 1..MaxPasses

\* password: passwordHash is set.  setup: the link whose hash is stored.
StaffUser == [status : StaffStatus, password : BOOLEAN, setup : Letter, version : Version]
NoStaff == [status |-> "none", password |-> FALSE, setup |-> 0, version |-> 0]

\* live: revokedAt is null.  version: credentialVersion, of the row and of its tokens.
StaffPass == [live : BOOLEAN, version : Version]
NoPass == [live |-> FALSE, version |-> 0]

Barring == {"suspend", "deactivate", "reset"}
OfficeOp == Barring \cup {"none", "create", "setup", "profile", "reactivate", "roles",
                          "login", "wrong", "refresh", "kick", "call"}
OfficePoint == {"idle", "insert", "save", "bump", "revoke", "answer", "open",
                "staff", "rotate", "session", "in"}
Office == [op : OfficeOp, at : OfficePoint, row : StaffUser, letter : Letter,
           pass : 0..MaxPasses, came : SUBSET {"ended", "outdated"}]
NoOffice == [op |-> "none", at |-> "idle", row |-> NoStaff, letter |-> 0,
             pass |-> 0, came |-> {}]

\* outdated: no token of this version or an earlier one is to be accepted.
\* ended: sessions that were revoked.  revived: those a refresh wrote back.
\* wroteBack: a row read before a bump was saved after it.  spent: links that
\* set a password.  retired: the account was deactivated.
Annals == [outdated : Version, ended : SUBSET Pass, revived : SUBSET Pass,
           wroteBack : BOOLEAN, spent : SUBSET Letter, retired : BOOLEAN]

AccountsTypeOK ==
    /\ account \in StaffUser /\ passes \in [Pass -> StaffPass]
    /\ letters \in [made : Letter, handed : SUBSET Letter]
    /\ officer \in [Officers -> Office]
    /\ officeOps \in 0..MaxOfficeOps /\ annals \in Annals

\* Nobody yet, or a person at work who signed in.
AccountsInit ==
    /\ \/ account = NoStaff /\ passes = [p \in Pass |-> NoPass]
       \/ /\ account = [status |-> "active", password |-> TRUE, setup |-> 0, version |-> 2]
          /\ passes = [p \in Pass |-> IF p = 1 THEN [live |-> TRUE, version |-> 2]
                                      ELSE NoPass]
    /\ letters = [made |-> 0, handed |-> {}]
    /\ officer = [o \in Officers |-> NoOffice]
    /\ officeOps = 0
    /\ annals = [outdated |-> 0, ended |-> {}, revived |-> {}, wroteBack |-> FALSE,
                 spent |-> {}, retired |-> FALSE]

-------------------------------------------------------------------------------
(* Requests *)

\* A request that gets past its refusals, with the row it read.
Takes(o, op, first, l, p) ==
    /\ officer[o] = NoOffice /\ officeOps < MaxOfficeOps
    /\ officer' = [officer EXCEPT ![o] = [op |-> op, at |-> first, row |-> account,
                                          letter |-> l, pass |-> p, came |-> {}]]
    /\ officeOps' = officeOps + 1
    /\ UNCHANGED <<account, passes, letters, annals>>

Hired == account # NoStaff

\* createStaff: no row has the address or the phone.
CreateStaff(o) == ~Hired /\ Takes(o, "create", "insert", 0, 0)

\* completeSetup finds the row by the link somebody was given.
CompleteSetup(o) ==
    \E l \in letters.handed :
        /\ l # 0 /\ account.setup = l /\ account.status \notin {"suspended", "deactivated"}
        /\ Takes(o, "setup", "save", l, 0)

UpdateProfile(o) == Hired /\ Takes(o, "profile", "save", 0, 0)
Suspend(o) == Hired /\ Takes(o, "suspend", "save", 0, 0)
Deactivate(o) == Hired /\ Takes(o, "deactivate", "save", 0, 0)
Reactivate(o) ==
    Hired /\ account.status # "deactivated" /\ Takes(o, "reactivate", "save", 0, 0)
ResetCredentials(o) ==
    Hired /\ account.status # "deactivated" /\ Takes(o, "reset", "save", 0, 0)

\* The grants that change are saved, each with its audit, before the bump.
SetRoles(o) == Hired /\ Takes(o, "roles", "bump", 0, 0)

\* POST /staff/:id/revoke-sessions
Kick(o) == Hired /\ Takes(o, "kick", "revoke", 0, 0)

\* login: the password is compared before the status is looked at.
Login(o) ==
    /\ account.password /\ account.status # "invited"
    /\ \/ account.status \notin {"suspended", "deactivated"} /\ Takes(o, "login", "save", 0, 0)
       \/ Takes(o, "wrong", "save", 0, 0)

\* refresh: the session's row first, then the account's.
RefreshRead(o) == \E p \in Pass : passes[p].live /\ Takes(o, "refresh", "staff", 0, p)

\* identify: the account's row first, then the session's.
Call(o) ==
    \E p \in Pass :
        /\ account.status = "active" /\ passes[p].version = account.version
        /\ officer[o] = NoOffice /\ officeOps < MaxOfficeOps
        /\ officer' = [officer EXCEPT ![o] =
              [op |-> "call", at |-> "session", row |-> account, letter |-> 0, pass |-> p,
               came |-> {c \in {"ended", "outdated"} :
                           \/ c = "ended" /\ p \in annals.ended
                           \/ c = "outdated" /\ account.version <= annals.outdated}]]
        /\ officeOps' = officeOps + 1
        /\ UNCHANGED <<account, passes, letters, annals>>

-------------------------------------------------------------------------------
(* Their steps *)

Turns(o, at) == officer' = [officer EXCEPT ![o].at = at]
Done(o) == officer' = [officer EXCEPT ![o] = NoOffice]

\* email and phone are unique: the second of two inserts is refused.
InsertsStaff(o) ==
    /\ officer[o].at = "insert"
    /\ IF Hired THEN Done(o) /\ UNCHANGED <<account, letters>>
       ELSE /\ letters.made < MaxLetters
            /\ letters' = [letters EXCEPT !.made = @ + 1]
            /\ account' = [status |-> "invited", password |-> FALSE,
                           setup |-> letters.made + 1, version |-> 1]
            /\ officer' = [officer EXCEPT ![o].at = "answer", ![o].letter = letters.made + 1]
    /\ UNCHANGED <<passes, officeOps, annals>>

\* The link is shown once, in the answer.
HandsOver(o) ==
    /\ officer[o].at = "answer" /\ Done(o)
    /\ letters' = [letters EXCEPT !.handed = @ \cup {officer[o].letter}]
    /\ UNCHANGED <<account, passes, officeOps, annals>>

\* What a handler makes of the row it read; l: the link a reset generates.
Recredentialed(row, l) ==
    [row EXCEPT !.setup = l, !.password = FALSE,
                !.status = IF @ \in {"locked", "active"} THEN "invited" ELSE @]
Reinstated(row) == [row EXCEPT !.status = IF row.password THEN "active" ELSE "invited"]
Established(row) == [row EXCEPT !.status = "active", !.password = TRUE, !.setup = 0,
                                !.version = @ + 1]
Unlocked(row) == [row EXCEPT !.status = IF @ = "locked" THEN "active" ELSE @]
FailureCounted(row) == {row, [row EXCEPT !.status = IF @ = "active" THEN "locked" ELSE @]}
Rewritten(op, row, l) ==
    CASE op = "setup" -> {Established(row)}
      [] op = "suspend" -> {[row EXCEPT !.status = "suspended"]}
      [] op = "deactivate" -> {[row EXCEPT !.status = "deactivated", !.setup = 0]}
      [] op = "reset" -> {Recredentialed(row, l)}
      [] op = "reactivate" -> {Reinstated(row)}
      [] op = "login" -> {Unlocked(row)}
      [] op = "wrong" -> FailureCounted(row)
      [] OTHER -> {row}

\* What is left to do once the row is saved.
After(op) == CASE op \in Barring -> "bump"
               [] op = "setup" -> "revoke"
               [] op = "login" -> "open"
               [] OTHER -> "idle"

Later(m, n) == IF m < n THEN n ELSE m

\* save: the row that was read, changed, whatever was written since.
SavesAccount(o) ==
    LET case == officer[o]
        made == IF case.op = "reset" THEN letters.made + 1 ELSE letters.made
    IN  /\ case.at = "save" /\ made <= MaxLetters
        /\ case.op = "setup" => case.row.version < MaxVersion
        /\ letters' = [letters EXCEPT !.made = made]
        /\ account' \in Rewritten(case.op, case.row, made)
        /\ IF After(case.op) = "idle" THEN Done(o)
           ELSE officer' = [officer EXCEPT ![o].at = After(case.op),
                               ![o].letter = IF case.op = "reset" THEN made ELSE @]
        /\ annals' = [annals EXCEPT
              !.wroteBack = @ \/ case.row.version # account.version,
              !.outdated = IF case.op = "setup" THEN Later(@, case.row.version) ELSE @,
              !.spent = IF case.op = "setup" THEN @ \cup {case.letter} ELSE @,
              !.retired = @ \/ case.op = "deactivate"]
        /\ UNCHANGED <<passes, officeOps>>

\* invalidateCredentials, first half: the version, in place.
BumpsVersion(o) ==
    /\ officer[o].at = "bump" /\ account.version < MaxVersion
    /\ account' = [account EXCEPT !.version = @ + 1]
    /\ annals' = [annals EXCEPT !.outdated = Later(@, account.version)]
    /\ Turns(o, "revoke") /\ UNCHANGED <<passes, letters, officeOps>>

\* revokeAllSessions: every row that is not revoked yet.
RevokesAll(o) ==
    /\ officer[o].at = "revoke"
    /\ passes' = [p \in Pass |-> [passes[p] EXCEPT !.live = FALSE]]
    /\ annals' = [annals EXCEPT !.ended = @ \cup {p \in Pass : passes[p].live}]
    /\ IF officer[o].op = "reset" THEN Turns(o, "answer") ELSE Done(o)
    /\ UNCHANGED <<account, letters, officeOps>>

\* openSession, with the version of the row that login read.
OpensSession(o) ==
    /\ officer[o].at = "open"
    /\ \E p \in Pass :
          /\ passes[p].version = 0 /\ \A q \in Pass : q < p => passes[q].version # 0
          /\ passes' = [passes EXCEPT ![p] =
                           [live |-> TRUE, version |-> officer[o].row.version]]
    /\ Done(o) /\ UNCHANGED <<account, letters, officeOps, annals>>

RefreshChecks(o) ==
    /\ officer[o].at = "staff"
    /\ IF account.status = "active" /\ passes[officer[o].pass].version = account.version
       THEN Turns(o, "rotate") ELSE Done(o)
    /\ UNCHANGED <<account, passes, letters, officeOps, annals>>

\* The session row that was read, saved whole: with a revokedAt of null.
Rotates(o) ==
    LET p == officer[o].pass IN
    /\ officer[o].at = "rotate" /\ passes' = [passes EXCEPT ![p].live = TRUE]
    /\ annals' = [annals EXCEPT !.revived = IF passes[p].live THEN @ ELSE @ \cup {p}]
    /\ Done(o) /\ UNCHANGED <<account, letters, officeOps>>

Identified(o) ==
    /\ officer[o].at = "session"
    /\ IF passes[officer[o].pass].live THEN Turns(o, "in") ELSE Done(o)
    /\ UNCHANGED <<account, passes, letters, officeOps, annals>>

\* logout: this session.
Logout(o) ==
    LET p == officer[o].pass IN
    /\ officer[o].at = "in" /\ passes' = [passes EXCEPT ![p].live = FALSE]
    /\ annals' = [annals EXCEPT !.ended = @ \cup {p}]
    /\ Done(o) /\ UNCHANGED <<account, letters, officeOps>>

\* logout-all
LogoutAll(o) == /\ officer[o].at = "in" /\ Turns(o, "revoke")
                /\ UNCHANGED <<account, passes, letters, officeOps, annals>>

\* An answer, a throw (a query, a critical audit) or the end of the process.
Ends(o) == /\ officer[o] # NoOffice /\ Done(o)
           /\ UNCHANGED <<account, passes, letters, officeOps, annals>>

AccountsNext ==
    \E o \in Officers :
        \/ CreateStaff(o) \/ CompleteSetup(o) \/ UpdateProfile(o) \/ Suspend(o)
        \/ Deactivate(o) \/ Reactivate(o) \/ ResetCredentials(o) \/ SetRoles(o)
        \/ Kick(o) \/ Login(o) \/ RefreshRead(o) \/ Call(o)
        \/ InsertsStaff(o) \/ HandsOver(o) \/ SavesAccount(o) \/ BumpsVersion(o)
        \/ RevokesAll(o) \/ OpensSession(o) \/ RefreshChecks(o) \/ Rotates(o)
        \/ Identified(o) \/ Logout(o) \/ LogoutAll(o) \/ Ends(o)

AccountsSpec == AccountsInit /\ [][AccountsNext]_accountVars

-------------------------------------------------------------------------------
(* Properties *)

\* Nobody is left with an account that can neither be signed into nor set up:
\* one that works has a password, one that is invited has none, a password and a
\* setup link never stand together, and one of the two does until the account
\* is retired; and a link that set a password sets no second one, unless a row
\* read before a bump was saved after it (staff_service.ts:170-545).
AccountSound ==
    /\ account.status \in {"active", "locked"} => account.password
    /\ account.status = "invited" => ~account.password
    /\ account.password => account.setup = 0
    /\ Hired /\ ~account.password => account.setup # 0 \/ annals.retired
    /\ account.setup \in annals.spent => annals.wroteBack

\* A suspension ends by a reactivation or a deactivation, a retirement by a
\* suspension, which does not ask; or by a request that had read the row before.
AccountStep ==
    /\ AccountSound'
    /\ account.status = "deactivated" /\ account'.status # "deactivated" =>
          \E o \in Officers :
             /\ officer[o] # officer'[o]
             /\ officer[o].op = "suspend" \/ officer[o].row.status # "deactivated"
    /\ account.status = "suspended" /\ account'.status \in {"invited", "active", "locked"} =>
          \E o \in Officers :
             /\ officer[o] # officer'[o]
             /\ officer[o].op = "reactivate" \/ officer[o].row.status # "suspended"

\* A request that comes with a session of before an invalidation gets in only if
\* both of its two ends were undone, the version by a row read before the bump
\* and the session's row by a refresh that had read it (staff_auth_service.ts:411-510).
SessionsEnd ==
    \A o \in Officers :
        officer[o].at = "in" =>
            /\ "outdated" \in officer[o].came => annals.wroteBack
            /\ "ended" \in officer[o].came => officer[o].pass \in annals.revived
===============================================================================
