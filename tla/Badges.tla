-------------------------------- MODULE Badges --------------------------------
(***************************************************************************)
(* Drivers' badges (services/badge_service.ts, repositories/               *)
(* driver_badge_repository.ts): issue, activate, revoke, replace, print.   *)
(*                                                                         *)
(* A badge is saved whole from the copy a request read; the database's     *)
(* partial unique index allows a driver one live badge.  A serial is one   *)
(* more than the highest, computed before the save: a save under a serial  *)
(* that has a row by then is an UPDATE of that row.                        *)
(***************************************************************************)
EXTENDS Naturals, FiniteSets

CONSTANTS
    Bearers,    \* drivers
    Counters,   \* requests that may be in flight together
    MaxSerial,  \* bound: serials
    MaxIssues   \* bound on the five attempts of createBadgeRow

ASSUME BadgesAssumption == MaxSerial \in Nat /\ MaxIssues \in Nat \ {0}

VARIABLES
    badge,      \* badge[n]: the row of serial n
    counter     \* counter[k]: the request in flight

badgesVars == <<badge, counter>>

-------------------------------------------------------------------------------

Serials == 1..MaxSerial

BadgeStatus == {"pending_activation", "active", "revoked", "lost", "replaced"}
LIVE_BADGE_STATUSES == {"pending_activation", "active"}

Card == [driver : Bearers, status : BadgeStatus, heir : 0..MaxSerial]
NoCard == [status |-> "none"]

\* `of` is the serial the request read, 0 for none; `row` what it read there.
AtBadgeDesk == [op : {"issue", "activate", "revoke", "lost", "replace", "printed"},
                at : {"save", "serial", "insert", "heir"}, driver : Bearers,
                of : 0..MaxSerial, row : Card \cup {NoCard}, serial : 0..MaxSerial,
                tries : 0..MaxIssues]
NoRequest == [op |-> "none"]

BadgesTypeOK ==
    /\ badge \in [Serials -> Card \cup {NoCard}]
    /\ \A k \in Counters : counter[k] \in AtBadgeDesk \cup {NoRequest}

BadgesInit ==
    /\ badge = [n \in Serials |-> NoCard]
    /\ counter = [k \in Counters |-> NoRequest]

-------------------------------------------------------------------------------

LiveBadges(d) ==
    {n \in Serials : badge[n].status \in LIVE_BADGE_STATUSES /\ badge[n].driver = d}

AtCounterFree(k) == counter[k] = NoRequest

\* issue: a driver without a live badge.  That the driver is approved and has a
\* photo is asked here, and by no other request.
AsksForBadge(k, d) ==
    /\ AtCounterFree(k) /\ LiveBadges(d) = {}
    /\ counter' = [counter EXCEPT ![k] =
          [op |-> "issue", at |-> "serial", driver |-> d, of |-> 0, row |-> NoCard,
           serial |-> 0, tries |-> 0]]
    /\ UNCHANGED badge

\* A request about badge n reads it (requireBadge).
AsksAbout(k, n, op) ==
    /\ AtCounterFree(k) /\ badge[n] # NoCard
    /\ counter' = [counter EXCEPT ![k] =
          [op |-> op, at |-> "save", driver |-> badge[n].driver, of |-> n,
           row |-> badge[n], serial |-> 0, tries |-> 0]]
    /\ UNCHANGED badge

\* activate and revoke refuse; replace and markPrinted take any badge.
AsksToValidate(k, n) ==
    badge[n].status = "pending_activation" /\ AsksAbout(k, n, "activate")

AsksToRevoke(k, n) ==
    /\ badge[n].status \notin {"revoked", "lost"}
    /\ \E op \in {"revoke", "lost"} : AsksAbout(k, n, op)

AsksToReplace(k, n) == AsksAbout(k, n, "replace")
AsksToPrint(k, n) == AsksAbout(k, n, "printed")

\* Mutant: the index lets a driver have as many live badges as there are.
AnyFits(n, row) == TRUE

\* UQ_badge_one_live_per_driver.
Fits(n, row) ==
    row.status \in LIVE_BADGE_STATUSES => LiveBadges(row.driver) \subseteq {n}

Stamped(op, row) ==
    CASE op = "activate" -> [row EXCEPT !.status = "active"]
      [] op = "revoke" -> [row EXCEPT !.status = "revoked"]
      [] op = "lost" -> [row EXCEPT !.status = "lost"]
      [] op = "replace" -> [row EXCEPT !.status = "replaced"]
      [] OTHER -> row

\* The copy is saved; a replacement goes on, everything else is done.
SavesBadge(k) ==
    LET call == counter[k]  row == Stamped(call.op, call.row) IN
    /\ ~AtCounterFree(k) /\ call.at = "save"
    /\ badge' = IF Fits(call.of, row) THEN [badge EXCEPT ![call.of] = row] ELSE badge
    /\ counter' = [counter EXCEPT ![k] =
          IF call.op = "replace" THEN [call EXCEPT !.at = "serial", !.row = row]
          ELSE NoRequest]

\* createBadgeRow: nextSerial ...
NumbersBadge(k) ==
    LET highest == CHOOSE n \in 0..MaxSerial :
            /\ n = 0 \/ badge[n] # NoCard
            /\ \A i \in Serials : badge[i] # NoCard => i <= n
    IN  /\ ~AtCounterFree(k) /\ counter[k].at = "serial" /\ highest < MaxSerial
        /\ counter' = [counter EXCEPT ![k].serial = highest + 1, ![k].at = "insert"]
        /\ UNCHANGED badge

\* ... and save: the index may refuse it, and it is tried again.
InsertsBadge(k) ==
    LET call == counter[k]
        row == [driver |-> call.driver, status |-> "pending_activation", heir |-> 0]
    IN  /\ ~AtCounterFree(k) /\ call.at = "insert"
        /\ \/ /\ Fits(call.serial, row)
              /\ badge' = [badge EXCEPT ![call.serial] = row]
              /\ counter' = [counter EXCEPT ![k] =
                    IF call.op = "replace" THEN [call EXCEPT !.at = "heir"]
                    ELSE NoRequest]
           \/ /\ ~Fits(call.serial, row) \/ badge[call.serial] # NoCard
              /\ counter' = [counter EXCEPT ![k] =
                    IF call.tries < MaxIssues - 1
                    THEN [call EXCEPT !.at = "serial", !.tries = @ + 1] ELSE NoRequest]
              /\ UNCHANGED badge

\* The retired row is saved again with the serial of its heir.
NamesHeir(k) ==
    LET call == counter[k] IN
    /\ ~AtCounterFree(k) /\ call.at = "heir"
    /\ badge' = [badge EXCEPT ![call.of] = [call.row EXCEPT !.heir = call.serial]]
    /\ counter' = [counter EXCEPT ![k] = NoRequest]

\* The request fails, or the process dies, where it stands.
BreaksOff(k) ==
    /\ ~AtCounterFree(k)
    /\ counter' = [counter EXCEPT ![k] = NoRequest]
    /\ UNCHANGED badge

BadgesNext ==
    \E k \in Counters :
          \/ SavesBadge(k) \/ NumbersBadge(k) \/ InsertsBadge(k) \/ NamesHeir(k)
          \/ BreaksOff(k)
          \/ \E d \in Bearers : AsksForBadge(k, d)
          \/ \E n \in Serials : \/ AsksToValidate(k, n) \/ AsksToRevoke(k, n)
                                \/ AsksToReplace(k, n) \/ AsksToPrint(k, n)

BadgesSpec == BadgesInit /\ [][BadgesNext]_badgesVars

-------------------------------------------------------------------------------
(* Properties *)

\* A driver never holds two live badges; a badge that was revoked, lost or
\* replaced is live again only if the request that wrote it had read it live,
\* or had drawn its serial before there was a row (badge_service.ts:150-397).
BadgesStep ==
    /\ \A d \in Bearers : Cardinality(LiveBadges(d)') <= 1
    /\ \A n \in Serials :
          /\ badge[n] # NoCard /\ badge[n].status \notin LIVE_BADGE_STATUSES
          /\ badge'[n].status \in LIVE_BADGE_STATUSES
          => \E k \in Counters :
                /\ counter[k] # counter'[k]
                /\ \/ counter[k].of = n /\ counter[k].row.status \in LIVE_BADGE_STATUSES
                   \/ counter[k].at = "insert" /\ counter[k].serial = n
===============================================================================
