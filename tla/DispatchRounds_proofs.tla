---------------------------- MODULE DispatchRounds_proofs ---------------------------
(***************************************************************************)
(* Drivers and the searches that ring them, for any number of rides,       *)
(* drivers, rounds and tiers.                                              *)
(*                                                                         *)
(* The argument: a run that was not stopped from outside walks a driver    *)
(* from reserved through ringing to an open offer and never lists one      *)
(* twice in a round, so releasing a driver at one point never takes the    *)
(* reservation from another; hence every driver it lists carries its key   *)
(* unless the key lapsed, and every key it holds is on a driver it lists.  *)
(***************************************************************************)
EXTENDS DispatchRounds, TLAPS

\* Where a run is tells which of its lists are empty, as long as nothing
\* aborted it, and in a round no driver is listed twice.
RunOK(s) ==
    /\ s.stop \notin Abort \cup {"none"} => s.at = "stopping"
    /\ s.stop \notin Abort =>
          /\ s.at \in {"tier", "waiting"} => s.held = {} /\ s.ringing = {}
          /\ s.at \in {"tier", "reserve", "stopping"} => s.ringing = {} /\ s.open = {}
          /\ s.at = "send" => s.ringing = {}
          /\ s.at = "stopping" /\ s.stop # "threw" => s.held = {}
    /\ s.stop = "none" =>
          /\ s.open \subseteq s.rung
          /\ (s.queue \cup s.held \cup s.ringing) \cap s.rung = {}
          /\ s.held \cap s.ringing = {}
          /\ s.queue \cap s.held = {}
          /\ s.at # "reserve" => s.queue = {}

\* The drivers a run lists.
Listed(r) == search[r].held \cup search[r].ringing \cup search[r].open

\* The keys of r and the lists of its run.
OwnOK(r) ==
    /\ rideState[r] = "none" => /\ ~Running(r) /\ closing[r] = "no"
                                /\ \A d \in SearchDrivers : owner[d] # r
    /\ closing[r] \in {"cancel", "cancelled"} /\ Running(r) => search[r].stop # "none"
    /\ Running(r) /\ search[r].stop = "none" /\ closing[r] = "no" =>
          \A d \in Listed(r) \ search[r].said_no : owner[d] = r \/ d \in lapsed
    /\ Running(r) /\ search[r].stop \notin Abort \cup {"threw"} =>
          \A d \in SearchDrivers : owner[d] = r => d \in Listed(r)

RoundsInv ==
    /\ RoundsTypeOK
    /\ \A r \in SearchRides : RunOK(search[r]) /\ OwnOK(r)

-------------------------------------------------------------------------------
(* What a step of one ride has to show *)

\* The keys a step of r may touch: its own, and free ones it takes.
OnlyOwnKeys(r) ==
    \A d \in SearchDrivers :
       \/ owner'[d] = owner[d]
       \/ owner[d] = r /\ owner'[d] = NoOwner
       \/ owner[d] = NoOwner /\ owner'[d] = r

LEMMA Elsewhere ==
    ASSUME RoundsInv, NEW r \in SearchRides, NEW q \in SearchRides, q # r,
           search'[q] = search[q], rideState'[q] = rideState[q], closing'[q] = closing[q],
           lapsed' = lapsed, OnlyOwnKeys(r)
    PROVE  RunOK(search[q])' /\ OwnOK(q)'
<1>1. \A d \in SearchDrivers : owner'[d] = q <=> owner[d] = q
  BY RoundsAssumption DEF OnlyOwnKeys
<1>2. RunOK(search[q])'
  BY DEF RoundsInv, RunOK
<1>3. Listed(q) \subseteq SearchDrivers
  BY DEF Listed, RoundsInv, RoundsTypeOK, SearchRun
<1>4. OwnOK(q)'
  BY <1>1, <1>3 DEF RoundsInv, OwnOK, Running, Listed
<1> QED
  BY <1>2, <1>4

LEMMA StepKeeps ==
    ASSUME RoundsInv, NEW r \in SearchRides, NEW new \in SearchRun,
           search' = [search EXCEPT ![r] = new], RunOK(new), OwnOK(r)',
           owner' \in [SearchDrivers -> SearchRides \cup {NoOwner}], OnlyOwnKeys(r),
           rideState' \in [SearchRides -> {"none", "searching", "controlled", "taken", "ended"}],
           \A q \in SearchRides : q # r => rideState'[q] = rideState[q],
           notified' \in [SearchRides -> SUBSET SearchDrivers],
           closing' \in [SearchRides -> {"no", "accept", "cancel", "cancelled"}],
           \A q \in SearchRides : q # r => closing'[q] = closing[q],
           lapsed' = lapsed
    PROVE  RoundsInv'
<1>1. /\ search'[r] = new
      /\ \A q \in SearchRides : q # r => search'[q] = search[q]
      /\ search' \in [SearchRides -> SearchRun]
  BY DEF RoundsInv, RoundsTypeOK
<1>2. RoundsTypeOK'
  BY <1>1 DEF RoundsInv, RoundsTypeOK
<1>3. RunOK(search[r])'
  BY <1>1 DEF RunOK
<1>4. \A q \in SearchRides : q # r => RunOK(search[q])' /\ OwnOK(q)'
  BY <1>1, Elsewhere
<1> QED
  BY <1>2, <1>3, <1>4 DEF RoundsInv

\* RELEASE_IF_OWNER.
LEMMA ReleaseEffect ==
    ASSUME RoundsTypeOK, NEW r \in SearchRides, NEW D, owner' = ReleasedOf(r, D)
    PROVE  /\ owner' \in [SearchDrivers -> SearchRides \cup {NoOwner}]
           /\ OnlyOwnKeys(r)
           /\ \A d \in SearchDrivers : owner'[d] = r <=> owner[d] = r /\ d \notin D
BY RoundsAssumption DEF ReleasedOf, OnlyOwnKeys, RoundsTypeOK

LEMMA SameKeys ==
    ASSUME RoundsTypeOK, NEW r, owner' = owner
    PROVE  owner' \in [SearchDrivers -> SearchRides \cup {NoOwner}] /\ OnlyOwnKeys(r)
BY DEF OnlyOwnKeys, RoundsTypeOK

\* The next tier, the next round, or the end of the run: its lists stay.
LEMMA NextTierEffect ==
    ASSUME NEW s \in SearchRun
    PROVE  /\ NextTier(s) \in SearchRun
           /\ NextTier(s).at \in {"tier", "stopping"}
           /\ NextTier(s).stop = s.stop /\ NextTier(s).queue = s.queue
           /\ NextTier(s).held = s.held /\ NextTier(s).ringing = s.ringing
           /\ NextTier(s).open = s.open /\ NextTier(s).said_no = s.said_no
           /\ NextTier(s).rung \in {s.rung, {}}
<1>1. CASE s.stop \in Abort \/ (s.tier = MaxTiers /\ s.round = MaxRounds)
  BY <1>1 DEF NextTier, SearchRun, RunPoint
<1>2. CASE ~(s.stop \in Abort \/ (s.tier = MaxTiers /\ s.round = MaxRounds)) /\ s.tier < MaxTiers
  <2>1. s.tier + 1 \in 0..MaxTiers
    BY <1>2, RoundsAssumption DEF SearchRun
  <2>2. NextTier(s) = [s EXCEPT !.at = "tier", !.tier = s.tier + 1]
    BY <1>2 DEF NextTier
  <2> QED
    BY <2>1, <2>2 DEF SearchRun, RunPoint
<1>3. CASE ~(s.stop \in Abort \/ (s.tier = MaxTiers /\ s.round = MaxRounds)) /\ ~(s.tier < MaxTiers)
  <2>1. s.round + 1 \in 0..MaxRounds /\ 1 \in 0..MaxTiers
    BY <1>3, RoundsAssumption DEF SearchRun
  <2>2. NextTier(s) = [s EXCEPT !.at = "tier", !.tier = 1, !.round = s.round + 1, !.rung = {}]
    BY <1>3 DEF NextTier
  <2> QED
    BY <2>1, <2>2 DEF SearchRun, RunPoint
<1> QED
  BY <1>1, <1>2, <1>3

LEMMA NextTierOK ==
    ASSUME NEW s \in SearchRun, s.stop \in Abort \cup {"none"},
           s.stop = "none" => s.queue = {} /\ s.held = {} /\ s.ringing = {} /\ s.open = {}
    PROVE  RunOK(NextTier(s))
BY NextTierEffect DEF RunOK, Abort

-------------------------------------------------------------------------------
(* The steps of a run *)

LEMMA StartSearchKeeps ==
    ASSUME RoundsInv, NEW r \in SearchRides, StartSearch(r)
    PROVE  RoundsInv'
<1> DEFINE new == [NotStarted EXCEPT !.at = "tier", !.round = 1, !.tier = 1]
<1>1. 0 \in 0..MaxRounds /\ 1 \in 0..MaxRounds /\ 0 \in 0..MaxTiers /\ 1 \in 0..MaxTiers
  BY RoundsAssumption
<1>2. /\ new \in SearchRun /\ new.at = "tier" /\ new.stop = "none" /\ new.queue = {}
      /\ new.held = {} /\ new.ringing = {} /\ new.open = {} /\ new.rung = {}
  BY <1>1 DEF NotStarted, SearchRun, RunPoint, Stop
<1>3. /\ rideState[r] = "none" /\ search' = [search EXCEPT ![r] = new]
      /\ rideState' = [rideState EXCEPT ![r] = "searching"]
      /\ UNCHANGED <<owner, notified, closing, lapsed>>
  BY DEF StartSearch, Move
<1> HIDE DEF new
<1>4. RunOK(new)
  BY <1>2 DEF RunOK
<1>5. search'[r] = new /\ rideState'[r] = "searching"
  BY <1>3 DEF RoundsInv, RoundsTypeOK
<1>6. OwnOK(r)'
  BY <1>2, <1>3, <1>5 DEF RoundsInv, OwnOK, Running, Listed
<1> QED
  BY <1>2, <1>3, <1>4, <1>6, SameKeys, StepKeeps DEF RoundsInv, RoundsTypeOK

\* A step that moves r's run and touches no key: its lists may only shrink to
\* what the run still owns, and it is not stopped from within.
LEMMA MoveKeeps ==
    ASSUME RoundsInv, NEW r \in SearchRides, NEW new \in SearchRun, Move(r, new),
           RunOK(new), new.at # "off", Running(r),
           new.stop = "none" => search[r].stop = "none",
           new.stop \notin Abort \cup {"threw"} => search[r].stop \notin Abort \cup {"threw"},
           new.stop \notin Abort \cup {"threw"} =>
              new.held \cup new.ringing \cup new.open = Listed(r),
           search[r].said_no = new.said_no,
           UNCHANGED <<rideState, owner, closing, lapsed>>,
           notified' \in [SearchRides -> SUBSET SearchDrivers]
    PROVE  RoundsInv'
<1>1. search' = [search EXCEPT ![r] = new] /\ search'[r] = new
  BY DEF Move, RoundsInv, RoundsTypeOK
<1>2. OwnOK(r)'
  BY <1>1 DEF RoundsInv, OwnOK, Running, Listed, Abort
<1> QED
  BY <1>1, <1>2, SameKeys, StepKeeps DEF RoundsInv, RoundsTypeOK

LEMMA GateStopsKeeps ==
    ASSUME RoundsInv, NEW r \in SearchRides, GateStops(r)
    PROVE  RoundsInv'
<1> DEFINE reason == IF Aborted(r) THEN search[r].stop
                     ELSE IF rideState[r] = "controlled" THEN "operations_control"
                     ELSE "assigned_elsewhere"
           new == [search[r] EXCEPT !.at = "stopping", !.stop = reason]
<1>1. /\ search[r] \in SearchRun /\ RunOK(search[r]) /\ search[r].at = "tier"
      /\ UNCHANGED <<rideState, owner, notified, closing, lapsed>>
      /\ Move(r, new)
  BY DEF GateStops, At, RoundsInv, RoundsTypeOK
<1>2. /\ reason \in Stop /\ reason # "none" /\ reason # "threw"
      /\ reason \in Abort <=> Aborted(r)
      /\ Aborted(r) => reason = search[r].stop
  BY DEF Stop, Abort, Aborted
<1> HIDE DEF reason
<1>3. /\ new \in SearchRun /\ new.at = "stopping" /\ new.stop = reason
      /\ new.queue = search[r].queue /\ new.held = search[r].held
      /\ new.ringing = search[r].ringing /\ new.open = search[r].open
      /\ new.said_no = search[r].said_no /\ new.rung = search[r].rung
  BY <1>1, <1>2 DEF SearchRun, RunPoint
<1> HIDE DEF new
<1>4. ~Aborted(r) => search[r].stop = "none"
  BY <1>1 DEF RunOK, Aborted
<1>5. RunOK(new)
  BY <1>1, <1>2, <1>3 DEF RunOK, Aborted
<1> QED
  BY <1>1, <1>2, <1>3, <1>4, <1>5, MoveKeeps
     DEF Running, Listed, Aborted, Abort, RoundsInv, RoundsTypeOK

LEMMA DiscoverKeeps ==
    ASSUME RoundsInv, NEW r \in SearchRides, Discover(r)
    PROVE  RoundsInv'
<1>1. /\ search[r] \in SearchRun /\ RunOK(search[r]) /\ search[r].at = "tier"
      /\ search[r].stop = "none"
      /\ UNCHANGED <<rideState, owner, notified, closing, lapsed>>
  BY DEF Discover, At, Aborted, RunOK, RoundsInv, RoundsTypeOK
<1>2. /\ search[r].held = {} /\ search[r].ringing = {} /\ search[r].open = {}
      /\ search[r].queue = {}
  BY <1>1 DEF RunOK, Abort
<1>3. CASE Move(r, NextTier(search[r]))
  BY <1>1, <1>2, <1>3, NextTierEffect, NextTierOK, MoveKeeps
     DEF Running, Listed, RoundsInv, RoundsTypeOK, Abort
<1>4. ASSUME NEW D \in SUBSET MayContact(r),
             Move(r, [search[r] EXCEPT !.at = "reserve", !.queue = D])
      PROVE  RoundsInv'
  <2> DEFINE new == [search[r] EXCEPT !.at = "reserve", !.queue = D]
  <2>1. D \subseteq SearchDrivers /\ D \cap search[r].rung = {}
    BY DEF MayContact
  <2>2. /\ new \in SearchRun /\ new.at = "reserve" /\ new.stop = "none"
        /\ new.queue = D /\ new.held = {} /\ new.ringing = {} /\ new.open = {}
        /\ new.said_no = search[r].said_no /\ new.rung = search[r].rung
    BY <1>1, <1>2, <2>1 DEF SearchRun, RunPoint
  <2> HIDE DEF new
  <2>3. RunOK(new)
    BY <2>1, <2>2 DEF RunOK
  <2>4. Move(r, new)
    BY <1>4 DEF new
  <2> QED
    BY <1>1, <1>2, <2>2, <2>3, <2>4, MoveKeeps
       DEF Running, Listed, RoundsInv, RoundsTypeOK, Abort
<1> QED
  BY <1>3, <1>4 DEF Discover

LEMMA NextOfferKeeps ==
    ASSUME RoundsInv, NEW r \in SearchRides, NextOffer(r)
    PROVE  RoundsInv'
<1>1. /\ search[r] \in SearchRun /\ RunOK(search[r]) /\ search[r].at = "send"
      /\ search[r].stop \in Abort \cup {"none"}
      /\ UNCHANGED <<rideState, owner, notified, closing, lapsed>>
  BY DEF NextOffer, At, RunOK, RoundsInv, RoundsTypeOK
<1>2. ASSUME NEW d \in search[r].held, ~Aborted(r),
             Move(r, [search[r] EXCEPT !.at = "building", !.held = @ \ {d}, !.ringing = {d}])
      PROVE  RoundsInv'
  <2> DEFINE new == [search[r] EXCEPT !.at = "building", !.held = search[r].held \ {d},
                                      !.ringing = {d}]
  <2>1. /\ new \in SearchRun /\ new.at = "building" /\ new.stop = search[r].stop
        /\ new.queue = search[r].queue /\ new.held = search[r].held \ {d}
        /\ new.ringing = {d} /\ new.open = search[r].open
        /\ new.said_no = search[r].said_no /\ new.rung = search[r].rung
    BY <1>1 DEF SearchRun, RunPoint
  <2>2. Move(r, new)
    BY <1>2
  <2> HIDE DEF new
  <2>3. search[r].stop = "none" /\ search[r].ringing = {}
    BY <1>1, <1>2 DEF Aborted, RunOK, Abort
  <2>4. RunOK(new)
    BY <1>1, <2>1, <2>3 DEF RunOK, Abort
  <2>5. new.held \cup new.ringing \cup new.open = Listed(r)
    BY <2>1, <2>3 DEF Listed
  <2> QED
    BY <1>1, <2>1, <2>2, <2>3, <2>4, <2>5, MoveKeeps DEF Running, RoundsInv, RoundsTypeOK
<1>3. CASE /\ search[r].open # {} /\ ~Aborted(r) /\ search[r].held = {}
           /\ Move(r, [search[r] EXCEPT !.at = "waiting"])
  <2> DEFINE new == [search[r] EXCEPT !.at = "waiting"]
  <2>1. /\ new \in SearchRun /\ new.at = "waiting" /\ new.stop = search[r].stop
        /\ new.queue = search[r].queue /\ new.held = search[r].held
        /\ new.ringing = search[r].ringing /\ new.open = search[r].open
        /\ new.said_no = search[r].said_no /\ new.rung = search[r].rung
    BY <1>1 DEF SearchRun, RunPoint
  <2>2. Move(r, new)
    BY <1>3
  <2> HIDE DEF new
  <2>3. search[r].stop = "none"
    BY <1>1, <1>3 DEF Aborted
  <2>4. RunOK(new)
    BY <1>1, <1>3, <2>1, <2>3 DEF RunOK, Abort
  <2> QED
    BY <1>1, <2>1, <2>2, <2>3, <2>4, MoveKeeps DEF Running, Listed, RoundsInv, RoundsTypeOK
<1>4. CASE /\ Aborted(r) \/ (search[r].held = {} /\ search[r].open = {})
           /\ Move(r, NextTier(search[r]))
  <2>1. RunOK(NextTier(search[r]))
    BY <1>1, <1>4, NextTierOK DEF RunOK, Aborted, Abort
  <2> QED
    BY <1>1, <1>4, <2>1, NextTierEffect, MoveKeeps
       DEF Running, Listed, RoundsInv, RoundsTypeOK, Abort
<1> QED
  BY <1>2, <1>3, <1>4 DEF NextOffer

LEMMA RingKeeps ==
    ASSUME RoundsInv, NEW r \in SearchRides, Ring(r)
    PROVE  RoundsInv'
<1> DEFINE new == [search[r] EXCEPT !.at = "pushing"]
<1>1. /\ search[r] \in SearchRun /\ RunOK(search[r]) /\ search[r].at = "building"
      /\ search[r].stop \in Abort \cup {"none"}
      /\ UNCHANGED <<rideState, owner, closing, lapsed>>
      /\ Move(r, new)
      /\ notified' \in [SearchRides -> SUBSET SearchDrivers]
  BY DEF Ring, At, RunOK, RoundsInv, RoundsTypeOK, SearchRun
<1>2. /\ new \in SearchRun /\ new.at = "pushing" /\ new.stop = search[r].stop
      /\ new.queue = search[r].queue /\ new.held = search[r].held
      /\ new.ringing = search[r].ringing /\ new.open = search[r].open
      /\ new.said_no = search[r].said_no /\ new.rung = search[r].rung
  BY <1>1 DEF SearchRun, RunPoint
<1> HIDE DEF new
<1>3. RunOK(new)
  BY <1>1, <1>2 DEF RunOK, Abort
<1> QED
  BY <1>1, <1>2, <1>3, MoveKeeps DEF Running, Listed, RoundsInv, RoundsTypeOK

LEMMA OfferSentKeeps ==
    ASSUME RoundsInv, NEW r \in SearchRides, OfferSent(r)
    PROVE  RoundsInv'
<1> DEFINE new == [search[r] EXCEPT !.at = "send", !.ringing = {},
                      !.open = search[r].open \cup search[r].ringing,
                      !.rung = search[r].rung \cup search[r].ringing]
<1>1. /\ search[r] \in SearchRun /\ RunOK(search[r]) /\ search[r].at = "pushing"
      /\ search[r].stop \in Abort \cup {"none"}
      /\ UNCHANGED <<rideState, owner, notified, closing, lapsed>>
      /\ Move(r, new)
  BY DEF OfferSent, At, RunOK, RoundsInv, RoundsTypeOK
<1>2. /\ new \in SearchRun /\ new.at = "send" /\ new.stop = search[r].stop
      /\ new.queue = search[r].queue /\ new.held = search[r].held
      /\ new.ringing = {} /\ new.open = search[r].open \cup search[r].ringing
      /\ new.said_no = search[r].said_no /\ new.rung = search[r].rung \cup search[r].ringing
  BY <1>1 DEF SearchRun, RunPoint
<1> HIDE DEF new
<1>3. RunOK(new)
  BY <1>1, <1>2 DEF RunOK, Abort
<1>4. new.held \cup new.ringing \cup new.open = Listed(r)
  BY <1>2 DEF Listed
<1> QED
  BY <1>1, <1>2, <1>3, <1>4, MoveKeeps DEF Running, RoundsInv, RoundsTypeOK

LEMMA RunThrowsKeeps ==
    ASSUME RoundsInv, NEW r \in SearchRides, RunThrows(r)
    PROVE  RoundsInv'
<1> DEFINE reason == IF Aborted(r) THEN search[r].stop ELSE "threw"
           new == [search[r] EXCEPT !.at = "stopping", !.stop = reason]
<1>1. /\ search[r] \in SearchRun /\ RunOK(search[r]) /\ search[r].at \in {"tier", "reserve"}
      /\ UNCHANGED <<rideState, owner, notified, closing, lapsed>>
      /\ Move(r, new)
  BY DEF RunThrows, RoundsInv, RoundsTypeOK
<1>2. /\ reason \in Abort \cup {"threw"}
      /\ reason \in Abort => Aborted(r) /\ reason = search[r].stop
      /\ reason = "threw" => ~Aborted(r)
  BY DEF Aborted, Abort
<1> HIDE DEF reason
<1>3. /\ new \in SearchRun /\ new.at = "stopping" /\ new.stop = reason
      /\ new.queue = search[r].queue /\ new.held = search[r].held
      /\ new.ringing = search[r].ringing /\ new.open = search[r].open
      /\ new.said_no = search[r].said_no
  BY <1>1, <1>2 DEF SearchRun, RunPoint, Stop
<1> HIDE DEF new
<1>4. RunOK(new)
  BY <1>1, <1>2, <1>3 DEF RunOK, Aborted, Abort
<1> QED
  BY <1>1, <1>2, <1>3, <1>4, MoveKeeps DEF Running, RoundsInv, RoundsTypeOK, Abort

LEMMA ReserveKeeps ==
    ASSUME RoundsInv, NEW r \in SearchRides, Reserve(r)
    PROVE  RoundsInv'
<1>1. /\ search[r] \in SearchRun /\ RunOK(search[r]) /\ OwnOK(r) /\ search[r].at = "reserve"
      /\ search[r].stop \in Abort \cup {"none"}
      /\ UNCHANGED <<rideState, notified, closing, lapsed>>
  BY DEF Reserve, At, RunOK, RoundsInv, RoundsTypeOK
<1> PICK d \in search[r].queue, fresh \in BOOLEAN :
      LET won == fresh /\ owner[d] = NoOwner
          s   == [search[r] EXCEPT !.queue = @ \ {d},
                                   !.held = IF won THEN @ \cup {d} ELSE @]
      IN  /\ owner' = IF won THEN [owner EXCEPT ![d] = r] ELSE owner
          /\ Move(r, IF s.queue # {} THEN s
                     ELSE IF s.held = {} THEN NextTier(s)
                     ELSE [s EXCEPT !.at = "send"])
  BY DEF Reserve
<1> DEFINE won == fresh /\ owner[d] = NoOwner
           held == IF won THEN search[r].held \cup {d} ELSE search[r].held
           s == [search[r] EXCEPT !.queue = search[r].queue \ {d}, !.held = held]
           new == IF s.queue # {} THEN s
                  ELSE IF s.held = {} THEN NextTier(s)
                  ELSE [s EXCEPT !.at = "send"]
<1>2. d \in SearchDrivers
  BY <1>1 DEF SearchRun
<1>3. held \subseteq search[r].held \cup {d} /\ search[r].held \subseteq held
  OBVIOUS
<1>4. Move(r, new)
  OBVIOUS
<1>5. owner' = IF won THEN [owner EXCEPT ![d] = r] ELSE owner
  OBVIOUS
<1>6. \A x \in held : x \in search[r].held \/ (won /\ x = d)
  OBVIOUS
<1>7. won => owner[d] = NoOwner /\ d \in held
  OBVIOUS
<1> HIDE DEF won, held
<1>8. /\ s \in SearchRun /\ s.at = "reserve" /\ s.stop = search[r].stop
      /\ s.queue = search[r].queue \ {d} /\ s.held = held
      /\ s.ringing = search[r].ringing /\ s.open = search[r].open
      /\ s.said_no = search[r].said_no /\ s.rung = search[r].rung
  BY <1>1, <1>2, <1>3 DEF SearchRun
<1> HIDE DEF s
<1>9. RunOK(s)
  BY <1>1, <1>3, <1>8 DEF RunOK, Abort
<1>10. /\ new \in SearchRun /\ RunOK(new) /\ new.at # "off" /\ new.stop = search[r].stop
       /\ new.held = held /\ new.ringing = search[r].ringing /\ new.open = search[r].open
       /\ new.said_no = search[r].said_no
  <2>1. CASE s.queue # {}
    BY <1>8, <1>9, <2>1
  <2>2. CASE s.queue = {} /\ s.held = {}
    <3>1. RunOK(NextTier(s))
      BY <1>1, <1>8, <1>9, <2>2, NextTierOK DEF RunOK, Abort
    <3> QED
      BY <1>8, <2>2, <3>1, NextTierEffect
  <2>3. CASE s.queue = {} /\ s.held # {}
    <3> DEFINE sending == [s EXCEPT !.at = "send"]
    <3>1. /\ sending \in SearchRun /\ sending.at = "send" /\ sending.stop = s.stop
          /\ sending.queue = s.queue /\ sending.held = s.held
          /\ sending.ringing = s.ringing /\ sending.open = s.open
          /\ sending.said_no = s.said_no /\ sending.rung = s.rung
      BY <1>8 DEF SearchRun, RunPoint
    <3>2. new = sending
      BY <2>3
    <3> HIDE DEF sending, new
    <3>3. RunOK(sending)
      BY <1>1, <1>8, <1>9, <2>3, <3>1 DEF RunOK, Abort
    <3> QED
      BY <1>8, <3>1, <3>2, <3>3
  <2> QED
    BY <2>1, <2>2, <2>3
<1> HIDE DEF new
<1>11. /\ owner' \in [SearchDrivers -> SearchRides \cup {NoOwner}]
       /\ OnlyOwnKeys(r)
       /\ \A x \in SearchDrivers : owner'[x] = r <=> owner[x] = r \/ (won /\ x = d)
  BY <1>2, <1>5, <1>7, RoundsAssumption DEF OnlyOwnKeys, RoundsInv, RoundsTypeOK
<1>12. search' = [search EXCEPT ![r] = new] /\ search'[r] = new
  BY <1>4 DEF Move, RoundsInv, RoundsTypeOK
<1>13. Listed(r)' = held \cup search[r].ringing \cup search[r].open
  BY <1>10, <1>12 DEF Listed
<1>14. Listed(r) \subseteq SearchDrivers
  BY <1>1 DEF Listed, SearchRun
<1>15. OwnOK(r)'
  <2>1. \A x \in Listed(r)' : x \in Listed(r) \/ (won /\ x = d)
    BY <1>6, <1>13 DEF Listed
  <2>2. Running(r) /\ Running(r)' /\ search'[r].stop = search[r].stop
        /\ search'[r].said_no = search[r].said_no
    BY <1>1, <1>10, <1>12 DEF Running
  <2>3. rideState'[r] # "none"
    BY <1>1, <2>2 DEF OwnOK
  <2>4. closing[r] = closing'[r] /\ lapsed' = lapsed
    BY <1>1
  <2>5. search[r].stop = "none" /\ closing[r] = "no" =>
          \A x \in Listed(r)' \ search[r].said_no : owner'[x] = r \/ x \in lapsed
    BY <1>1, <1>2, <1>11, <1>14, <2>1, <2>2 DEF OwnOK
  <2>6. search[r].stop \notin Abort \cup {"threw"} =>
          \A x \in SearchDrivers : owner'[x] = r => x \in Listed(r)'
    <3>1. Listed(r) \subseteq Listed(r)'
      BY <1>3, <1>13 DEF Listed
    <3>2. won => d \in Listed(r)'
      BY <1>7, <1>13
    <3> QED
      BY <1>1, <1>11, <2>2, <3>1, <3>2 DEF OwnOK
  <2> QED
    BY <1>1, <2>2, <2>3, <2>4, <2>5, <2>6 DEF OwnOK
<1> QED
  BY <1>1, <1>10, <1>11, <1>12, <1>15, StepKeeps DEF RoundsInv, RoundsTypeOK

\* A step that frees some of r's drivers and takes them off its lists, or
\* leaves them there as people who said no.
LEMMA FreeKeeps ==
    ASSUME RoundsInv, NEW r \in SearchRides, NEW new \in SearchRun, Move(r, new),
           NEW D, owner' = ReleasedOf(r, D),
           RunOK(new), new.at # "off", Running(r), new.stop = search[r].stop,
           new.held \cup new.ringing \cup new.open \subseteq Listed(r),
           search[r].said_no \subseteq new.said_no,
           \A d \in new.held \cup new.ringing \cup new.open :
              search[r].stop = "none" /\ d \in D => d \in new.said_no,
           search[r].stop \notin Abort \cup {"threw"} =>
              Listed(r) \ (new.held \cup new.ringing \cup new.open) \subseteq D,
           UNCHANGED <<rideState, closing, notified, lapsed>>
    PROVE  RoundsInv'
<1>1. search' = [search EXCEPT ![r] = new] /\ search'[r] = new
  BY DEF Move, RoundsInv, RoundsTypeOK
<1>2. /\ owner' \in [SearchDrivers -> SearchRides \cup {NoOwner}]
      /\ OnlyOwnKeys(r)
      /\ \A d \in SearchDrivers : owner'[d] = r <=> owner[d] = r /\ d \notin D
  BY ReleaseEffect DEF RoundsInv
<1>3. Listed(r)' = new.held \cup new.ringing \cup new.open /\ Listed(r) \subseteq SearchDrivers
  BY <1>1 DEF Listed, RoundsInv, RoundsTypeOK, SearchRun
<1>4. OwnOK(r) /\ rideState[r] # "none"
  BY DEF RoundsInv, OwnOK
<1>5. search[r].stop = "none" /\ closing[r] = "no" =>
        \A d \in Listed(r)' \ new.said_no : owner'[d] = r \/ d \in lapsed
  BY <1>2, <1>3, <1>4 DEF OwnOK
<1>6. search[r].stop \notin Abort \cup {"threw"} =>
        \A d \in SearchDrivers : owner'[d] = r => d \in Listed(r)'
  BY <1>2, <1>3, <1>4 DEF OwnOK
<1>7. OwnOK(r)'
  BY <1>1, <1>4, <1>5, <1>6 DEF OwnOK, Running
<1> QED
  BY <1>1, <1>2, <1>7, StepKeeps DEF RoundsInv, RoundsTypeOK

LEMMA OfferFailsKeeps ==
    ASSUME RoundsInv, NEW r \in SearchRides, OfferFails(r)
    PROVE  RoundsInv'
<1> DEFINE new == [search[r] EXCEPT !.at = "send", !.ringing = {}]
<1>1. /\ search[r] \in SearchRun /\ RunOK(search[r])
      /\ search[r].at \in {"building", "pushing"} /\ search[r].stop \in Abort \cup {"none"}
      /\ owner' = ReleasedOf(r, search[r].ringing)
      /\ UNCHANGED <<rideState, notified, closing, lapsed>>
      /\ Move(r, new)
  BY DEF OfferFails, RunOK, RoundsInv, RoundsTypeOK
<1>2. /\ new \in SearchRun /\ new.at = "send" /\ new.stop = search[r].stop
      /\ new.queue = search[r].queue /\ new.held = search[r].held
      /\ new.ringing = {} /\ new.open = search[r].open
      /\ new.said_no = search[r].said_no /\ new.rung = search[r].rung
  BY <1>1 DEF SearchRun, RunPoint
<1> HIDE DEF new
<1>3. RunOK(new)
  BY <1>1, <1>2 DEF RunOK, Abort
<1>4. search[r].stop = "none" =>
        search[r].ringing \cap (new.held \cup new.ringing \cup new.open) = {}
  BY <1>1, <1>2 DEF RunOK
<1>5. Listed(r) \ (new.held \cup new.ringing \cup new.open) \subseteq search[r].ringing
  BY <1>2 DEF Listed
<1>6. new.held \cup new.ringing \cup new.open \subseteq Listed(r)
  BY <1>2 DEF Listed
<1> QED
  BY <1>1, <1>2, <1>3, <1>4, <1>5, <1>6, FreeKeeps DEF Running

LEMMA WindowClosesKeeps ==
    ASSUME RoundsInv, NEW r \in SearchRides, WindowCloses(r)
    PROVE  RoundsInv'
<1>1. /\ search[r] \in SearchRun /\ RunOK(search[r]) /\ search[r].at = "waiting"
      /\ search[r].stop \in Abort \cup {"none"}
      /\ UNCHANGED <<rideState, notified, closing, lapsed>>
  BY DEF WindowCloses, At, RunOK, RoundsInv, RoundsTypeOK
<1>2. CASE Aborted(r)
  <2>1. owner' = owner /\ Move(r, NextTier(search[r]))
    BY <1>2 DEF WindowCloses
  <2>2. RunOK(NextTier(search[r]))
    BY <1>1, <1>2, NextTierOK DEF Aborted, Abort
  <2> QED
    BY <1>1, <1>2, <2>1, <2>2, NextTierEffect, MoveKeeps
       DEF Running, Aborted, Abort, RoundsInv, RoundsTypeOK
<1>3. CASE ~Aborted(r)
  <2> DEFINE s == [search[r] EXCEPT !.open = {}]
  <2>1. owner' = ReleasedOf(r, search[r].open) /\ Move(r, NextTier(s))
    BY <1>3 DEF WindowCloses
  <2>2. /\ s \in SearchRun /\ s.stop = search[r].stop
        /\ s.queue = search[r].queue /\ s.held = search[r].held
        /\ s.ringing = search[r].ringing /\ s.open = {} /\ s.said_no = search[r].said_no
    BY <1>1 DEF SearchRun
  <2> HIDE DEF s
  <2>3. search[r].stop = "none" /\ search[r].held = {} /\ search[r].ringing = {}
        /\ search[r].queue = {}
    BY <1>1, <1>3 DEF Aborted, RunOK, Abort
  <2>4. RunOK(NextTier(s))
    BY <2>2, <2>3, NextTierOK
  <2> DEFINE new == NextTier(s)
  <2>5. /\ new \in SearchRun /\ new.at # "off" /\ new.stop = search[r].stop
        /\ new.held = {} /\ new.ringing = {} /\ new.open = {}
        /\ new.said_no = search[r].said_no
    BY <2>2, <2>3, NextTierEffect
  <2>6. Listed(r) = search[r].open
    BY <2>3 DEF Listed
  <2> HIDE DEF new
  <2> QED
    BY <1>1, <2>1, <2>4, <2>5, <2>6, FreeKeeps DEF Running, new
<1> QED
  BY <1>2, <1>3

LEMMA RejectKeeps ==
    ASSUME RoundsInv, NEW r \in SearchRides, NEW d \in SearchDrivers, Reject(r, d)
    PROVE  RoundsInv'
<1> DEFINE new == [search[r] EXCEPT !.said_no = search[r].said_no \cup {d},
                                    !.open = search[r].open \ {d}]
<1>1. /\ search[r] \in SearchRun /\ RunOK(search[r]) /\ Running(r)
      /\ owner' = ReleasedOf(r, {d})
      /\ UNCHANGED <<rideState, notified, closing, lapsed>>
      /\ Move(r, new)
  BY DEF Reject, RoundsInv, RoundsTypeOK
<1>2. /\ new \in SearchRun /\ new.at = search[r].at /\ new.stop = search[r].stop
      /\ new.queue = search[r].queue /\ new.held = search[r].held
      /\ new.ringing = search[r].ringing /\ new.open = search[r].open \ {d}
      /\ new.said_no = search[r].said_no \cup {d} /\ new.rung = search[r].rung
  BY <1>1 DEF SearchRun
<1> HIDE DEF new
<1>3. RunOK(new)
  BY <1>1, <1>2 DEF RunOK
<1>4. new.held \cup new.ringing \cup new.open \subseteq Listed(r)
  BY <1>2 DEF Listed
<1>5. Listed(r) \ (new.held \cup new.ringing \cup new.open) \subseteq {d}
  BY <1>2 DEF Listed
<1> QED
  BY <1>1, <1>2, <1>3, <1>4, <1>5, FreeKeeps DEF Running

LEMMA FinishRunKeeps ==
    ASSUME RoundsInv, NEW r \in SearchRides, FinishRun(r)
    PROVE  /\ RoundsInv'
           /\ search[r].stop \notin Abort \cup {"threw"} =>
                 \A d \in SearchDrivers : owner'[d] # r
<1>1. /\ RunOK(search[r]) /\ OwnOK(r) /\ search[r].at = "stopping"
      /\ owner' = ReleasedOf(r, notified[r])
      /\ notified' = [notified EXCEPT ![r] = {}]
      /\ Move(r, NotStarted)
      /\ UNCHANGED <<closing, lapsed>>
  BY DEF FinishRun, At, RoundsInv, RoundsTypeOK
<1>2. /\ NotStarted \in SearchRun /\ NotStarted.at = "off" /\ NotStarted.stop = "none"
      /\ RunOK(NotStarted)
  BY RoundsAssumption DEF NotStarted, SearchRun, RunPoint, Stop, RunOK
<1>3. /\ owner' \in [SearchDrivers -> SearchRides \cup {NoOwner}]
      /\ OnlyOwnKeys(r)
      /\ \A d \in SearchDrivers : owner'[d] = r => owner[d] = r
  BY <1>1, ReleaseEffect DEF RoundsInv
<1>4. search[r].stop \notin Abort \cup {"threw"} =>
        \A d \in SearchDrivers : owner'[d] # r
  BY <1>1, <1>3 DEF RunOK, OwnOK, Listed, Running
<1>5. /\ rideState' \in [SearchRides -> {"none", "searching", "controlled", "taken", "ended"}]
      /\ \A q \in SearchRides : q # r => rideState'[q] = rideState[q]
      /\ rideState'[r] # "none"
  <2>1. rideState[r] # "none"
    BY <1>1 DEF OwnOK, Running
  <2> QED
    BY <2>1 DEF FinishRun, RoundsInv, RoundsTypeOK
<1>6. search' = [search EXCEPT ![r] = NotStarted] /\ search'[r] = NotStarted
  BY <1>1 DEF Move, RoundsInv, RoundsTypeOK
<1>7. OwnOK(r)'
  BY <1>2, <1>5, <1>6 DEF OwnOK, Running
<1>8. notified' \in [SearchRides -> SUBSET SearchDrivers]
  BY <1>1 DEF RoundsInv, RoundsTypeOK
<1>9. RoundsInv'
  BY <1>1, <1>2, <1>3, <1>5, <1>6, <1>7, <1>8, StepKeeps DEF RoundsInv, RoundsTypeOK
<1> QED
  BY <1>4, <1>9

-------------------------------------------------------------------------------
(* What happens to a run *)

LEMMA AbortedWithEffect ==
    ASSUME NEW s \in SearchRun, NEW reason \in Abort, RunOK(s)
    PROVE  /\ AbortedWith(s, reason) \in SearchRun
           /\ RunOK(AbortedWith(s, reason))
           /\ AbortedWith(s, reason).at = s.at
           /\ s.at # "off" => AbortedWith(s, reason).stop # "none"
           /\ s.stop # "none" => AbortedWith(s, reason) = s
           /\ AbortedWith(s, reason).stop \in {s.stop, reason}
           /\ AbortedWith(s, reason).held = s.held
           /\ AbortedWith(s, reason).ringing = s.ringing
           /\ AbortedWith(s, reason).open = s.open
           /\ AbortedWith(s, reason).said_no = s.said_no
<1>1. CASE s.at # "off" /\ s.stop = "none"
  <2> DEFINE new == [s EXCEPT !.stop = reason]
  <2>1. /\ new \in SearchRun /\ new.stop = reason /\ new.at = s.at /\ new.held = s.held
        /\ new.ringing = s.ringing /\ new.open = s.open /\ new.said_no = s.said_no
    BY DEF SearchRun, Stop, Abort
  <2>2. AbortedWith(s, reason) = new
    BY <1>1 DEF AbortedWith
  <2>3. reason # "none"
    BY DEF Abort
  <2> HIDE DEF new
  <2>4. RunOK(new)
    BY <2>1, <2>3 DEF RunOK
  <2> QED
    BY <1>1, <2>1, <2>2, <2>3, <2>4
<1>2. CASE ~(s.at # "off" /\ s.stop = "none")
  BY <1>2 DEF AbortedWith
<1> QED
  BY <1>1, <1>2

\* A step that aborts r's run, if it runs, or leaves it as it is, and frees
\* some of r's drivers.  Before it r was being closed, or is closed by it.
LEMMA CloseKeeps ==
    ASSUME RoundsInv, NEW r \in SearchRides, NEW reason \in Abort,
           \/ Move(r, AbortedWith(search[r], reason))
           \/ search' = search /\ (Running(r) => search[r].stop # "none"),
           NEW D, owner' = ReleasedOf(r, D),
           rideState[r] # "none",
           NEW state \in {"searching", "controlled", "taken", "ended"},
           rideState' = [rideState EXCEPT ![r] = state],
           NEW phase \in {"no", "accept", "cancel", "cancelled"},
           closing' = [closing EXCEPT ![r] = phase],
           notified' \in [SearchRides -> SUBSET SearchDrivers],
           lapsed' = lapsed
    PROVE  RoundsInv'
<1> PICK new \in SearchRun :
      /\ search' = [search EXCEPT ![r] = new]
      /\ RunOK(new) /\ new.at = search[r].at
      /\ new.at # "off" => new.stop # "none"
      /\ new.stop \in {search[r].stop, reason}
      /\ new.held = search[r].held /\ new.ringing = search[r].ringing
      /\ new.open = search[r].open
  <2>1. search[r] \in SearchRun /\ RunOK(search[r])
    BY DEF RoundsInv, RoundsTypeOK
  <2>2. CASE Move(r, AbortedWith(search[r], reason))
    <3> DEFINE new == AbortedWith(search[r], reason)
    <3>1. search' = [search EXCEPT ![r] = new]
      BY <2>2 DEF Move
    <3>2. /\ new \in SearchRun /\ RunOK(new) /\ new.at = search[r].at
          /\ search[r].at # "off" => new.stop # "none"
          /\ new.stop \in {search[r].stop, reason}
          /\ new.held = search[r].held /\ new.ringing = search[r].ringing
          /\ new.open = search[r].open
      BY <2>1, AbortedWithEffect
    <3> HIDE DEF new
    <3> QED
      BY <3>1, <3>2
  <2>3. CASE search' = search /\ (Running(r) => search[r].stop # "none")
    <3>1. search' = [search EXCEPT ![r] = search[r]]
      BY <2>3 DEF RoundsInv, RoundsTypeOK
    <3> QED
      BY <2>1, <2>3, <3>1 DEF Running
  <2> QED
    BY <2>2, <2>3
<1>1. search'[r] = new /\ rideState'[r] = state /\ closing'[r] = phase
  BY DEF RoundsInv, RoundsTypeOK
<1>2. /\ owner' \in [SearchDrivers -> SearchRides \cup {NoOwner}]
      /\ OnlyOwnKeys(r)
      /\ \A d \in SearchDrivers : owner'[d] = r => owner[d] = r
  BY ReleaseEffect DEF RoundsInv
<1>3. new.at # "off" /\ new.stop \notin Abort \cup {"threw"} =>
        \A d \in SearchDrivers : owner'[d] = r => d \in Listed(r)'
  BY <1>1, <1>2 DEF RoundsInv, OwnOK, Running, Listed
<1>4. OwnOK(r)'
  BY <1>1, <1>3 DEF OwnOK, Running
<1>5. /\ rideState' \in [SearchRides -> {"none", "searching", "controlled", "taken", "ended"}]
      /\ closing' \in [SearchRides -> {"no", "accept", "cancel", "cancelled"}]
      /\ \A q \in SearchRides : q # r => /\ rideState'[q] = rideState[q]
                                         /\ closing'[q] = closing[q]
  BY DEF RoundsInv, RoundsTypeOK
<1> QED
  BY <1>2, <1>4, <1>5, StepKeeps

\* Keys nobody touches are a release of none.
LEMMA NoneReleased ==
    ASSUME RoundsTypeOK, NEW r, owner' = owner
    PROVE  owner' = ReleasedOf(r, {})
BY DEF ReleasedOf, RoundsTypeOK

LEMMA TakeKeeps ==
    ASSUME RoundsInv, NEW r \in SearchRides, NEW d \in SearchDrivers, Take(r, d)
    PROVE  RoundsInv'
<1>1. /\ rideState[r] \in {"searching", "controlled"}
      /\ rideState' = [rideState EXCEPT ![r] = "taken"]
      /\ closing' = [closing EXCEPT ![r] = "accept"]
      /\ UNCHANGED <<search, owner, notified, lapsed>>
      /\ search[r] \in SearchRun /\ RunOK(search[r])
  BY DEF Take, RoundsInv, RoundsTypeOK
<1>2. /\ search' = [search EXCEPT ![r] = search[r]]
      /\ rideState'[r] = "taken" /\ closing'[r] = "accept"
      /\ closing' \in [SearchRides -> {"no", "accept", "cancel", "cancelled"}]
      /\ rideState' \in [SearchRides -> {"none", "searching", "controlled", "taken", "ended"}]
      /\ \A q \in SearchRides : q # r => /\ rideState'[q] = rideState[q]
                                         /\ closing'[q] = closing[q]
  BY <1>1 DEF RoundsInv, RoundsTypeOK
<1>3. OwnOK(r)'
  BY <1>1, <1>2 DEF RoundsInv, OwnOK, Running, Listed
<1> QED
  BY <1>1, <1>2, <1>3, SameKeys, StepKeeps DEF RoundsInv, RoundsTypeOK

LEMMA TakeCleansKeeps ==
    ASSUME RoundsInv, NEW r \in SearchRides, TakeCleans(r)
    PROVE  RoundsInv'
<1>1. rideState[r] # "none"
  BY DEF TakeCleans, RoundsInv, OwnOK
<1>2. /\ rideState[r] \in {"searching", "controlled", "taken", "ended"}
      /\ rideState' = [rideState EXCEPT ![r] = rideState[r]]
      /\ notified' \in [SearchRides -> SUBSET SearchDrivers]
  BY <1>1 DEF TakeCleans, RoundsInv, RoundsTypeOK
<1> QED
  BY <1>1, <1>2, CloseKeeps DEF TakeCleans, Abort

LEMMA CancelSearchKeeps ==
    ASSUME RoundsInv, NEW r \in SearchRides, CancelSearch(r)
    PROVE  RoundsInv'
<1>1. rideState[r] # "none" /\ notified' \in [SearchRides -> SUBSET SearchDrivers]
  BY DEF CancelSearch, RoundsInv, RoundsTypeOK
<1>2. owner' = ReleasedOf(r, {})
  BY NoneReleased DEF CancelSearch, RoundsInv
<1> QED
  BY <1>1, <1>2, CloseKeeps DEF CancelSearch, Abort

LEMMA CancelTailKeeps ==
    ASSUME RoundsInv, NEW r \in SearchRides, CancelReleases(r) \/ CancelForgets(r)
    PROVE  RoundsInv'
<1>1. closing[r] \in {"cancel", "cancelled"}
  BY DEF CancelReleases, CancelForgets
<1>2. rideState[r] # "none" /\ (Running(r) => search[r].stop # "none")
  BY <1>1 DEF RoundsInv, OwnOK
<1>3. /\ rideState[r] \in {"searching", "controlled", "taken", "ended"}
      /\ rideState' = [rideState EXCEPT ![r] = rideState[r]]
      /\ notified' \in [SearchRides -> SUBSET SearchDrivers]
      /\ search' = search /\ lapsed' = lapsed
  BY <1>2 DEF CancelReleases, CancelForgets, RoundsInv, RoundsTypeOK
<1>4. CASE CancelReleases(r)
  BY <1>2, <1>3, <1>4, CloseKeeps DEF CancelReleases, Abort
<1>5. CASE CancelForgets(r)
  <2>1. owner' = ReleasedOf(r, {})
    BY <1>5, NoneReleased DEF CancelForgets, RoundsInv
  <2> QED
    BY <1>2, <1>3, <1>5, <2>1, CloseKeeps DEF CancelForgets, Abort
<1> QED
  BY <1>4, <1>5

LEMMA LifetimeTimerKeeps ==
    ASSUME RoundsInv, NEW r \in SearchRides, LifetimeTimer(r)
    PROVE  RoundsInv'
<1>1. rideState[r] # "none"
  BY DEF LifetimeTimer, RoundsInv, OwnOK
<1>2. /\ rideState[r] \in {"searching", "controlled", "taken", "ended"}
      /\ rideState' = [rideState EXCEPT ![r] = rideState[r]]
      /\ closing[r] \in {"no", "accept", "cancel", "cancelled"}
      /\ closing' = [closing EXCEPT ![r] = closing[r]]
      /\ notified' \in [SearchRides -> SUBSET SearchDrivers]
  BY <1>1 DEF LifetimeTimer, RoundsInv, RoundsTypeOK
<1>3. owner' = ReleasedOf(r, {})
  BY NoneReleased DEF LifetimeTimer, RoundsInv
<1> QED
  BY <1>1, <1>2, <1>3, CloseKeeps DEF LifetimeTimer, Abort

LEMMA TakeControlKeeps ==
    ASSUME RoundsInv, NEW r \in SearchRides, TakeControl(r)
    PROVE  RoundsInv'
<1>1. /\ rideState[r] = "searching"
      /\ rideState' = [rideState EXCEPT ![r] = "controlled"]
      /\ UNCHANGED <<search, owner, notified, closing, lapsed>>
      /\ search[r] \in SearchRun /\ RunOK(search[r])
  BY DEF TakeControl, RoundsInv, RoundsTypeOK
<1>2. /\ search' = [search EXCEPT ![r] = search[r]]
      /\ rideState'[r] = "controlled"
      /\ rideState' \in [SearchRides -> {"none", "searching", "controlled", "taken", "ended"}]
      /\ \A q \in SearchRides : q # r => rideState'[q] = rideState[q]
  BY <1>1 DEF RoundsInv, RoundsTypeOK
<1>3. OwnOK(r)'
  BY <1>1, <1>2 DEF RoundsInv, OwnOK, Running, Listed
<1> QED
  BY <1>1, <1>2, <1>3, SameKeys, StepKeeps DEF RoundsInv, RoundsTypeOK

LEMMA KeyLapsesKeeps ==
    ASSUME RoundsInv, NEW d \in SearchDrivers, KeyLapses(d)
    PROVE  RoundsInv'
<1>1. /\ owner' = [owner EXCEPT ![d] = NoOwner]
      /\ lapsed' = lapsed \cup {d}
      /\ UNCHANGED <<rideState, search, notified, closing>>
  BY DEF KeyLapses
<1>2. RoundsTypeOK'
  BY <1>1 DEF RoundsInv, RoundsTypeOK
<1>3. ASSUME NEW r \in SearchRides
      PROVE  OwnOK(r)'
  <2>1. OwnOK(r) /\ Listed(r) \subseteq SearchDrivers
    BY DEF RoundsInv, RoundsTypeOK, Listed, SearchRun
  <2>2. \A x \in SearchDrivers : /\ owner'[x] = r => owner[x] = r
                                 /\ owner'[x] = owner[x] \/ x \in lapsed'
    BY <1>1, RoundsAssumption DEF RoundsInv, RoundsTypeOK
  <2>3. lapsed \subseteq lapsed' /\ Listed(r)' = Listed(r) /\ Running(r)' = Running(r)
    BY <1>1 DEF Listed, Running
  <2> QED
    BY <1>1, <2>1, <2>2, <2>3 DEF OwnOK
<1> QED
  BY <1>1, <1>2, <1>3 DEF RoundsInv, RunOK

-------------------------------------------------------------------------------

LEMMA RoundsInvInit == RoundsInit => RoundsInv
<1> SUFFICES ASSUME RoundsInit
             PROVE  RoundsInv
  OBVIOUS
<1>1. /\ NotStarted \in SearchRun /\ NotStarted.at = "off" /\ RunOK(NotStarted)
  BY RoundsAssumption DEF NotStarted, SearchRun, RunPoint, Stop, RunOK
<1>2. RoundsTypeOK
  BY <1>1 DEF RoundsInit, RoundsTypeOK
<1>3. \A r \in SearchRides : RunOK(search[r]) /\ OwnOK(r)
  BY <1>1, RoundsAssumption DEF RoundsInit, OwnOK, Running
<1> QED
  BY <1>2, <1>3 DEF RoundsInv

LEMMA RoundsInvStep == RoundsInv /\ [RoundsNext]_roundsVars => RoundsInv'
<1> SUFFICES ASSUME RoundsInv, [RoundsNext]_roundsVars
             PROVE  RoundsInv'
  OBVIOUS
<1>1. CASE UNCHANGED roundsVars
  BY <1>1 DEF roundsVars, RoundsInv, RoundsTypeOK, RunOK, OwnOK, Running, Listed
<1>2. ASSUME NEW r \in SearchRides, RunStep(r)
      PROVE  RoundsInv'
  BY <1>2, GateStopsKeeps, DiscoverKeeps, ReserveKeeps, NextOfferKeeps, RingKeeps,
     OfferSentKeeps, OfferFailsKeeps, WindowClosesKeeps, RunThrowsKeeps, FinishRunKeeps
     DEF RunStep
<1> QED
  BY <1>1, <1>2, StartSearchKeeps, TakeCleansKeeps, CancelSearchKeeps, CancelTailKeeps,
     LifetimeTimerKeeps, TakeControlKeeps, RejectKeeps, TakeKeeps, KeyLapsesKeeps
     DEF RoundsNext

\* The runs, the keys and the lists keep their types: no run passes its last
\* round or tier (DispatchOrchestrator.run, runRound).
THEOREM RoundsTypes == RoundsSpec => []RoundsTypeOK
<1>1. RoundsInv => RoundsTypeOK
  BY DEF RoundsInv
<1> QED
  BY <1>1, RoundsInvInit, RoundsInvStep, PTL DEF RoundsSpec

\* Two searches never ring one driver at the same time, unless his key lapsed
\* under one of them (reserveDriver, DispatchOrchestrator.runRound).
THEOREM NoDoubleRing == RoundsSpec => []RungByOne
<1>1. RoundsInv => RungByOne
  <2> SUFFICES ASSUME RoundsInv, NEW r1 \in SearchRides, NEW r2 \in SearchRides,
                      NEW d \in SearchDrivers,
                      RingingNow(r1, d), RingingNow(r2, d), r1 # r2
               PROVE  d \in lapsed
    BY DEF RungByOne
  <2>1. ASSUME NEW r \in SearchRides, RingingNow(r, d)
        PROVE  owner[d] = r \/ d \in lapsed
    <3>1. search[r].stop = "none"
      BY <2>1 DEF RingingNow, RoundsInv, RunOK, Aborted
    <3> QED
      BY <2>1, <3>1 DEF RingingNow, RoundsInv, OwnOK, Listed
  <2> QED
    BY <2>1
<1> QED
  BY <1>1, RoundsInvInit, RoundsInvStep, PTL DEF RoundsSpec

LEMMA MovedRuns ==
    ASSUME RoundsInv, NEW q \in SearchRides, NEW r \in SearchRides, NEW new,
           Move(q, new), new.at # "off", Running(r)
    PROVE  Running(r)'
BY DEF Move, Running, RoundsInv, RoundsTypeOK

\* Only its own last step ends a run.
LEMMA OnlyFinishEnds ==
    ASSUME RoundsInv, [RoundsNext]_roundsVars, NEW r \in SearchRides,
           Running(r), ~Running(r)'
    PROVE  FinishRun(r)
<1>1. search' # search
  BY DEF Running
<1>2. PICK q \in SearchRides :
         \/ StartSearch(q) \/ RunStep(q) \/ TakeCleans(q) \/ CancelSearch(q) \/ LifetimeTimer(q)
         \/ \E d \in SearchDrivers : Reject(q, d)
  BY <1>1 DEF RoundsNext, roundsVars, CancelReleases, CancelForgets, TakeControl, Take, KeyLapses
<1>3. search[q] \in SearchRun
  BY DEF RoundsInv, RoundsTypeOK
<1> DEFINE Moved == \E new : Move(q, new) /\ new.at # "off"
<1>4. ~Moved
  BY MovedRuns
<1>5. ASSUME GateStops(q) \/ Ring(q) \/ OfferSent(q) \/ OfferFails(q) \/ RunThrows(q)
      PROVE  FALSE
  <2>1. CASE GateStops(q)
    <3> DEFINE new == [search[q] EXCEPT !.at = "stopping",
                         !.stop = IF Aborted(q) THEN @
                                  ELSE IF rideState[q] = "controlled" THEN "operations_control"
                                  ELSE "assigned_elsewhere"]
    <3>1. Move(q, new) /\ new.at = "stopping"
      BY <2>1, <1>3 DEF GateStops, SearchRun
    <3> QED
      BY <3>1, <1>4
  <2>2. CASE Ring(q)
    <3>1. /\ Move(q, [search[q] EXCEPT !.at = "pushing"])
          /\ [search[q] EXCEPT !.at = "pushing"].at = "pushing"
      BY <2>2, <1>3 DEF Ring, SearchRun
    <3> QED
      BY <3>1, <1>4
  <2>3. CASE OfferSent(q)
    <3> DEFINE new == [search[q] EXCEPT !.at = "send", !.ringing = {},
                                        !.open = @ \cup search[q].ringing,
                                        !.rung = @ \cup search[q].ringing]
    <3>1. Move(q, new) /\ new.at = "send"
      BY <2>3, <1>3 DEF OfferSent, SearchRun
    <3> QED
      BY <3>1, <1>4
  <2>4. CASE OfferFails(q)
    <3> DEFINE new == [search[q] EXCEPT !.at = "send", !.ringing = {}]
    <3>1. Move(q, new) /\ new.at = "send"
      BY <2>4, <1>3 DEF OfferFails, SearchRun
    <3> QED
      BY <3>1, <1>4
  <2>5. CASE RunThrows(q)
    <3> DEFINE new == [search[q] EXCEPT !.at = "stopping",
                         !.stop = IF Aborted(q) THEN @ ELSE "threw"]
    <3>1. Move(q, new) /\ new.at = "stopping"
      BY <2>5, <1>3 DEF RunThrows, SearchRun
    <3> QED
      BY <3>1, <1>4
  <2> QED
    BY <1>5, <2>1, <2>2, <2>3, <2>4, <2>5
<1>6. ASSUME Discover(q) \/ NextOffer(q) \/ WindowCloses(q)
      PROVE  FALSE
  <2>1. ASSUME NEW s \in SearchRun, Move(q, NextTier(s))
        PROVE  FALSE
    BY <1>4, <2>1, NextTierEffect
  <2>2. CASE Discover(q)
    <3>1. PICK D \in SUBSET {d \in MayContact(q) : owner[d] \in {NoOwner, q}} :
             Move(q, IF D = {} THEN NextTier(search[q])
                     ELSE [search[q] EXCEPT !.at = "reserve", !.queue = D])
      BY <2>2 DEF Discover
    <3>2. [search[q] EXCEPT !.at = "reserve", !.queue = D].at = "reserve"
      BY <1>3 DEF SearchRun
    <3> QED
      BY <1>3, <1>4, <2>1, <3>1, <3>2
  <2>3. CASE NextOffer(q)
    <3>1. \A d : [search[q] EXCEPT !.at = "building", !.held = @ \ {d}, !.ringing = {d}].at
                   = "building"
      BY <1>3 DEF SearchRun
    <3>2. [search[q] EXCEPT !.at = "waiting"].at = "waiting"
      BY <1>3 DEF SearchRun
    <3> QED
      BY <1>3, <1>4, <2>1, <2>3, <3>1, <3>2 DEF NextOffer
  <2>4. CASE WindowCloses(q)
    <3>1. [search[q] EXCEPT !.open = {}] \in SearchRun
      BY <1>3 DEF SearchRun
    <3> QED
      BY <1>3, <2>1, <2>4, <3>1 DEF WindowCloses
  <2> QED
    BY <1>6, <2>2, <2>3, <2>4
<1>7. ~Reserve(q)
  <2> SUFFICES ASSUME Reserve(q)
               PROVE  FALSE
    OBVIOUS
  <2>1. search[q].at = "reserve"
    BY DEF Reserve, At
  <2>2. PICK d \in search[q].queue, fresh \in BOOLEAN :
          LET won == fresh /\ owner[d] = NoOwner
              s   == [search[q] EXCEPT !.queue = @ \ {d},
                                       !.held = IF won THEN @ \cup {d} ELSE @]
          IN  Move(q, IF s.queue # {} THEN s
                      ELSE IF s.held = {} THEN NextTier(s)
                      ELSE [s EXCEPT !.at = "send"])
    BY DEF Reserve
  <2> DEFINE won == fresh /\ owner[d] = NoOwner
             held == IF won THEN search[q].held \cup {d} ELSE search[q].held
             s == [search[q] EXCEPT !.queue = search[q].queue \ {d}, !.held = held]
  <2>3. held \in SUBSET SearchDrivers
    BY <1>3 DEF SearchRun
  <2>4. Move(q, IF s.queue # {} THEN s
                ELSE IF s.held = {} THEN NextTier(s)
                ELSE [s EXCEPT !.at = "send"])
    BY <2>2
  <2> HIDE DEF held
  <2>5. s \in SearchRun /\ s.at = "reserve"
    BY <1>3, <2>1, <2>3 DEF SearchRun
  <2> HIDE DEF s
  <2>6. [s EXCEPT !.at = "send"].at = "send"
    BY <2>5 DEF SearchRun
  <2> QED
    BY <1>4, <2>4, <2>5, <2>6, NextTierEffect
<1>8. ASSUME TakeCleans(q) \/ CancelSearch(q) \/ LifetimeTimer(q)
      PROVE  FALSE
  <2>1. PICK reason \in Abort : Move(q, AbortedWith(search[q], reason))
    BY <1>8 DEF TakeCleans, CancelSearch, LifetimeTimer, Abort
  <2>2. AbortedWith(search[q], reason).at = search[q].at
    BY <1>3, AbortedWithEffect DEF RoundsInv
  <2>3. search'[r].at = search[r].at
    BY <2>1, <2>2 DEF Move, RoundsInv, RoundsTypeOK
  <2> QED
    BY <2>3 DEF Running
<1>9. ASSUME NEW d \in SearchDrivers, Reject(q, d)
      PROVE  FALSE
  <2> DEFINE new == [search[q] EXCEPT !.said_no = @ \cup {d}, !.open = @ \ {d}]
  <2>1. Move(q, new) /\ new.at = search[q].at /\ search[q].at # "off"
    BY <1>9, <1>3 DEF Reject, Running, SearchRun
  <2> QED
    BY <1>4, <2>1
<1>10. ~StartSearch(q)
  <2> SUFFICES ASSUME StartSearch(q)
               PROVE  FALSE
    OBVIOUS
  <2> DEFINE new == [NotStarted EXCEPT !.at = "tier", !.round = 1, !.tier = 1]
  <2>1. Move(q, new) /\ new.at = "tier"
    BY DEF StartSearch, NotStarted
  <2> QED
    BY <1>4, <2>1
<1>11. FinishRun(q)
  BY <1>2, <1>5, <1>6, <1>7, <1>8, <1>9, <1>10 DEF RunStep
<1>12. q = r
  BY <1>11 DEF FinishRun, Move, Running, RoundsInv, RoundsTypeOK
<1> QED
  BY <1>11, <1>12

\* A search that came to its own end leaves no driver reserved
\* (startDispatchLoop's finally, the releases of the rounds before it).
THEOREM EndsReleased == RoundsSpec => OwnEndFreesDrivers
<1>1. RoundsInv /\ [RoundsNext]_roundsVars =>
        [\A r \in SearchRides, d \in SearchDrivers :
           /\ Running(r) /\ ~Running(r)'
           /\ search[r].stop \notin Abort \cup {"threw"}
           => owner'[d] # r]_roundsVars
  BY OnlyFinishEnds, FinishRunKeeps
<1> QED
  BY <1>1, RoundsInvInit, RoundsInvStep, PTL DEF RoundsSpec, OwnEndFreesDrivers
===============================================================================
