--------------------------- MODULE LiveMonitor_proofs ----------------------------
(*****************************************************************************)
(* What an operator is told of a search, for any number of rides, offers,    *)
(* syncs and frames under way.                                               *)
(*                                                                           *)
(* The argument: a row of the page counts what happened, but for the frames  *)
(* on their way to it; the last of those that tells of the ride's status     *)
(* tells the one it has, unless the run has yet to be told of an acceptance, *)
(* a dispatcher holds the ride, or the page may have it wrong already; and   *)
(* the ledger of the offers adds up.                                         *)
(* For its type the counts are bounded as well: a search records an offer's  *)
(* event once an offer and a ride's once, and a row counts an event in the   *)
(* answer it came in and again in its frame, never a third time.             *)
(*****************************************************************************)
EXTENDS LiveMonitor, FiniteSetTheorems, FunctionTheorems, SequenceTheorems,
        WellFoundedInduction, TLAPS

-----------------------------------------------------------------------------
(* What an operator is told of a search                                     *)

\* Frames of sequence s that say t of ride r.
Numbered(s, r, t) == Cardinality({i \in DOMAIN s : s[i] = FrameSays(r, t)})

\* The events the page counts of a driver's answers, and those that make an
\* offer a sent one.
Counted == {"device_offer_ack", "driver_rejected", "offer_expired",
            "offer_delivery_failed"}
Sending == {"socket_offer_emitted", "fcm_accepted_by_provider"}
Telling == {"dispatch_failed", "ride_cancelled", "driver_accepted"} \cup RideStatus

\* The status a telling frame sets.
Means(says) ==
    CASE says = "dispatch_failed" -> "failed"
      [] says = "ride_cancelled" -> "canceled"
      [] says = "driver_accepted" -> "accepted"
      [] OTHER -> says

SendingIn(s, r) == \E i \in DOMAIN s : s[i].ride = r /\ s[i].says \in Sending
ToldIn(s, r, n) == \E i \in DOMAIN s : i > n /\ s[i].ride = r /\ s[i].says \in Telling

\* The last frame that tells of the ride's status tells this one.
LastToldIn(s, r, status) ==
    \A i \in DOMAIN s :
       s[i].ride = r /\ s[i].says \in Telling /\ ~ToldIn(s, r, i) => Means(s[i].says) = status
WasSent(r) == happened[r]["socket_offer_emitted"] > 0
                \/ happened[r]["fcm_accepted_by_provider"] > 0
Unsettled(r) == sought[r].controlled \/ sought[r].settling

\* A row agrees with what happened, but for the frames under way to it.
CountFits(n, r, t) == n + Numbered(frames, r, t) = happened[r][t]
RowFits(row, r) ==
    /\ CountFits(row.acked, r, "device_offer_ack")
    /\ CountFits(row.rejected, r, "driver_rejected")
    /\ CountFits(row.expired, r, "offer_expired")
    /\ CountFits(row.undelivered, r, "offer_delivery_failed")
    /\ (row.notified > 0 \/ SendingIn(frames, r)) <=> WasSent(r)
    /\ ~Unsettled(r) /\ ~ToldIn(frames, r, 0) => row.status = sought[r].status

\* What the page holds of r, or is about to, may be right.
Heard(r) == \/ r \notin live.slipped
            \/ live.sync.at = "answered" /\ r \notin live.sync.apart
LastTold(r) == ~Unsettled(r) /\ Heard(r) => LastToldIn(frames, r, sought[r].status)

\* What the ledger adds up to: an offer that was queued is still, or failed, or
\* was sent.
OffersSent(r) ==
    happened[r]["notification_queued"] - happened[r]["offer_delivery_failed"]
       - (IF sought[r].offer = "queued" THEN 1 ELSE 0)
LedgerAdds(r) ==
    /\ OffersSent(r) \in Nat /\ (OffersSent(r) > 0 <=> WasSent(r))
    /\ happened[r]["device_offer_ack"] <= 1
    /\ happened[r]["driver_accepted"] > 0 =>
          sought[r].taken /\ sought[r].status \in {"accepted", "canceled"}

\* The run, and an acceptance that is being told.
SearchOK(r) ==
    /\ sought[r].settling =>
          /\ sought[r].taken /\ sought[r].status \in {"accepted", "canceled"}
          /\ sought[r].offer # "queued"
    /\ sought[r].run => \/ sought[r].status = "searching"
                        \/ sought[r].status = "accepted" /\ sought[r].settling

RowTrue(r) == live.rows[r] # NoLine /\ r \notin live.slipped => RowFits(live.rows[r], r)
SyncTrue(r) ==
    live.sync.at = "answered" =>
       (live.sync.rows[r] # NoLine /\ r \notin live.sync.apart => RowFits(live.sync.rows[r], r))

-----------------------------------------------------------------------------

Line == [status : RideStatus, notified : Nat, acked : Nat, rejected : Nat,
         expired : Nat, undelivered : Nat]
Lines == [Monitored -> Line \cup {NoLine}]
Ledger == [Monitored -> [EventType -> Nat]]
Reading == [at : {"found"}, found : [Monitored -> RideStatus]]
Counting == [at : {"counted"}, found : [Monitored -> RideStatus], trail : Ledger]
Answering == [at : {"answered"}, rows : Lines, apart : SUBSET Monitored]
Syncing == {NoSync, [at |-> "asked"]} \cup Reading \cup Counting \cup Answering
Live == [rows : Lines, sync : Syncing, looking : BOOLEAN, syncs : Nat,
         slipped : SUBSET Monitored, leaving : SUBSET Monitored]

Typed ==
    /\ sought \in [Monitored -> Sought] /\ happened \in Ledger /\ saved \in Ledger
    /\ frames \in Seq(Frame) /\ live \in Live

MonitorInv ==
    /\ Typed
    /\ \A r \in Monitored :
          LastTold(r) /\ LedgerAdds(r) /\ SearchOK(r) /\ RowTrue(r) /\ SyncTrue(r)

-----------------------------------------------------------------------------
(* Frames are counted                                                       *)

LEMMA FramesSay ==
    ASSUME NEW s \in Seq(Frame)
    PROVE  /\ Len(s) \in Nat /\ DOMAIN s = 1..Len(s)
           /\ \A i \in DOMAIN s : s[i] \in Frame
<1> HIDE DEF Frame
<1> QED
  OBVIOUS

LEMMA FrameSaysWhat ==
    ASSUME NEW r \in Monitored, NEW t \in EventType \cup RideStatus
    PROVE  /\ FrameSays(r, t) \in Frame /\ FrameSays(r, t).ride = r
           /\ FrameSays(r, t).says = t
           /\ \A k, u : FrameSays(r, t) = FrameSays(k, u) <=> r = k /\ t = u
BY DEF FrameSays, Frame

LEMMA NumberedSays ==
    ASSUME NEW s \in Seq(Frame), NEW r, NEW t
    PROVE  /\ IsFiniteSet({i \in DOMAIN s : s[i] = FrameSays(r, t)})
           /\ Numbered(s, r, t) \in Nat
           /\ (\A i \in DOMAIN s : s[i] # FrameSays(r, t)) => Numbered(s, r, t) = 0
<1> DEFINE A == {i \in DOMAIN s : s[i] = FrameSays(r, t)}
<1>1. Len(s) \in Nat /\ DOMAIN s = 1..Len(s)
  BY FramesSay
<1>2. IsFiniteSet(DOMAIN s) /\ A \in SUBSET DOMAIN s
  BY <1>1, FS_Interval
<1>3. IsFiniteSet(A)
  BY <1>2, FS_Subset
<1>4. Cardinality(A) \in Nat
  BY <1>3, FS_CardinalityType
<1>5. (\A i \in DOMAIN s : s[i] # FrameSays(r, t)) => A = {}
  OBVIOUS
<1> QED
  BY <1>3, <1>4, <1>5, FS_EmptySet DEF Numbered

LEMMA NumberedAppended ==
    ASSUME NEW s \in Seq(Frame), NEW f \in Frame, NEW r, NEW t
    PROVE  Numbered(Append(s, f), r, t)
              = Numbered(s, r, t) + (IF f = FrameSays(r, t) THEN 1 ELSE 0)
<1> DEFINE A == {i \in DOMAIN s : s[i] = FrameSays(r, t)}
           z == Append(s, f)
           B == {i \in DOMAIN z : z[i] = FrameSays(r, t)}
           n == Len(s) + 1
<1>1. Len(s) \in Nat /\ DOMAIN s = 1..Len(s)
  BY FramesSay
<1>2. /\ z \in Seq(Frame) /\ Len(z) = n /\ z[n] = f
      /\ \A i \in 1..Len(s) : z[i] = s[i]
  BY AppendProperties
<1>3. DOMAIN z = 1..n
  BY <1>2, FramesSay
<1>4. IsFiniteSet(A) /\ Cardinality(A) \in Nat
  BY NumberedSays DEF Numbered
<1> HIDE DEF z
<1>5. n \notin A
  BY <1>1
<1>6. CASE f = FrameSays(r, t)
  <2>1. B = A \cup {n}
    BY <1>1, <1>2, <1>3, <1>6
  <2>2. Cardinality(A \cup {n}) = Cardinality(A) + 1
    BY <1>4, <1>5, FS_AddElement
  <2> QED
    BY <1>6, <2>1, <2>2 DEF Numbered, z
<1>7. CASE f # FrameSays(r, t)
  <2>1. B = A
    BY <1>1, <1>2, <1>3, <1>7
  <2>2. Numbered(z, r, t) = Numbered(s, r, t)
    BY <2>1 DEF Numbered
  <2>3. Numbered(s, r, t) \in Nat
    BY NumberedSays
  <2>4. Numbered(z, r, t) = Numbered(s, r, t) + 0
    BY <2>2, <2>3
  <2> QED
    BY <1>7, <2>4 DEF z
<1> QED
  BY <1>6, <1>7

LEMMA NumberedBehind ==
    ASSUME NEW s \in Seq(Frame), s # << >>, NEW z, z = Tail(s),
           NEW r \in Monitored, NEW t \in EventType
    PROVE  /\ Head(s) = FrameSays(r, t) => Numbered(s, r, t) = Numbered(z, r, t) + 1
           /\ Head(s) # FrameSays(r, t) => Numbered(s, r, t) = Numbered(z, r, t)
<1> DEFINE A == {i \in DOMAIN s : s[i] = FrameSays(r, t)}
           B == {i \in DOMAIN z : z[i] = FrameSays(r, t)}
           C == A \ {1}
           f == [i \in B |-> i + 1]
<1>1. Len(s) \in Nat /\ DOMAIN s = 1..Len(s)
  BY FramesSay
<1>2. /\ z \in Seq(Frame) /\ Len(z) = Len(s) - 1 /\ Head(s) = s[1]
      /\ \A i \in 1..Len(z) : z[i] = s[i + 1]
  BY HeadTailProperties
<1>3. DOMAIN z = 1..Len(z) /\ Len(z) \in Nat /\ 1 \in DOMAIN s
  BY <1>1, <1>2, FramesSay
<1>4. IsFiniteSet(B) /\ IsFiniteSet(A) /\ Cardinality(B) \in Nat /\ Cardinality(A) \in Nat
  <2>1. IsFiniteSet(A)
    BY NumberedSays
  <2>2. IsFiniteSet(B)
    <3>1. IsFiniteSet(1..Len(z)) /\ B \in SUBSET (1..Len(z))
      BY <1>3, FS_Interval
    <3> QED
      BY <3>1, FS_Subset
  <2> QED
    BY <2>1, <2>2, FS_CardinalityType
<1>5. \A i \in B : i + 1 \in C
  BY <1>1, <1>2, <1>3
<1>6. \A k \in C : k - 1 \in B /\ (k - 1) + 1 = k
  BY <1>1, <1>2, <1>3
<1>7. \A i, k \in B : i + 1 = k + 1 => i = k
  BY <1>3
<1>8. f \in Bijection(B, C)
  <2> HIDE DEF B, C
  <2>1. f \in [B -> C]
    BY <1>5
  <2>2. \A i, k \in B : f[i] = f[k] => i = k
    BY <1>7
  <2>3. \A c \in C : \E b \in B : f[b] = c
    BY <1>6
  <2> QED
    BY <2>1, <2>2, <2>3, Fun_IsBij
<1>9. Cardinality(C) = Cardinality(B)
  <2>1. ExistsBijection(B, C)
    BY <1>8 DEF ExistsBijection
  <2> QED
    BY <1>4, <2>1, FS_Bijection
<1>10. Cardinality(C) = IF 1 \in A THEN Cardinality(A) - 1 ELSE Cardinality(A)
  BY <1>4, FS_RemoveElement
<1>11. 1 \in A <=> Head(s) = FrameSays(r, t)
  BY <1>2, <1>3
<1>12. /\ Head(s) = FrameSays(r, t) => Cardinality(A) = Cardinality(B) + 1
       /\ Head(s) # FrameSays(r, t) => Cardinality(A) = Cardinality(B)
  <2> HIDE DEF A, B, C
  <2> QED
    BY <1>4, <1>9, <1>10, <1>11
<1>13. Numbered(z, r, t) = Cardinality(B) /\ Numbered(s, r, t) = Cardinality(A)
  BY DEF Numbered
<1> HIDE DEF A, B
<1> QED
  BY <1>12, <1>13

-----------------------------------------------------------------------------
(* Frames are sent                                                          *)

\* From s to z, frames that say T of r were added.
Grown(s, z, r, T) ==
    /\ z \in Seq(Frame)
    /\ \A k \in Monitored, t \in EventType :
          /\ k = r /\ t \in T => Numbered(z, k, t) = Numbered(s, k, t) + 1
          /\ ~(k = r /\ t \in T) => Numbered(z, k, t) = Numbered(s, k, t)
    /\ \A k \in Monitored :
          SendingIn(z, k) <=> SendingIn(s, k) \/ (k = r /\ T \cap Sending # {})
    /\ \A k \in Monitored :
          ToldIn(z, k, 0) <=> ToldIn(s, k, 0) \/ (k = r /\ T \cap Telling # {})
    /\ \A k \in Monitored, status \in RideStatus :
          (k # r \/ T \cap Telling = {}) /\ LastToldIn(s, k, status) => LastToldIn(z, k, status)

LEMMA NoneGrown == ASSUME NEW s \in Seq(Frame), NEW r PROVE Grown(s, s, r, {})
BY DEF Grown

LEMMA AppendedSays ==
    ASSUME NEW s \in Seq(Frame), NEW f \in Frame
    PROVE  /\ Append(s, f) \in Seq(Frame) /\ DOMAIN Append(s, f) = 1..(Len(s) + 1)
           /\ Len(s) \in Nat /\ DOMAIN s = 1..Len(s)
           /\ \A i \in DOMAIN s : Append(s, f)[i] = s[i]
           /\ Append(s, f)[Len(s) + 1] = f
<1> HIDE DEF Frame
<1>1. /\ Append(s, f) \in Seq(Frame) /\ Len(Append(s, f)) = Len(s) + 1
      /\ \A i \in 1..Len(s) : Append(s, f)[i] = s[i]
      /\ Append(s, f)[Len(s) + 1] = f
  BY AppendProperties
<1> QED
  BY <1>1, FramesSay

LEMMA OneGrown ==
    ASSUME NEW s \in Seq(Frame), NEW r \in Monitored, NEW t \in EventType \cup RideStatus
    PROVE  Grown(s, Append(s, FrameSays(r, t)), r, {t})
<1> DEFINE f == FrameSays(r, t)
           z == Append(s, f)
           n == Len(s) + 1
<1>1. f \in Frame /\ f.ride = r /\ f.says = t
  BY FrameSaysWhat
<1>2. /\ z \in Seq(Frame) /\ DOMAIN z = 1..n /\ Len(s) \in Nat /\ DOMAIN s = 1..Len(s)
      /\ \A i \in DOMAIN s : z[i] = s[i]
      /\ z[n] = f /\ n \in DOMAIN z
  BY <1>1, AppendedSays
<1>3. ASSUME NEW k \in Monitored, NEW u \in EventType
      PROVE  Numbered(z, k, u) = Numbered(s, k, u) + (IF k = r /\ u = t THEN 1 ELSE 0)
  <2>1. f = FrameSays(k, u) <=> k = r /\ u = t
    BY FrameSaysWhat
  <2>2. Numbered(z, k, u) = Numbered(s, k, u) + (IF f = FrameSays(k, u) THEN 1 ELSE 0)
    BY <1>1, NumberedAppended
  <2> QED
    BY <2>1, <2>2
<1>4. ASSUME NEW k \in Monitored, NEW u \in EventType
      PROVE  /\ k = r /\ u \in {t} => Numbered(z, k, u) = Numbered(s, k, u) + 1
             /\ ~(k = r /\ u \in {t}) => Numbered(z, k, u) = Numbered(s, k, u)
  <2>1. Numbered(s, k, u) \in Nat
    BY NumberedSays
  <2>2. Numbered(z, k, u) = Numbered(s, k, u) + (IF k = r /\ u = t THEN 1 ELSE 0)
    BY <1>3
  <2> HIDE DEF z
  <2> QED
    BY <2>1, <2>2
<1> HIDE DEF z, f
<1>5. \A i \in DOMAIN z : i \in DOMAIN s \/ i = n
  BY <1>2
<1>6. \A i \in DOMAIN s : i \in DOMAIN z /\ i < n /\ i > 0
  BY <1>2
<1>7. ASSUME NEW k \in Monitored
      PROVE  SendingIn(z, k) <=> SendingIn(s, k) \/ (k = r /\ {t} \cap Sending # {})
  BY <1>1, <1>2, <1>5, <1>6 DEF SendingIn
<1>8. ASSUME NEW k \in Monitored
      PROVE  ToldIn(z, k, 0) <=> ToldIn(s, k, 0) \/ (k = r /\ {t} \cap Telling # {})
  <2>1. n > 0
    BY <1>2
  <2> QED
    BY <1>1, <1>2, <1>5, <1>6, <2>1 DEF ToldIn
<1>9. ASSUME NEW k \in Monitored, NEW status \in RideStatus,
             k # r \/ {t} \cap Telling = {}, LastToldIn(s, k, status)
      PROVE  LastToldIn(z, k, status)
  <2> SUFFICES ASSUME NEW i \in DOMAIN z, z[i].ride = k, z[i].says \in Telling,
                      ~ToldIn(z, k, i)
               PROVE  Means(z[i].says) = status
    BY DEF LastToldIn
  <2>1. i \in DOMAIN s /\ z[i] = s[i]
    BY <1>1, <1>2, <1>5, <1>9
  <2>2. ~ToldIn(s, k, i)
    BY <1>2, <1>6 DEF ToldIn
  <2> QED
    BY <1>9, <2>1, <2>2 DEF LastToldIn
<1>10. Grown(s, z, r, {t})
  BY <1>2, <1>4, <1>7, <1>8, <1>9 DEF Grown
<1> QED
  BY <1>10 DEF z, f

\* The last frame tells.
LEMMA LastIsTold ==
    ASSUME NEW s \in Seq(Frame), NEW r \in Monitored, NEW t \in Telling
    PROVE  LastToldIn(Append(s, FrameSays(r, t)), r, Means(t))
<1> DEFINE f == FrameSays(r, t)
           z == Append(s, f)
           n == Len(s) + 1
<1>1. f \in Frame /\ f.ride = r /\ f.says = t
  BY FrameSaysWhat DEF Telling, EventType
<1>2. /\ DOMAIN z = 1..n /\ Len(s) \in Nat /\ z[n] = f
  BY <1>1, AppendedSays
<1> HIDE DEF z, f
<1>3. ASSUME NEW i \in DOMAIN z, ~ToldIn(z, r, i) PROVE i = n
  BY <1>1, <1>2, <1>3 DEF ToldIn
<1>4. LastToldIn(z, r, Means(t))
  BY <1>1, <1>2, <1>3 DEF LastToldIn
<1> QED
  BY <1>4 DEF z, f

LEMMA TwiceGrown ==
    ASSUME NEW s, NEW z, NEW w, NEW r \in Monitored, NEW t, NEW u, t # u,
           Grown(s, z, r, {t}), Grown(z, w, r, {u})
    PROVE  Grown(s, w, r, {t, u})
<1>1. w \in Seq(Frame)
  BY DEF Grown
<1>2. ASSUME NEW k \in Monitored, NEW v \in EventType
      PROVE  /\ k = r /\ v \in {t, u} => Numbered(w, k, v) = Numbered(s, k, v) + 1
             /\ ~(k = r /\ v \in {t, u}) => Numbered(w, k, v) = Numbered(s, k, v)
  <2>1. /\ k = r /\ v = t => Numbered(z, k, v) = Numbered(s, k, v) + 1
        /\ ~(k = r /\ v = t) => Numbered(z, k, v) = Numbered(s, k, v)
    BY DEF Grown
  <2>2. /\ k = r /\ v = u => Numbered(w, k, v) = Numbered(z, k, v) + 1
        /\ ~(k = r /\ v = u) => Numbered(w, k, v) = Numbered(z, k, v)
    BY DEF Grown
  <2> QED
    BY <2>1, <2>2
<1>3. ASSUME NEW k \in Monitored
      PROVE  SendingIn(w, k) <=> SendingIn(s, k) \/ (k = r /\ {t, u} \cap Sending # {})
  BY DEF Grown
<1>4. ASSUME NEW k \in Monitored
      PROVE  ToldIn(w, k, 0) <=> ToldIn(s, k, 0) \/ (k = r /\ {t, u} \cap Telling # {})
  BY DEF Grown
<1>5. ASSUME NEW k \in Monitored, NEW status \in RideStatus,
             k # r \/ {t, u} \cap Telling = {}, LastToldIn(s, k, status)
      PROVE  LastToldIn(w, k, status)
  BY <1>5 DEF Grown
<1> QED
  BY <1>1, <1>2, <1>3, <1>4, <1>5 DEF Grown

-----------------------------------------------------------------------------
(* The search goes on                                                       *)

\* The events E of r were recorded.
LedgerGrows(r, E) ==
    /\ happened' \in Ledger
    /\ \A k \in Monitored : k # r => happened'[k] = happened[k]
    /\ \A t \in EventType :
          happened'[r][t] = happened[r][t] + (IF t \in E THEN 1 ELSE 0)

LEMMA LedgerSays ==
    ASSUME Typed, NEW r \in Monitored, NEW t \in EventType
    PROVE  happened[r][t] \in Nat /\ happened[r] \in [EventType -> Nat]
<1> HIDE DEF EventType
<1> QED
  BY DEF Typed, Ledger

LEMMA AnsweringSays ==
    ASSUME NEW sync \in Syncing
    PROVE  /\ sync.at = "answered" =>
                 /\ sync \in Answering /\ sync.rows \in Lines
                 /\ sync.apart \in SUBSET Monitored
           /\ sync.at = "found" => sync \in Reading
           /\ sync.at = "counted" => sync \in Counting
<1> HIDE DEF Lines, Ledger
<1> QED
  BY DEF Syncing, NoSync, Reading, Counting, Answering

LEMMA RowOfLine ==
    ASSUME Typed, NEW r \in Monitored
    PROVE  /\ live.rows[r] \in Line \cup {NoLine}
           /\ live.sync.at = "answered" =>
                 live.sync.rows[r] \in Line \cup {NoLine}
<1>1. live.rows \in Lines /\ live.sync \in Syncing
  BY DEF Typed, Live
<1>2. live.sync.at = "answered" => live.sync.rows \in Lines
  BY <1>1, AnsweringSays
<1> HIDE DEF Line
<1> QED
  BY <1>1, <1>2 DEF Lines

\* The page may have a ride wrong, in its rows and in its answer.
LEMMA SlippedSays ==
    ASSUME Typed, NEW r \in Monitored
    PROVE  /\ Slipped(r) \in Live /\ Slipped(r).rows = live.rows
           /\ Slipped(r).slipped = live.slipped \cup {r}
           /\ Slipped(r).sync.at = live.sync.at
           /\ live.sync.at = "answered" => /\ Slipped(r).sync.rows = live.sync.rows
                                           /\ Slipped(r).sync.apart = live.sync.apart \cup {r}
           /\ live.sync.at # "answered" => Slipped(r).sync = live.sync
<1> DEFINE sync == IF live.sync.at = "answered"
                   THEN [live.sync EXCEPT !.apart = live.sync.apart \cup {r}] ELSE live.sync
           slipped == live.slipped \cup {r}
<1>1. live \in Live /\ live.sync \in Syncing /\ slipped \in SUBSET Monitored
  <2> HIDE DEF Lines, Syncing
  <2> QED
    BY DEF Typed, Live
<1>2. /\ sync \in Syncing /\ sync.at = live.sync.at
      /\ live.sync.at = "answered" => /\ sync.rows = live.sync.rows
                                      /\ sync.apart = live.sync.apart \cup {r}
      /\ live.sync.at # "answered" => sync = live.sync
  <2>1. CASE live.sync.at = "answered"
    <3>1. live.sync \in Answering
      BY <1>1, <2>1, AnsweringSays
    <3>2. live.sync.apart \cup {r} \in SUBSET Monitored
      <4> HIDE DEF Lines
      <4> QED
        BY <3>1 DEF Answering
    <3> HIDE DEF Lines
    <3>3. sync \in Answering /\ sync.at = live.sync.at /\ sync.rows = live.sync.rows
          /\ sync.apart = live.sync.apart \cup {r}
      BY <2>1, <3>1, <3>2 DEF Answering
    <3> QED
      BY <2>1, <3>3 DEF Syncing
  <2>2. CASE live.sync.at # "answered"
    BY <1>1, <2>2
  <2> QED
    BY <2>1, <2>2
<1>3. Slipped(r) = [live EXCEPT !.slipped = slipped, !.sync = sync]
  BY DEF Slipped
<1> HIDE DEF sync, slipped, Lines, Syncing
<1>4. /\ Slipped(r) \in Live /\ Slipped(r).rows = live.rows
      /\ Slipped(r).slipped = slipped /\ Slipped(r).sync = sync
  BY <1>1, <1>2, <1>3 DEF Live
<1> QED
  BY <1>2, <1>4 DEF slipped

\* A row goes on fitting.
LEMMA StillFits ==
    ASSUME Typed, Typed', NEW r \in Monitored, NEW k \in Monitored, NEW row \in Line,
           NEW T, NEW E, Grown(frames, frames', r, T), LedgerGrows(r, E),
           \A t \in Counted \cup Sending : t \in T <=> t \in E,
           k # r => sought'[k] = sought[k],
           \/ k # r
           \/ Unsettled(r)'
           \/ T \cap Telling # {}
           \/ sought'[r].status = sought[r].status /\ ~Unsettled(r),
           RowFits(row, k)
    PROVE  RowFits(row, k)'
<1>1. row.acked \in Nat /\ row.rejected \in Nat /\ row.expired \in Nat
      /\ row.undelivered \in Nat
  BY DEF Line
<1>2. ASSUME NEW n \in Nat, NEW t \in Counted, CountFits(n, k, t)
      PROVE  CountFits(n, k, t)'
  <2>1. t \in EventType
    BY DEF Counted, EventType
  <2>2. /\ frames \in Seq(Frame) /\ frames' \in Seq(Frame)
        /\ happened[k][t] \in Nat
    BY <2>1, LedgerSays DEF Typed
  <2>3. Numbered(frames, k, t) \in Nat /\ Numbered(frames', k, t) \in Nat
    BY <2>2, NumberedSays
  <2>4. CASE k = r /\ t \in E
    <3>1. Numbered(frames', k, t) = Numbered(frames, k, t) + 1
      BY <2>1, <2>4 DEF Grown
    <3>2. happened'[k][t] = happened[k][t] + 1
      BY <2>1, <2>4 DEF LedgerGrows
    <3> QED
      BY <1>2, <2>2, <2>3, <3>1, <3>2 DEF CountFits
  <2>5. CASE ~(k = r /\ t \in E)
    <3>1. Numbered(frames', k, t) = Numbered(frames, k, t)
      BY <2>1, <2>5 DEF Grown
    <3>2. happened'[k][t] = happened[k][t]
      BY <2>1, <2>2, <2>5 DEF LedgerGrows
    <3> QED
      BY <1>2, <3>1, <3>2 DEF CountFits
  <2> QED
    BY <2>4, <2>5
<1>3. \A n \in Nat, t \in Counted : CountFits(n, k, t) => CountFits(n, k, t)'
  BY <1>2
<1>4. /\ CountFits(row.acked, k, "device_offer_ack")'
      /\ CountFits(row.rejected, k, "driver_rejected")'
      /\ CountFits(row.expired, k, "offer_expired")'
      /\ CountFits(row.undelivered, k, "offer_delivery_failed")'
  <2>1. /\ CountFits(row.acked, k, "device_offer_ack")
        /\ CountFits(row.rejected, k, "driver_rejected")
        /\ CountFits(row.expired, k, "offer_expired")
        /\ CountFits(row.undelivered, k, "offer_delivery_failed")
    BY DEF RowFits
  <2>2. {"device_offer_ack", "driver_rejected", "offer_expired", "offer_delivery_failed"}
           \subseteq Counted
    BY DEF Counted
  <2> QED
    BY <1>1, <1>3, <2>1, <2>2 DEF CountFits
<1>5. WasSent(k)' <=> WasSent(k) \/ (k = r /\ T \cap Sending # {})
  <2>1. /\ {"socket_offer_emitted", "fcm_accepted_by_provider"} \subseteq EventType
        /\ Sending = {"socket_offer_emitted", "fcm_accepted_by_provider"}
    BY DEF EventType, Sending
  <2>2. CASE k # r
    BY <2>2 DEF WasSent, LedgerGrows
  <2>3. CASE k = r
    <3>1. \A t \in Sending : /\ happened[r][t] \in Nat
                             /\ happened'[r][t] = happened[r][t] + (IF t \in T THEN 1 ELSE 0)
      BY <2>1, LedgerSays DEF LedgerGrows
    <3>2. \A t \in Sending : happened'[r][t] > 0 <=> happened[r][t] > 0 \/ t \in T
      BY <3>1
    <3> QED
      BY <2>1, <2>3, <3>2 DEF WasSent
  <2> QED
    BY <2>2, <2>3
<1>6. ((row.notified > 0 \/ SendingIn(frames, k)) <=> WasSent(k))'
  <2>1. SendingIn(frames', k) <=> SendingIn(frames, k) \/ (k = r /\ T \cap Sending # {})
    BY DEF Grown
  <2> QED
    BY <1>5, <2>1 DEF RowFits, SendingIn
<1>7. ~Unsettled(k)' /\ ~ToldIn(frames', k, 0) => row.status = sought'[k].status
  <2>1. ToldIn(frames', k, 0) <=> ToldIn(frames, k, 0) \/ (k = r /\ T \cap Telling # {})
    BY DEF Grown
  <2>2. CASE k # r
    BY <2>1, <2>2 DEF RowFits, Unsettled
  <2>3. CASE k = r
    BY <2>1, <2>3 DEF RowFits
  <2> QED
    BY <2>2, <2>3
<1> QED
  BY <1>4, <1>6, <1>7 DEF RowFits, ToldIn

LEMMA SearchKeeps ==
    ASSUME MonitorInv, NEW r \in Monitored, NEW q \in Sought,
           sought' = [sought EXCEPT ![r] = q], saved' = saved,
           live' = live \/ live' = Slipped(r),
           NEW T, NEW E, Grown(frames, frames', r, T), LedgerGrows(r, E),
           \A t \in Counted \cup Sending : t \in T <=> t \in E,
           \/ q.controlled \/ q.settling \/ live' = Slipped(r)
           \/ T \cap Telling = {} /\ q.status = sought[r].status /\ ~Unsettled(r)
           \/ T \cap Telling # {} /\ LastToldIn(frames', r, q.status),
           LedgerAdds(r)', SearchOK(r)'
    PROVE  MonitorInv'
<1>0. Typed /\ sought \in [Monitored -> Sought]
  BY DEF MonitorInv, Typed
<1>1. /\ sought' \in [Monitored -> Sought] /\ sought'[r] = q
      /\ \A k \in Monitored : k # r => sought'[k] = sought[k]
  <2> HIDE DEF Sought
  <2> QED
    BY <1>0
<1>2. Typed'
  <2>1. happened' \in Ledger /\ frames' \in Seq(Frame)
    BY DEF LedgerGrows, Grown
  <2>2. saved' \in Ledger /\ live' \in Live
    <3>1. saved \in Ledger /\ live \in Live /\ Slipped(r) \in Live
      BY <1>0, SlippedSays DEF Typed
    <3> QED
      BY Zenon, <3>1
  <2> QED
    BY Zenon, <1>1, <2>1, <2>2 DEF Typed
<1>9. /\ live'.rows = live.rows /\ live.slipped \subseteq live'.slipped
      /\ live'.sync.at = live.sync.at
      /\ live.sync.at = "answered" => /\ live'.sync.rows = live.sync.rows
                                      /\ live.sync.apart \subseteq live'.sync.apart
      /\ live' = Slipped(r) =>
            r \in live'.slipped /\ (live.sync.at = "answered" => r \in live'.sync.apart)
  BY <1>0, SlippedSays
<1>10. ASSUME NEW k \in Monitored, Heard(k)'
       PROVE  Heard(k) /\ ~(k = r /\ live' = Slipped(r))
  BY <1>9, <1>10 DEF Heard
<1>3. \/ Unsettled(r)' \/ live' = Slipped(r)
      \/ T \cap Telling = {} /\ q.status = sought[r].status /\ ~Unsettled(r)
      \/ T \cap Telling # {} /\ LastToldIn(frames', r, q.status)
  BY <1>1 DEF Unsettled
<1>4. \A k \in Monitored : sought[k].status \in RideStatus
  BY <1>0 DEF Sought
<1>5. ASSUME NEW k \in Monitored PROVE LastTold(k)'
  <2>1. CASE k # r
    <3>1. LastTold(k) /\ sought'[k] = sought[k]
      BY <1>1, <2>1 DEF MonitorInv
    <3>2. LastToldIn(frames, k, sought[k].status) => LastToldIn(frames', k, sought[k].status)
      BY <1>4, <2>1 DEF Grown
    <3> QED
      BY <1>10, <3>1, <3>2 DEF LastTold, Unsettled, LastToldIn, ToldIn
  <2>2. CASE k = r
    <3>1. CASE Unsettled(r)' \/ live' = Slipped(r)
      BY <1>10, <2>2, <3>1 DEF LastTold
    <3>2. CASE T \cap Telling = {} /\ q.status = sought[r].status /\ ~Unsettled(r)
      <4>1. Heard(r) => LastToldIn(frames, r, sought[r].status)
        BY <3>2 DEF MonitorInv, LastTold
      <4>2. Heard(r) => LastToldIn(frames', r, sought[r].status)
        BY <1>4, <3>2, <4>1 DEF Grown
      <4> QED
        BY <1>1, <1>10, <2>2, <3>2, <4>2 DEF LastTold, LastToldIn, ToldIn
    <3>3. CASE LastToldIn(frames', r, q.status)
      BY <1>1, <2>2, <3>3 DEF LastTold, LastToldIn, ToldIn
    <3> QED
      BY <1>3, <3>1, <3>2, <3>3
  <2> QED
    BY <2>1, <2>2
<1>6. ASSUME NEW k \in Monitored PROVE LedgerAdds(k)' /\ SearchOK(k)'
  <2>1. CASE k # r
    <3>1. sought'[k] = sought[k] /\ happened'[k] = happened[k]
      BY <1>1, <2>1 DEF LedgerGrows
    <3> QED
      BY <3>1 DEF MonitorInv, LedgerAdds, OffersSent, WasSent, SearchOK
  <2>2. CASE k = r
    BY <2>2
  <2> QED
    BY <2>1, <2>2
<1>7. ASSUME NEW k \in Monitored, NEW row \in Line, RowFits(row, k),
             ~(k = r /\ live' = Slipped(r))
      PROVE  RowFits(row, k)'
  <2>1. \/ k # r
        \/ Unsettled(r)'
        \/ T \cap Telling # {}
        \/ sought'[r].status = sought[r].status /\ ~Unsettled(r)
    BY <1>1, <1>3, <1>7
  <2>2. k # r => sought'[k] = sought[k]
    BY <1>1
  <2> QED
    BY Zenon, <1>0, <1>2, <1>7, <2>1, <2>2, StillFits
<1>8. ASSUME NEW k \in Monitored PROVE RowTrue(k)' /\ SyncTrue(k)'
  <2>1. RowTrue(k) /\ SyncTrue(k)
    BY DEF MonitorInv
  <2>2. ASSUME NEW row \in Line \cup {NoLine}, row # NoLine, RowFits(row, k),
               ~(k = r /\ live' = Slipped(r))
        PROVE  RowFits(row, k)'
    <3>1. row \in Line
      BY <2>2
    <3> QED
      BY <1>7, <2>2, <3>1
  <2>3. RowTrue(k)'
    <3> SUFFICES ASSUME NEW row, row = live'.rows[k], row # NoLine, k \notin live'.slipped
                 PROVE  RowFits(row, k)'
      BY DEF RowTrue, RowFits, CountFits, WasSent, Unsettled
    <3>1. row \in Line \cup {NoLine} /\ RowFits(row, k) /\ ~(k = r /\ live' = Slipped(r))
      BY <1>0, <1>9, <2>1, RowOfLine DEF RowTrue
    <3> QED
      BY <2>2, <3>1
  <2>4. SyncTrue(k)'
    <3> SUFFICES ASSUME live'.sync.at = "answered", NEW row, row = live'.sync.rows[k],
                        row # NoLine, k \notin live'.sync.apart
                 PROVE  RowFits(row, k)'
      BY DEF SyncTrue, RowFits, CountFits, WasSent, Unsettled
    <3>1. row \in Line \cup {NoLine} /\ RowFits(row, k) /\ ~(k = r /\ live' = Slipped(r))
      BY <1>0, <1>9, <2>1, RowOfLine DEF SyncTrue
    <3> QED
      BY <2>2, <3>1
  <2> QED
    BY <2>3, <2>4
<1> QED
  BY <1>2, <1>5, <1>6, <1>8 DEF MonitorInv

-----------------------------------------------------------------------------
(* Each step of a search                                                    *)

\* The types of an invariant's state, for one ride.
LEMMA SoughtSays ==
    ASSUME MonitorInv, NEW r \in Monitored
    PROVE  /\ sought \in [Monitored -> Sought] /\ sought[r] \in Sought
           /\ frames \in Seq(Frame) /\ happened \in Ledger
           /\ LastTold(r) /\ LedgerAdds(r) /\ SearchOK(r)
           /\ \A t \in EventType : happened[r][t] \in Nat
           /\ MaxOffers \in Nat
<1>1. Typed
  BY DEF MonitorInv
<1>2. sought \in [Monitored -> Sought]
  BY <1>1 DEF Typed
<1>3. sought[r] \in Sought
  <2> HIDE DEF Sought
  <2> QED
    BY <1>2
<1> QED
  BY <1>1, <1>2, <1>3, LedgerSays, MonitorAssumption DEF MonitorInv, Typed

LEMMA Joined ==
    ASSUME NEW s \in Seq(Frame)
    PROVE  /\ s \o << >> = s
           /\ \A f \in Frame : s \o <<f>> = Append(s, f) /\ Append(s, f) \in Seq(Frame)
<1> HIDE DEF Frame
<1>1. s \o << >> = s
  BY ConcatEmptySeq
<1>2. ASSUME NEW f \in Frame
      PROVE  s \o <<f>> = Append(s, f) /\ Append(s, f) \in Seq(Frame)
  BY AppendIsConcat, AppendProperties
<1> QED
  BY <1>1, <1>2

LEMMA NothingRecorded ==
    ASSUME MonitorInv, UNCHANGED happened, NEW r \in Monitored
    PROVE  LedgerGrows(r, {})
<1>1. \A t \in EventType : happened[r][t] \in Nat
  BY SoughtSays
<1>2. happened \in Ledger
  BY SoughtSays
<1> QED
  BY <1>1, <1>2 DEF LedgerGrows

LEMMA RecordedSays ==
    ASSUME MonitorInv, NEW r \in Monitored, NEW T \in Seq(EventType), NEW more,
           Recorded(r, T, more)
    PROVE  /\ LedgerGrows(r, {T[i] : i \in DOMAIN T})
           /\ frames' = frames \o (IF T = <<"notification_queued">> THEN << >>
                          ELSE [i \in DOMAIN T |-> FrameSays(r, T[i])]) \o more
<1> HIDE DEF EventType
<1> DEFINE E == {T[i] : i \in DOMAIN T}
           h == [t \in EventType |-> IF \E i \in DOMAIN T : T[i] = t
                                     THEN happened[r][t] + 1 ELSE happened[r][t]]
<1>1. happened \in [Monitored -> [EventType -> Nat]]
  BY SoughtSays DEF Ledger
<1>2. \A t \in EventType : happened[r][t] \in Nat
  BY SoughtSays
<1>3. happened' = [happened EXCEPT ![r] = h]
  BY DEF Recorded
<1>4. h \in [EventType -> Nat]
  BY <1>2
<1>5. \A t \in EventType : h[t] = happened[r][t] + (IF t \in E THEN 1 ELSE 0)
  <2> SUFFICES ASSUME NEW t \in EventType
               PROVE  h[t] = happened[r][t] + (IF t \in E THEN 1 ELSE 0)
    OBVIOUS
  <2>1. t \in E <=> \E i \in DOMAIN T : T[i] = t
    OBVIOUS
  <2> QED
    BY <1>2, <2>1
<1> HIDE DEF h, E
<1>6. LedgerGrows(r, E)
  BY <1>1, <1>3, <1>4, <1>5 DEF LedgerGrows, Ledger
<1> QED
  BY <1>6 DEF Recorded, E

\* One event of a type, and its frame.
LEMMA OneRecorded ==
    ASSUME MonitorInv, NEW r \in Monitored, NEW t \in EventType, t # "notification_queued",
           Recorded(r, <<t>>, << >>)
    PROVE  /\ LedgerGrows(r, {t})
           /\ frames' = Append(frames, FrameSays(r, t))
<1>1. <<t>> \in Seq(EventType) /\ DOMAIN <<t>> = {1} /\ <<t>>[1] = t
  OBVIOUS
<1>2. {<<t>>[i] : i \in DOMAIN <<t>>} = {t}
  BY <1>1
<1>3. /\ LedgerGrows(r, {<<t>>[i] : i \in DOMAIN <<t>>})
      /\ frames' = frames \o (IF <<t>> = <<"notification_queued">> THEN << >>
                     ELSE [i \in DOMAIN <<t>> |-> FrameSays(r, <<t>>[i])]) \o << >>
  BY <1>1, RecordedSays
<1>4. frames' = frames \o [i \in DOMAIN <<t>> |-> FrameSays(r, <<t>>[i])] \o << >>
  BY <1>3
<1>5. [i \in DOMAIN <<t>> |-> FrameSays(r, <<t>>[i])] = <<FrameSays(r, t)>>
  BY <1>1
<1>6. frames \in Seq(Frame) /\ FrameSays(r, t) \in Frame
  BY SoughtSays, FrameSaysWhat
<1>7. frames' = (frames \o <<FrameSays(r, t)>>) \o << >>
  BY Zenon, <1>4, <1>5
<1>8. frames' = Append(frames, FrameSays(r, t))
  BY Zenon, <1>6, <1>7, Joined
<1> QED
  BY Zenon, <1>2, <1>3, <1>8

LEMMA NoneRecorded ==
    ASSUME MonitorInv, NEW r \in Monitored, NEW T \in {<< >>, <<"notification_queued">>},
           Recorded(r, T, << >>)
    PROVE  /\ LedgerGrows(r, IF T = << >> THEN {} ELSE {"notification_queued"})
           /\ frames' = frames
<1>1. T \in Seq(EventType)
  <2>1. "notification_queued" \in EventType
    BY DEF EventType
  <2> HIDE DEF EventType
  <2> QED
    <3>1. << >> \in Seq(EventType) /\ <<"notification_queued">> \in Seq(EventType)
      BY <2>1
    <3> QED
      BY Zenon, <3>1
<1>2. {T[i] : i \in DOMAIN T} = IF T = << >> THEN {} ELSE {"notification_queued"}
  OBVIOUS
<1>3. frames' = (frames \o << >>) \o << >>
  <2>1. T = << >> => [i \in DOMAIN T |-> FrameSays(r, T[i])] = << >>
    OBVIOUS
  <2>2. frames' = (frames \o (IF T = <<"notification_queued">> THEN << >>
                     ELSE [i \in DOMAIN T |-> FrameSays(r, T[i])])) \o << >>
    BY <1>1, RecordedSays
  <2> QED
    BY Zenon, <2>1, <2>2
<1>4. frames' = frames
  BY Zenon, <1>3, SoughtSays, Joined
<1> QED
  BY <1>1, <1>2, <1>4, RecordedSays

\* One event, its frame, and the frame of the row's new status.
LEMMA TwiceRecorded ==
    ASSUME MonitorInv, NEW r \in Monitored, NEW t \in EventType, t # "notification_queued",
           NEW u \in RideStatus, Recorded(r, <<t>>, <<FrameSays(r, u)>>)
    PROVE  /\ LedgerGrows(r, {t})
           /\ frames' = Append(Append(frames, FrameSays(r, t)), FrameSays(r, u))
<1>1. <<t>> \in Seq(EventType) /\ DOMAIN <<t>> = {1} /\ <<t>>[1] = t
  OBVIOUS
<1>2. {<<t>>[i] : i \in DOMAIN <<t>>} = {t}
  BY <1>1
<1>3. /\ LedgerGrows(r, {<<t>>[i] : i \in DOMAIN <<t>>})
      /\ frames' = frames \o (IF <<t>> = <<"notification_queued">> THEN << >>
                     ELSE [i \in DOMAIN <<t>> |-> FrameSays(r, <<t>>[i])])
                   \o <<FrameSays(r, u)>>
  BY <1>1, RecordedSays
<1>4. frames' = frames \o [i \in DOMAIN <<t>> |-> FrameSays(r, <<t>>[i])] \o <<FrameSays(r, u)>>
  BY <1>3
<1>5. [i \in DOMAIN <<t>> |-> FrameSays(r, <<t>>[i])] = <<FrameSays(r, t)>>
  BY <1>1
<1>6. frames \in Seq(Frame) /\ FrameSays(r, t) \in Frame /\ FrameSays(r, u) \in Frame
  BY SoughtSays, FrameSaysWhat
<1>7. frames' = (frames \o <<FrameSays(r, t)>>) \o <<FrameSays(r, u)>>
  BY Zenon, <1>4, <1>5
<1>8. frames' = Append(Append(frames, FrameSays(r, t)), FrameSays(r, u))
  BY Zenon, <1>6, <1>7, Joined
<1> QED
  BY Zenon, <1>2, <1>3, <1>8

-----------------------------------------------------------------------------
(* Each step of a search: the ledger goes on adding up                      *)

LEMMA LedgerTells ==
    ASSUME MonitorInv, NEW r \in Monitored, NEW q \in Sought, sought'[r] = q,
           NEW E, LedgerGrows(r, E),
           NEW gained \in {0, 1}, gained = 1 <=> E \cap Sending # {},
           (IF "notification_queued" \in E THEN 1 ELSE 0)
              + (IF sought[r].offer = "queued" THEN 1 ELSE 0)
              = (IF "offer_delivery_failed" \in E THEN 1 ELSE 0)
                  + (IF q.offer = "queued" THEN 1 ELSE 0) + gained,
           "device_offer_ack" \in E => happened[r]["device_offer_ack"] = 0,
           happened[r]["driver_accepted"] > 0 \/ "driver_accepted" \in E =>
              q.taken /\ q.status \in {"accepted", "canceled"}
    PROVE  LedgerAdds(r)'
<1> DEFINE Some(t) == IF t \in E THEN 1 ELSE 0
<1>1. ASSUME NEW t \in EventType
      PROVE  happened[r][t] \in Nat /\ happened'[r][t] = happened[r][t] + Some(t)
  BY SoughtSays DEF LedgerGrows
<1>2. /\ "notification_queued" \in EventType /\ "offer_delivery_failed" \in EventType
      /\ "socket_offer_emitted" \in EventType /\ "fcm_accepted_by_provider" \in EventType
      /\ "device_offer_ack" \in EventType /\ "driver_accepted" \in EventType
  BY DEF EventType
<1>3. LedgerAdds(r)
  BY DEF MonitorInv
<1>4. WasSent(r)' <=> WasSent(r) \/ gained = 1
  <2>1. /\ happened'[r]["socket_offer_emitted"] > 0
              <=> \/ happened[r]["socket_offer_emitted"] > 0
                  \/ "socket_offer_emitted" \in E
        /\ happened'[r]["fcm_accepted_by_provider"] > 0
              <=> \/ happened[r]["fcm_accepted_by_provider"] > 0
                  \/ "fcm_accepted_by_provider" \in E
    BY <1>1, <1>2
  <2>2. E \cap Sending # {} <=> \/ "socket_offer_emitted" \in E
                                \/ "fcm_accepted_by_provider" \in E
    BY DEF Sending
  <2> QED
    BY <2>1, <2>2 DEF WasSent
<1>5. OffersSent(r)' = OffersSent(r) + gained
  <2> DEFINE n == happened[r]["notification_queued"]
             f == happened[r]["offer_delivery_failed"]
             n1 == happened'[r]["notification_queued"]
             f1 == happened'[r]["offer_delivery_failed"]
             a == IF sought[r].offer = "queued" THEN 1 ELSE 0
             b == IF q.offer = "queued" THEN 1 ELSE 0
             c == Some("notification_queued")
             d == Some("offer_delivery_failed")
  <2>1. n \in Nat /\ f \in Nat /\ n1 = n + c /\ f1 = f + d
    BY <1>1, <1>2
  <2>2. c + a = d + b + gained
    OBVIOUS
  <2>3. a \in {0, 1} /\ b \in {0, 1} /\ c \in {0, 1} /\ d \in {0, 1}
    OBVIOUS
  <2>4. OffersSent(r) = n - f - a /\ OffersSent(r)' = n1 - f1 - b
    BY DEF OffersSent
  <2> HIDE DEF n, f, n1, f1, a, b, c, d
  <2> QED
    BY <2>1, <2>2, <2>3, <2>4
<1>6. OffersSent(r)' \in Nat /\ (OffersSent(r)' > 0 <=> WasSent(r)')
  <2>1. OffersSent(r) \in Nat /\ (OffersSent(r) > 0 <=> WasSent(r))
    BY <1>3 DEF LedgerAdds
  <2>2. OffersSent(r) + gained \in Nat
        /\ (OffersSent(r) + gained > 0 <=> OffersSent(r) > 0 \/ gained = 1)
    BY <2>1
  <2> QED
    BY <1>4, <1>5, <2>1, <2>2
<1>7. happened'[r]["device_offer_ack"] <= 1
  <2>1. happened[r]["device_offer_ack"] <= 1
    BY <1>3 DEF LedgerAdds
  <2>2. /\ happened[r]["device_offer_ack"] \in Nat
        /\ happened'[r]["device_offer_ack"]
              = happened[r]["device_offer_ack"] + Some("device_offer_ack")
    BY <1>1, <1>2
  <2> QED
    BY <2>1, <2>2
<1>8. happened'[r]["driver_accepted"] > 0 =>
          sought'[r].taken /\ sought'[r].status \in {"accepted", "canceled"}
  <2>2. /\ happened[r]["driver_accepted"] \in Nat
        /\ happened'[r]["driver_accepted"]
              = happened[r]["driver_accepted"] + Some("driver_accepted")
    BY <1>1, <1>2
  <2> QED
    BY <2>2
<1> QED
  BY <1>6, <1>7, <1>8 DEF LedgerAdds

\* A step that leaves the row's status, and who may answer for it, as they were.
LEMMA QuietStep ==
    ASSUME MonitorInv, NEW r \in Monitored, NEW q \in Sought,
           sought' = [sought EXCEPT ![r] = q], UNCHANGED <<saved, live>>,
           q.status = sought[r].status, q.settling = sought[r].settling,
           q.taken = sought[r].taken, q.controlled = sought[r].controlled, q.run => sought[r].run,
           q.settling => q.offer # "queued",
           NEW E, LedgerGrows(r, E), NEW T, Grown(frames, frames', r, T),
           T \cap Telling = {}, "driver_accepted" \notin E,
           \A t \in Counted \cup Sending : t \in T <=> t \in E,
           NEW gained \in {0, 1}, gained = 1 <=> E \cap Sending # {},
           (IF "notification_queued" \in E THEN 1 ELSE 0)
              + (IF sought[r].offer = "queued" THEN 1 ELSE 0)
              = (IF "offer_delivery_failed" \in E THEN 1 ELSE 0)
                  + (IF q.offer = "queued" THEN 1 ELSE 0) + gained,
           "device_offer_ack" \in E => happened[r]["device_offer_ack"] = 0
    PROVE  MonitorInv'
<1>1. sought \in [Monitored -> Sought] /\ SearchOK(r)
  BY SoughtSays
<1>2. sought'[r] = q
  <2> HIDE DEF Sought
  <2> QED
    BY <1>1
<1>3. LedgerAdds(r)'
  <2>1. happened[r]["driver_accepted"] > 0 => q.taken /\ q.status \in {"accepted", "canceled"}
    BY SoughtSays DEF LedgerAdds
  <2> QED
    BY <1>2, <2>1, LedgerTells
<1>4. SearchOK(r)'
  BY <1>1, <1>2 DEF SearchOK
<1>5. \/ q.controlled \/ q.settling
      \/ T \cap Telling = {} /\ q.status = sought[r].status /\ ~Unsettled(r)
  BY DEF Unsettled
<1> QED
  BY Zenon, <1>3, <1>4, <1>5, SearchKeeps

\* One event that does not bear on the ride's status or its offers' transport.
LEMMA AnswerStep ==
    ASSUME MonitorInv, NEW r \in Monitored, NEW q \in Sought,
           sought' = [sought EXCEPT ![r] = q], UNCHANGED <<saved, live>>,
           q.status = sought[r].status, q.settling = sought[r].settling,
           q.taken = sought[r].taken, q.controlled = sought[r].controlled, q.run = sought[r].run,
           q.offer # "queued", sought[r].offer # "queued",
           NEW t \in {"device_offer_ack", "driver_rejected", "offer_expired"},
           t = "device_offer_ack" => happened[r]["device_offer_ack"] = 0,
           Recorded(r, <<t>>, << >>)
    PROVE  MonitorInv'
<1>1. t \in EventType /\ t # "notification_queued"
  BY DEF EventType
<1>2. /\ LedgerGrows(r, {t}) /\ frames' = Append(frames, FrameSays(r, t))
  BY <1>1, OneRecorded
<1>3. Grown(frames, frames', r, {t})
  BY <1>1, <1>2, OneGrown, SoughtSays
<1>4. {t} \cap Telling = {} /\ {t} \cap Sending = {}
  BY DEF Telling, Sending, RideStatus
<1> DEFINE gained == 0
<1>5. /\ gained \in {0, 1} /\ (gained = 1 <=> {t} \cap Sending # {})
      /\ (IF "notification_queued" \in {t} THEN 1 ELSE 0)
              + (IF sought[r].offer = "queued" THEN 1 ELSE 0)
              = (IF "offer_delivery_failed" \in {t} THEN 1 ELSE 0)
                  + (IF q.offer = "queued" THEN 1 ELSE 0) + gained
  BY <1>4
<1> HIDE DEF gained
<1>6. /\ "driver_accepted" \notin {t}
      /\ "device_offer_ack" \in {t} => happened[r]["device_offer_ack"] = 0
      /\ q.settling => q.offer # "queued"
      /\ \A u \in Counted \cup Sending : u \in {t} <=> u \in {t}
  OBVIOUS
<1> QED
  BY <1>2, <1>3, <1>4, <1>5, <1>6, QuietStep

LEMMA AnswersKeep ==
    ASSUME MonitorInv, NEW r \in Monitored,
           Acknowledge(r) \/ Decline(r) \/ OfferExpires(r)
    PROVE  MonitorInv'
<1>1. sought \in [Monitored -> Sought] /\ sought[r] \in Sought /\ MaxOffers \in Nat
  BY SoughtSays
<1>2. ASSUME Acknowledge(r) PROVE MonitorInv'
  <2> DEFINE q == [sought[r] EXCEPT !.offer = "acked"]
  <2>1. q \in Sought /\ q.offer = "acked" /\ q.status = sought[r].status
        /\ q.settling = sought[r].settling /\ q.controlled = sought[r].controlled
        /\ q.run = sought[r].run /\ q.taken = sought[r].taken
    BY <1>1 DEF Sought
  <2>2. /\ sought' = [sought EXCEPT ![r] = q] /\ UNCHANGED <<saved, live>>
        /\ sought[r].offer = "open" /\ happened[r]["device_offer_ack"] = 0
        /\ Recorded(r, <<"device_offer_ack">>, << >>)
    BY <1>2 DEF Acknowledge
  <2> HIDE DEF q
  <2> QED
    BY <2>1, <2>2, AnswerStep
<1>3. ASSUME Decline(r) PROVE MonitorInv'
  <2> DEFINE q == [sought[r] EXCEPT !.offer = "over", !.round = MaxOffers]
  <2>1. q \in Sought /\ q.offer = "over" /\ q.status = sought[r].status
        /\ q.settling = sought[r].settling /\ q.controlled = sought[r].controlled
        /\ q.run = sought[r].run /\ q.taken = sought[r].taken
    <3>1. MaxOffers \in 0..MaxOffers
      BY <1>1
    <3> QED
      BY <1>1, <3>1 DEF Sought
  <2>2. /\ sought' = [sought EXCEPT ![r] = q] /\ UNCHANGED <<saved, live>>
        /\ sought[r].offer # "queued"
        /\ Recorded(r, <<"driver_rejected">>, << >>)
    BY <1>3 DEF Decline, Offered
  <2> HIDE DEF q
  <2> QED
    BY <2>1, <2>2, AnswerStep
<1>4. ASSUME OfferExpires(r) PROVE MonitorInv'
  <2> DEFINE q == [sought[r] EXCEPT !.offer = "over"]
  <2>1. q \in Sought /\ q.offer = "over" /\ q.status = sought[r].status
        /\ q.settling = sought[r].settling /\ q.controlled = sought[r].controlled
        /\ q.run = sought[r].run /\ q.taken = sought[r].taken
    BY <1>1 DEF Sought
  <2>2. /\ sought' = [sought EXCEPT ![r] = q] /\ UNCHANGED <<saved, live>>
        /\ sought[r].offer # "queued"
        /\ Recorded(r, <<"offer_expired">>, << >>)
    BY <1>4 DEF OfferExpires, Offered
  <2> HIDE DEF q
  <2> QED
    BY <2>1, <2>2, AnswerStep
<1> QED
  BY <1>2, <1>3, <1>4

LEMMA OfferRoundKeeps ==
    ASSUME MonitorInv, NEW r \in Monitored, OfferRound(r)
    PROVE  MonitorInv'
<1> DEFINE q == [sought[r] EXCEPT !.offer = "queued", !.round = sought[r].round + 1]
           E == {"notification_queued"}
<1>1. sought \in [Monitored -> Sought] /\ sought[r] \in Sought /\ MaxOffers \in Nat
      /\ frames \in Seq(Frame) /\ SearchOK(r)
  BY SoughtSays
<1>2. /\ sought[r].run /\ ~sought[r].controlled /\ sought[r].status = "searching"
      /\ sought[r].offer # "queued" /\ sought[r].round < MaxOffers
      /\ sought' = [sought EXCEPT ![r] = q] /\ UNCHANGED <<saved, live>>
      /\ Recorded(r, <<"notification_queued">>, << >>)
  BY DEF OfferRound
<1>3. q \in Sought /\ q.offer = "queued" /\ q.status = sought[r].status
      /\ q.settling = sought[r].settling /\ q.controlled = sought[r].controlled
      /\ q.run = sought[r].run /\ q.taken = sought[r].taken
  <2>1. sought[r].round + 1 \in 0..MaxOffers
    <3>1. sought[r].round \in 0..MaxOffers
      BY <1>1 DEF Sought
    <3> QED
      BY <1>1, <1>2, <3>1
  <2> QED
    BY <1>1, <2>1 DEF Sought
<1>4. LedgerGrows(r, E) /\ frames' = frames
  BY <1>2, NoneRecorded
<1>5. Grown(frames, frames', r, {})
  BY <1>1, <1>4, NoneGrown
<1>6. ~q.settling
  BY <1>1, <1>2, <1>3 DEF SearchOK
<1>7. /\ "notification_queued" \notin Counted \cup Sending
      /\ E \cap Sending = {} /\ "offer_delivery_failed" \notin E
      /\ "driver_accepted" \notin E /\ "device_offer_ack" \notin E
  BY DEF Counted, Sending
<1>8. \A t \in Counted \cup Sending : t \in {} <=> t \in E
  BY <1>7
<1> DEFINE gained == 0
<1>9. /\ gained \in {0, 1} /\ (gained = 1 <=> E \cap Sending # {})
      /\ (IF "notification_queued" \in E THEN 1 ELSE 0)
              + (IF sought[r].offer = "queued" THEN 1 ELSE 0)
              = (IF "offer_delivery_failed" \in E THEN 1 ELSE 0)
                  + (IF q.offer = "queued" THEN 1 ELSE 0) + gained
  BY <1>2, <1>3, <1>7
<1> HIDE DEF q, E, gained
<1> QED
  BY <1>2, <1>3, <1>4, <1>5, <1>6, <1>7, <1>8, <1>9, QuietStep

\* The transports' answer: it failed, one of them sent, or both did.
LEMMA DeliveryRecorded ==
    ASSUME MonitorInv, NEW r \in Monitored, NEW S \in SUBSET Sending,
           Recorded(r, projectDelivery(S), << >>)
    PROVE  \E E \in {{"offer_delivery_failed"}} \cup SUBSET Sending :
              /\ LedgerGrows(r, E) /\ Grown(frames, frames', r, E)
              /\ E = IF S = {} THEN {"offer_delivery_failed"} ELSE S
<1>0. frames \in Seq(Frame)
  BY SoughtSays
<1>1. Sending = {"socket_offer_emitted", "fcm_accepted_by_provider"}
  BY DEF Sending
<1>2. CASE S = {}
  <2>1. Recorded(r, <<"offer_delivery_failed">>, << >>)
    BY <1>2 DEF projectDelivery
  <2>2. "offer_delivery_failed" \in EventType
    BY DEF EventType
  <2>3. LedgerGrows(r, {"offer_delivery_failed"})
        /\ frames' = Append(frames, FrameSays(r, "offer_delivery_failed"))
    BY <2>1, <2>2, OneRecorded
  <2>4. Grown(frames, frames', r, {"offer_delivery_failed"})
    BY <1>0, <2>2, <2>3, OneGrown
  <2> QED
    BY <1>2, <2>3, <2>4
<1>3. CASE S = Sending
  <2> DEFINE a == "socket_offer_emitted"
             b == "fcm_accepted_by_provider"
             T == <<a, b>>
  <2>1. a \in EventType /\ b \in EventType /\ a # b
    BY DEF EventType
  <2>2. T \in Seq(EventType) /\ T # <<"notification_queued">>
    BY <2>1
  <2>3. Recorded(r, T, << >>)
    BY <1>1, <1>3 DEF projectDelivery
  <2>4. {T[i] : i \in DOMAIN T} = {a, b}
    <3>1. DOMAIN T = {1, 2} /\ T[1] = a /\ T[2] = b
      OBVIOUS
    <3> HIDE DEF a, b, T
    <3> QED
      BY <3>1
  <2>5. [i \in DOMAIN T |-> FrameSays(r, T[i])] = <<FrameSays(r, a), FrameSays(r, b)>>
    <3>1. DOMAIN T = 1..2 /\ T[1] = a /\ T[2] = b
      OBVIOUS
    <3> HIDE DEF a, b, T
    <3> QED
      BY <3>1
  <2>6. FrameSays(r, a) \in Frame /\ FrameSays(r, b) \in Frame
    BY <2>1, FrameSaysWhat
  <2>7. LedgerGrows(r, {a, b})
        /\ frames' = (frames \o [i \in DOMAIN T |-> FrameSays(r, T[i])]) \o << >>
    <3> HIDE DEF a, b, T
    <3>1. LedgerGrows(r, {T[i] : i \in DOMAIN T})
          /\ frames' = frames \o (IF T = <<"notification_queued">> THEN << >>
                          ELSE [i \in DOMAIN T |-> FrameSays(r, T[i])]) \o << >>
      BY <2>2, <2>3, RecordedSays
    <3> QED
      BY Zenon, <2>2, <2>4, <3>1
  <2>8. frames' = Append(Append(frames, FrameSays(r, a)), FrameSays(r, b))
    <3> DEFINE f == FrameSays(r, a)
               g == FrameSays(r, b)
    <3>1. f \in Frame /\ g \in Frame /\ frames' = (frames \o <<f, g>>) \o << >>
      BY Zenon, <2>5, <2>6, <2>7
    <3> HIDE DEF f, g, Frame
    <3>2. frames \o <<f, g>> \in Seq(Frame)
      BY <1>0, <3>1
    <3>3. frames' = frames \o <<f, g>>
      BY Zenon, <3>1, <3>2, Joined
    <3>4. frames \o <<f, g>> = Append(Append(frames, f), g)
      BY <1>0, <3>1
    <3> QED
      BY Zenon, <3>3, <3>4 DEF f, g
  <2>9. Grown(frames, Append(frames, FrameSays(r, a)), r, {a})
    BY <1>0, <2>1, OneGrown
  <2>10. Append(frames, FrameSays(r, a)) \in Seq(Frame)
    BY Zenon, <1>0, <2>6, Joined
  <2>11. Grown(Append(frames, FrameSays(r, a)), frames', r, {b})
    BY <2>1, <2>8, <2>10, OneGrown
  <2>12. Grown(frames, frames', r, {a, b})
    BY <2>1, <2>9, <2>11, TwiceGrown
  <2> QED
    BY <1>1, <1>3, <2>7, <2>12
<1>4. CASE S # {} /\ S # Sending
  <2>1. PICK t \in Sending : S = {t}
    BY <1>1, <1>4
  <2>2. t \in EventType /\ t # "notification_queued"
    BY <1>1 DEF EventType
  <2>3. (CHOOSE u \in S : TRUE) = t
    BY <2>1
  <2>4. Recorded(r, <<t>>, << >>)
    <3>1. projectDelivery(S) = <<CHOOSE u \in S : TRUE>>
      BY <1>1, <1>4 DEF projectDelivery
    <3> QED
      BY Zenon, <2>3, <3>1
  <2>5. LedgerGrows(r, {t}) /\ frames' = Append(frames, FrameSays(r, t))
    BY <2>2, <2>4, OneRecorded
  <2>6. Grown(frames, frames', r, {t})
    BY <1>0, <2>2, <2>5, OneGrown
  <2> QED
    BY <1>4, <2>1, <2>5, <2>6
<1> QED
  BY <1>2, <1>3, <1>4

LEMMA DeliverOfferKeeps ==
    ASSUME MonitorInv, NEW r \in Monitored, DeliverOffer(r)
    PROVE  MonitorInv'
<1>1. sought \in [Monitored -> Sought] /\ sought[r] \in Sought /\ SearchOK(r)
  BY SoughtSays
<1>2. Sending = {"socket_offer_emitted", "fcm_accepted_by_provider"}
  BY DEF Sending
<1>3. PICK S \in SUBSET Sending :
          /\ sought' = [sought EXCEPT ![r].offer = IF S = {} THEN "over" ELSE "open"]
          /\ Recorded(r, projectDelivery(S), << >>)
  BY <1>2 DEF DeliverOffer
<1> DEFINE q == [sought[r] EXCEPT !.offer = IF S = {} THEN "over" ELSE "open"]
<1>4. q \in Sought /\ q.offer # "queued" /\ q.status = sought[r].status
      /\ q.settling = sought[r].settling /\ q.controlled = sought[r].controlled
      /\ q.run = sought[r].run /\ q.taken = sought[r].taken
  BY <1>1 DEF Sought
<1>5. sought' = [sought EXCEPT ![r] = q] /\ UNCHANGED <<saved, live>>
      /\ sought[r].offer = "queued"
  BY <1>3 DEF DeliverOffer
<1>6. PICK E \in {{"offer_delivery_failed"}} \cup SUBSET Sending :
              /\ LedgerGrows(r, E) /\ Grown(frames, frames', r, E)
              /\ E = IF S = {} THEN {"offer_delivery_failed"} ELSE S
  BY <1>3, DeliveryRecorded
<1> DEFINE gained == IF S = {} THEN 0 ELSE 1
<1>7. /\ E \cap Telling = {} /\ "driver_accepted" \notin E
      /\ "device_offer_ack" \notin E /\ "notification_queued" \notin E
      /\ "offer_delivery_failed" \in E <=> S = {}
      /\ E \cap Sending # {} <=> S # {}
  <2>1. Telling \cap ({"offer_delivery_failed"} \cup Sending) = {}
    BY <1>2 DEF Telling, RideStatus
  <2> QED
    BY <1>2, <1>6, <2>1
<1> HIDE DEF q
<1>8. /\ gained \in {0, 1} /\ (gained = 1 <=> E \cap Sending # {})
      /\ (IF "notification_queued" \in E THEN 1 ELSE 0)
              + (IF sought[r].offer = "queued" THEN 1 ELSE 0)
              = (IF "offer_delivery_failed" \in E THEN 1 ELSE 0)
                  + (IF q.offer = "queued" THEN 1 ELSE 0) + gained
  BY <1>4, <1>5, <1>7
<1> HIDE DEF gained
<1>9. \A t \in Counted \cup Sending : t \in E <=> t \in E
  OBVIOUS
<1> QED
  BY <1>4, <1>5, <1>6, <1>7, <1>8, <1>9, QuietStep

\* Of a ride whose driver is not recorded yet, any status will do.
LEMMA UntakenSays ==
    ASSUME MonitorInv, NEW r \in Monitored, sought[r].status \notin {"accepted", "canceled"}
    PROVE  ~(happened[r]["driver_accepted"] > 0) /\ ~sought[r].settling
BY SoughtSays DEF LedgerAdds, SearchOK

LEMMA TakeRowKeeps ==
    ASSUME MonitorInv, NEW r \in Monitored, TakeRow(r)
    PROVE  MonitorInv'
<1> DEFINE q == [sought[r] EXCEPT !.status = "accepted", !.settling = TRUE, !.taken = TRUE]
<1>1. sought \in [Monitored -> Sought] /\ sought[r] \in Sought /\ SearchOK(r)
      /\ frames \in Seq(Frame)
  BY SoughtSays
<1>2. /\ sought[r].status = "searching" /\ sought[r].offer # "queued"
      /\ sought' = [sought EXCEPT ![r] = q] /\ UNCHANGED <<saved, live>>
      /\ happened' = happened /\ frames' = frames
  BY DEF TakeRow, Offered
<1>3. q \in Sought /\ q.offer = sought[r].offer /\ q.status = "accepted" /\ q.settling
      /\ q.run = sought[r].run /\ q.taken
  BY <1>1 DEF Sought, RideStatus
<1> HIDE DEF q
<1>4. sought'[r] = q
  <2> HIDE DEF Sought
  <2> QED
    BY <1>1, <1>2
<1>5. LedgerGrows(r, {}) /\ Grown(frames, frames', r, {})
  BY <1>1, <1>2, NothingRecorded, NoneGrown
<1> DEFINE gained == 0
<1>7. /\ gained \in {0, 1} /\ (gained = 1 <=> {} \cap Sending # {})
      /\ (IF "notification_queued" \in {} THEN 1 ELSE 0)
              + (IF sought[r].offer = "queued" THEN 1 ELSE 0)
              = (IF "offer_delivery_failed" \in {} THEN 1 ELSE 0)
                  + (IF q.offer = "queued" THEN 1 ELSE 0) + gained
  BY <1>3
<1> HIDE DEF gained
<1>8. LedgerAdds(r)'
  BY <1>3, <1>4, <1>5, <1>7, LedgerTells
<1>9. SearchOK(r)'
  BY <1>2, <1>3, <1>4 DEF SearchOK
<1> QED
  BY <1>2, <1>3, <1>5, <1>8, <1>9, SearchKeeps

LEMMA RiderRequestsKeeps ==
    ASSUME MonitorInv, NEW r \in Monitored, RiderRequests(r)
    PROVE  MonitorInv'
<1> DEFINE q == [sought[r] EXCEPT !.status = "searching", !.run = TRUE]
<1>1. sought \in [Monitored -> Sought] /\ sought[r] \in Sought /\ SearchOK(r)
      /\ frames \in Seq(Frame)
  BY SoughtSays
<1>2. /\ sought[r].status = "none"
      /\ sought' = [sought EXCEPT ![r] = q] /\ UNCHANGED <<saved, live>>
      /\ happened' = happened
      /\ frames' = Append(frames, FrameSays(r, "searching"))
  BY DEF RiderRequests
<1>3. q \in Sought /\ q.offer = sought[r].offer /\ q.status = "searching"
      /\ q.settling = sought[r].settling
  BY <1>1 DEF Sought, RideStatus
<1> HIDE DEF q
<1>4. sought'[r] = q
  <2> HIDE DEF Sought
  <2> QED
    BY <1>1, <1>2
<1>5. LedgerGrows(r, {})
  BY <1>2, NothingRecorded
<1>6. Grown(frames, frames', r, {"searching"})
  <2>1. "searching" \in EventType \cup RideStatus
    BY DEF RideStatus
  <2> QED
    BY <1>1, <1>2, <2>1, OneGrown
<1> DEFINE gained == 0
<1>7. /\ gained \in {0, 1} /\ (gained = 1 <=> {} \cap Sending # {})
      /\ (IF "notification_queued" \in {} THEN 1 ELSE 0)
              + (IF sought[r].offer = "queued" THEN 1 ELSE 0)
              = (IF "offer_delivery_failed" \in {} THEN 1 ELSE 0)
                  + (IF q.offer = "queued" THEN 1 ELSE 0) + gained
  BY <1>3
<1> HIDE DEF gained
<1>8. LedgerAdds(r)'
  <2>1. ~(happened[r]["driver_accepted"] > 0)
    BY <1>2, UntakenSays
  <2> QED
    BY <1>2, <1>3, <1>4, <1>5, <1>7, <2>1, LedgerTells
<1>9. SearchOK(r)'
  BY <1>1, <1>2, <1>3, <1>4 DEF SearchOK
<1>10. \A t \in Counted \cup Sending : t \in {"searching"} <=> t \in {}
  BY DEF Counted, Sending
<1>11. {"searching"} \cap Telling # {} /\ LastToldIn(frames', r, q.status)
  <2>1. "searching" \in Telling /\ Means("searching") = "searching"
    BY DEF Telling, RideStatus, Means
  <2>2. LastToldIn(frames', r, Means("searching"))
    BY <1>1, <1>2, <2>1, LastIsTold
  <2> QED
    BY <1>3, <2>1, <2>2
<1> QED
  BY <1>2, <1>3, <1>5, <1>6, <1>8, <1>9, <1>10, <1>11, SearchKeeps

LEMMA SettleAcceptKeeps ==
    ASSUME MonitorInv, NEW r \in Monitored, SettleAccept(r)
    PROVE  MonitorInv'
<1> DEFINE q == [sought[r] EXCEPT !.settling = FALSE, !.run = FALSE, !.offer = "over"]
           t == "driver_accepted"
           u == "accepted"
           z == Append(frames, FrameSays(r, t))
<1>1. sought \in [Monitored -> Sought] /\ sought[r] \in Sought /\ SearchOK(r)
      /\ frames \in Seq(Frame)
  BY SoughtSays
<1>2. /\ sought[r].settling /\ Recorded(r, <<t>>, <<FrameSays(r, u)>>)
      /\ sought' = [sought EXCEPT ![r] = q] /\ saved' = saved
      /\ live' = IF sought[r].status = "accepted" THEN live ELSE Slipped(r)
  BY DEF SettleAccept
<1>3. /\ sought[r].taken /\ sought[r].status \in {"accepted", "canceled"}
      /\ sought[r].offer # "queued"
  BY <1>1, <1>2 DEF SearchOK
<1>4. q \in Sought /\ q.offer = "over" /\ q.status = sought[r].status /\ ~q.settling
      /\ ~q.run /\ q.taken
  BY <1>1, <1>3 DEF Sought
<1> HIDE DEF q
<1>5. sought'[r] = q
  <2> HIDE DEF Sought
  <2> QED
    BY <1>1, <1>2
<1>6. /\ t \in EventType /\ t # "notification_queued" /\ t \in Telling /\ t \notin Sending
      /\ t \notin Counted /\ u \in RideStatus /\ u \in Telling /\ Means(u) = u
      /\ u \notin Sending /\ u \notin Counted /\ t # u /\ t # "device_offer_ack"
      /\ t # "offer_delivery_failed"
  BY DEF EventType, RideStatus, Telling, Means, Sending, Counted
<1> HIDE DEF t, u, z
<1>7. LedgerGrows(r, {t}) /\ frames' = Append(z, FrameSays(r, u))
  BY <1>2, <1>6, TwiceRecorded DEF z
<1>8. Grown(frames, frames', r, {t, u}) /\ LastToldIn(frames', r, u)
  <2>1. Grown(frames, z, r, {t})
    BY <1>1, <1>6, OneGrown DEF z
  <2>2. z \in Seq(Frame)
    BY <2>1 DEF Grown
  <2>3. Grown(z, frames', r, {u}) /\ LastToldIn(frames', r, u)
    BY <1>6, <1>7, <2>2, OneGrown, LastIsTold
  <2> QED
    BY <1>6, <2>1, <2>3, TwiceGrown
<1> DEFINE gained == 0
<1>9. /\ gained \in {0, 1} /\ (gained = 1 <=> {t} \cap Sending # {})
      /\ (IF "notification_queued" \in {t} THEN 1 ELSE 0)
              + (IF sought[r].offer = "queued" THEN 1 ELSE 0)
              = (IF "offer_delivery_failed" \in {t} THEN 1 ELSE 0)
                  + (IF q.offer = "queued" THEN 1 ELSE 0) + gained
      /\ "device_offer_ack" \notin {t}
  BY <1>3, <1>4, <1>6
<1> HIDE DEF gained
<1>10. LedgerAdds(r)'
  BY <1>3, <1>4, <1>5, <1>7, <1>9, LedgerTells
<1>11. SearchOK(r)'
  BY <1>4, <1>5 DEF SearchOK
<1>12. \A v \in Counted \cup Sending : v \in {t, u} <=> v \in {t}
  BY <1>6
<1>13. \/ live' = Slipped(r)
       \/ {t, u} \cap Telling # {} /\ LastToldIn(frames', r, q.status)
  BY <1>2, <1>4, <1>6, <1>8 DEF u
<1>14. live' = live \/ live' = Slipped(r)
  BY <1>2
<1> QED
  BY Zenon, <1>2, <1>4, <1>7, <1>8, <1>10, <1>11, <1>12, <1>13, <1>14, SearchKeeps

\* The step that ends a ride: an event and the frame of the status, both told.
LEMMA EndStep ==
    ASSUME MonitorInv, NEW r \in Monitored, NEW q \in Sought,
           sought' = [sought EXCEPT ![r] = q], UNCHANGED <<saved, live>>,
           q.offer = sought[r].offer, ~q.run,
           q.taken = sought[r].taken, q.settling = sought[r].settling,
           q.status = "canceled" \/ sought[r].status \notin {"accepted", "canceled"},
           NEW t \in {"ride_cancelled", "dispatch_failed"}, q.status = Means(t),
           Recorded(r, <<t>>, <<FrameSays(r, q.status)>>)
    PROVE  MonitorInv'
<1> DEFINE u == q.status
           z == Append(frames, FrameSays(r, t))
<1>1. sought \in [Monitored -> Sought] /\ frames \in Seq(Frame)
  BY SoughtSays
<1>2. sought'[r] = q
  <2> HIDE DEF Sought
  <2> QED
    BY <1>1
<1>3. /\ t \in EventType /\ t # "notification_queued" /\ t \notin Sending /\ t \notin Counted
      /\ u \in RideStatus /\ u \in Telling /\ Means(u) = u /\ t # u
      /\ u \notin Sending /\ u \notin Counted /\ u \in {"canceled", "failed"}
  BY DEF EventType, RideStatus, Telling, Means, Sending, Counted
<1>4. LedgerGrows(r, {t}) /\ frames' = Append(z, FrameSays(r, u))
  BY <1>3, TwiceRecorded
<1>5. z \in Seq(Frame) /\ Grown(frames, z, r, {t})
  <2>1. Grown(frames, z, r, {t})
    BY <1>1, <1>3, OneGrown
  <2> QED
    BY <2>1 DEF Grown
<1> HIDE DEF z, u
<1>6. Grown(z, frames', r, {u}) /\ LastToldIn(frames', r, u)
  BY <1>3, <1>4, <1>5, OneGrown, LastIsTold
<1>7. Grown(frames, frames', r, {t, u})
  BY <1>3, <1>5, <1>6, TwiceGrown
<1> DEFINE gained == 0
<1>8. /\ gained \in {0, 1} /\ (gained = 1 <=> {t} \cap Sending # {})
      /\ (IF "notification_queued" \in {t} THEN 1 ELSE 0)
              + (IF sought[r].offer = "queued" THEN 1 ELSE 0)
              = (IF "offer_delivery_failed" \in {t} THEN 1 ELSE 0)
                  + (IF q.offer = "queued" THEN 1 ELSE 0) + gained
      /\ "device_offer_ack" \notin {t} /\ "driver_accepted" \notin {t}
  BY <1>3
<1> HIDE DEF gained
<1>9. LedgerAdds(r)'
  <2>1. happened[r]["driver_accepted"] > 0 => q.taken /\ q.status \in {"accepted", "canceled"}
    BY UntakenSays, SoughtSays DEF LedgerAdds
  <2> QED
    BY <1>2, <1>4, <1>8, <2>1, LedgerTells
<1>10. SearchOK(r)'
  BY <1>2, UntakenSays, SoughtSays DEF SearchOK
<1>11. /\ {t, u} \cap Telling # {} /\ LastToldIn(frames', r, q.status)
       /\ \A v \in Counted \cup Sending : v \in {t, u} <=> v \in {t}
  BY <1>3, <1>6 DEF u
<1> QED
  BY <1>4, <1>7, <1>9, <1>10, <1>11, SearchKeeps

LEMMA CancelRideKeeps ==
    ASSUME MonitorInv, NEW r \in Monitored, CancelRide(r)
    PROVE  MonitorInv'
<1> DEFINE q == [sought[r] EXCEPT !.status = "canceled", !.run = FALSE, !.cancelling = FALSE]
<1>1. sought[r] \in Sought
  BY SoughtSays
<1>2. /\ Recorded(r, <<"ride_cancelled">>, <<FrameSays(r, "canceled")>>)
      /\ sought' = [sought EXCEPT ![r] = q] /\ UNCHANGED <<saved, live>>
  BY DEF CancelRide
<1>3. q \in Sought /\ q.offer = sought[r].offer /\ q.status = "canceled"
      /\ q.settling = sought[r].settling /\ q.taken = sought[r].taken /\ ~q.run
  BY <1>1 DEF Sought, RideStatus
<1> HIDE DEF q
<1>5. Means("ride_cancelled") = "canceled"
  BY DEF Means
<1> QED
  BY <1>2, <1>3, <1>5, EndStep

\* A cancel that has read the row leaves all as it was.
LEMMA CancelReadsKeeps ==
    ASSUME MonitorInv, NEW r \in Monitored, CancelReads(r)
    PROVE  MonitorInv'
<1> DEFINE q == [sought[r] EXCEPT !.cancelling = TRUE]
           gained == 0
<1>1. sought[r] \in Sought /\ SearchOK(r) /\ frames \in Seq(Frame)
  BY SoughtSays
<1>2. /\ sought' = [sought EXCEPT ![r] = q] /\ UNCHANGED <<saved, live>>
      /\ happened' = happened /\ frames' = frames
  BY DEF CancelReads
<1>3. q \in Sought /\ q.offer = sought[r].offer /\ q.status = sought[r].status
      /\ q.settling = sought[r].settling /\ q.taken = sought[r].taken
      /\ q.run = sought[r].run /\ q.controlled = sought[r].controlled
  BY <1>1 DEF Sought
<1> HIDE DEF q
<1>4. LedgerGrows(r, {}) /\ Grown(frames, frames', r, {})
  BY <1>1, <1>2, NothingRecorded, NoneGrown
<1>5. /\ gained \in {0, 1} /\ (gained = 1 <=> {} \cap Sending # {})
      /\ (IF "notification_queued" \in {} THEN 1 ELSE 0)
              + (IF sought[r].offer = "queued" THEN 1 ELSE 0)
              = (IF "offer_delivery_failed" \in {} THEN 1 ELSE 0)
                  + (IF q.offer = "queued" THEN 1 ELSE 0) + gained
  BY <1>3
<1>6. q.settling => q.offer # "queued"
  BY <1>1, <1>3 DEF SearchOK
<1> HIDE DEF gained
<1> QED
  BY <1>2, <1>3, <1>4, <1>5, <1>6, QuietStep

LEMMA RunStopsKeeps ==
    ASSUME MonitorInv, NEW r \in Monitored, RunStops(r)
    PROVE  MonitorInv'
<1>1. sought \in [Monitored -> Sought] /\ sought[r] \in Sought /\ SearchOK(r)
      /\ frames \in Seq(Frame)
  BY SoughtSays
<1> DEFINE fails(reason) == /\ reason = "rounds_exhausted"
                            /\ sought[r].status = "searching" /\ ~sought[r].controlled
           q(reason) == [sought[r] EXCEPT !.run = FALSE,
                            !.status = IF fails(reason) THEN "failed" ELSE sought[r].status]
<1>2. PICK reason \in {"rounds_exhausted", "assigned_elsewhere", "operations_control"} :
          /\ reason = "assigned_elsewhere" => sought[r].status = "accepted"
          /\ reason = "operations_control" => sought[r].controlled
          /\ sought' = [sought EXCEPT ![r] = q(reason)]
          /\ Recorded(r, projectFinished(reason),
                      IF fails(reason) THEN <<FrameSays(r, "failed")>> ELSE << >>)
  BY DEF RunStops
<1>3. sought[r].run /\ UNCHANGED <<saved, live>>
  BY DEF RunStops
<1>4. CASE fails(reason)
  <2> DEFINE p == [sought[r] EXCEPT !.run = FALSE, !.status = "failed"]
  <2>1. p \in Sought /\ p.offer = sought[r].offer /\ p.status = "failed"
        /\ p.settling = sought[r].settling /\ p.taken = sought[r].taken /\ ~p.run
    BY <1>1 DEF Sought, RideStatus
  <2>2. sought' = [sought EXCEPT ![r] = p]
    BY <1>2, <1>4
  <2>3. Recorded(r, <<"dispatch_failed">>, <<FrameSays(r, "failed")>>)
    BY <1>2, <1>4 DEF projectFinished
  <2> HIDE DEF p
  <2>4. sought[r].status \notin {"accepted", "canceled"}
    BY <1>4
  <2>5. Means("dispatch_failed") = "failed"
    BY DEF Means
  <2> QED
    BY <1>3, <2>1, <2>2, <2>3, <2>4, <2>5, EndStep
<1>5. CASE ~fails(reason)
  <2> DEFINE p == [sought[r] EXCEPT !.run = FALSE]
  <2>1. p \in Sought /\ p.offer = sought[r].offer /\ p.status = sought[r].status
        /\ p.settling = sought[r].settling /\ p.controlled = sought[r].controlled /\ ~p.run
        /\ p.taken = sought[r].taken
    BY <1>1 DEF Sought
  <2>2. sought' = [sought EXCEPT ![r] = p]
    BY <1>2, <1>5
  <2>3. Recorded(r, projectFinished(reason), << >>)
    BY <1>2, <1>5
  <2> HIDE DEF p
  <2>4. p.settling => p.offer # "queued"
    BY <1>1, <2>1 DEF SearchOK
  <2> DEFINE gained == 0
  <2>5. CASE reason = "assigned_elsewhere"
    <3>1. projectFinished(reason) = << >>
      BY <2>5 DEF projectFinished
    <3>2. LedgerGrows(r, {}) /\ frames' = frames
      BY <2>3, <3>1, NoneRecorded
    <3>3. Grown(frames, frames', r, {})
      BY <1>1, <3>2, NoneGrown
    <3>4. /\ gained \in {0, 1} /\ (gained = 1 <=> {} \cap Sending # {})
          /\ (IF "notification_queued" \in {} THEN 1 ELSE 0)
                + (IF sought[r].offer = "queued" THEN 1 ELSE 0)
                = (IF "offer_delivery_failed" \in {} THEN 1 ELSE 0)
                    + (IF p.offer = "queued" THEN 1 ELSE 0) + gained
      BY <2>1
    <3> HIDE DEF gained
    <3> QED
      BY <1>3, <2>1, <2>2, <2>4, <3>2, <3>3, <3>4, QuietStep
  <2>6. CASE reason # "assigned_elsewhere"
    <3> DEFINE t == "dispatch_failed"
    <3>1. projectFinished(reason) = <<t>>
      BY <1>2, <2>6 DEF projectFinished
    <3>2. t \in EventType /\ t # "notification_queued" /\ t \notin Sending
      BY DEF EventType, Sending
    <3>3. LedgerGrows(r, {t}) /\ frames' = Append(frames, FrameSays(r, t))
      BY <2>3, <3>1, <3>2, OneRecorded
    <3>4. Grown(frames, frames', r, {t})
      BY <1>1, <3>2, <3>3, OneGrown
    <3>5. /\ gained \in {0, 1} /\ (gained = 1 <=> {t} \cap Sending # {})
          /\ (IF "notification_queued" \in {t} THEN 1 ELSE 0)
                + (IF sought[r].offer = "queued" THEN 1 ELSE 0)
                = (IF "offer_delivery_failed" \in {t} THEN 1 ELSE 0)
                    + (IF p.offer = "queued" THEN 1 ELSE 0) + gained
          /\ "device_offer_ack" \notin {t} /\ "driver_accepted" \notin {t}
      BY <2>1, <3>2
    <3>6. sought'[r] = p
      <4> HIDE DEF Sought
      <4> QED
        BY <1>1, <2>2
    <3> HIDE DEF gained
    <3>7. LedgerAdds(r)'
      <4>1. happened[r]["driver_accepted"] > 0
               => p.taken /\ p.status \in {"accepted", "canceled"}
        BY <2>1, SoughtSays DEF LedgerAdds
      <4> QED
        BY <2>1, <3>3, <3>5, <3>6, <4>1, LedgerTells
    <3>8. SearchOK(r)'
      BY <1>1, <2>1, <3>6 DEF SearchOK
    <3>9. p.controlled \/ p.settling
      BY <1>1, <1>2, <1>3, <1>5, <2>1, <2>6 DEF SearchOK
    <3>10. \A u \in Counted \cup Sending : u \in {t} <=> u \in {t}
      OBVIOUS
    <3> QED
      BY <1>3, <2>1, <2>2, <3>3, <3>4, <3>7, <3>8, <3>9, <3>10, SearchKeeps
  <2> QED
    BY <2>5, <2>6
<1> QED
  BY <1>4, <1>5

LEMMA ControlKeeps ==
    ASSUME MonitorInv, NEW r \in Monitored, Control(r)
    PROVE  MonitorInv'
<1> DEFINE q == [sought[r] EXCEPT !.controlled = TRUE]
<1>1. sought \in [Monitored -> Sought] /\ sought[r] \in Sought /\ SearchOK(r)
      /\ frames \in Seq(Frame)
  BY SoughtSays
<1>2. /\ sought' = [sought EXCEPT ![r] = q] /\ UNCHANGED <<saved, live>>
      /\ happened' = happened /\ frames' = frames
  BY DEF Control
<1>3. q \in Sought /\ q.offer = sought[r].offer /\ q.status = sought[r].status
      /\ q.settling = sought[r].settling /\ q.run = sought[r].run /\ q.controlled
      /\ q.taken = sought[r].taken
  BY <1>1 DEF Sought
<1> HIDE DEF q
<1>4. sought'[r] = q
  <2> HIDE DEF Sought
  <2> QED
    BY <1>1, <1>2
<1>5. LedgerGrows(r, {}) /\ Grown(frames, frames', r, {})
  BY <1>1, <1>2, NothingRecorded, NoneGrown
<1> DEFINE gained == 0
<1>6. /\ gained \in {0, 1} /\ (gained = 1 <=> {} \cap Sending # {})
      /\ (IF "notification_queued" \in {} THEN 1 ELSE 0)
              + (IF sought[r].offer = "queued" THEN 1 ELSE 0)
              = (IF "offer_delivery_failed" \in {} THEN 1 ELSE 0)
                  + (IF q.offer = "queued" THEN 1 ELSE 0) + gained
  BY <1>3
<1> HIDE DEF gained
<1>7. LedgerAdds(r)'
  <2>1. happened[r]["driver_accepted"] > 0 => q.taken /\ q.status \in {"accepted", "canceled"}
    BY <1>3, SoughtSays DEF LedgerAdds
  <2> QED
    BY <1>3, <1>4, <1>5, <1>6, <2>1, LedgerTells
<1>8. SearchOK(r)'
  BY <1>1, <1>3, <1>4 DEF SearchOK
<1> QED
  BY <1>2, <1>3, <1>5, <1>7, <1>8, SearchKeeps

LEMMA SearchGoesOnKeeps ==
    ASSUME MonitorInv, NEW r \in Monitored, SearchGoesOn(r)
    PROVE  MonitorInv'
BY RiderRequestsKeeps, OfferRoundKeeps, DeliverOfferKeeps, AnswersKeep, TakeRowKeeps,
   SettleAcceptKeeps, CancelReadsKeeps, CancelRideKeeps, RunStopsKeeps, ControlKeeps
   DEF SearchGoesOn

-----------------------------------------------------------------------------
(* The page goes on                                                         *)

LEMMA LiveSays ==
    ASSUME MonitorInv
    PROVE  /\ live \in Live /\ live.rows \in Lines /\ live.sync \in Syncing
           /\ live.looking \in BOOLEAN /\ live.syncs \in Nat
           /\ live.slipped \in SUBSET Monitored /\ live.leaving \in SUBSET Monitored
           /\ saved \in Ledger
<1> HIDE DEF Lines, Syncing, Ledger
<1>1. live \in Live /\ saved \in Ledger
  BY DEF MonitorInv, Typed
<1> QED
  BY <1>1 DEF Live

\* Nothing but the page, or the trail, changes.
LEMMA PageStep ==
    ASSUME MonitorInv, UNCHANGED <<sought, happened, frames>>,
           live' \in Live, saved' \in Ledger,
           \A k \in Monitored : Heard(k)' => Heard(k) \/ ~OnItsWay(k),
           \A k \in Monitored, row \in Line :
              /\ live'.rows[k] = row /\ k \notin live'.slipped => RowFits(row, k)
              /\ live'.sync.at = "answered" /\ live'.sync.rows[k] = row
                    /\ k \notin live'.sync.apart => RowFits(row, k)
    PROVE  MonitorInv'
<1>1. Typed'
  <2>1. Typed
    BY DEF MonitorInv
  <2> HIDE DEF Live, Ledger, Sought, Frame
  <2> QED
    BY <2>1 DEF Typed
<1>2. ASSUME NEW k \in Monitored PROVE LastTold(k)' /\ LedgerAdds(k)' /\ SearchOK(k)'
  <2>1. LastTold(k) /\ LedgerAdds(k) /\ SearchOK(k)
    BY DEF MonitorInv
  <2>2. ~OnItsWay(k) => LastToldIn(frames, k, sought[k].status)
    BY DEF OnItsWay, LastToldIn
  <2>3. Heard(k)' => Heard(k) \/ ~OnItsWay(k)
    OBVIOUS
  <2>4. ~Unsettled(k) /\ Heard(k)' => LastToldIn(frames, k, sought[k].status)
    BY <2>1, <2>2, <2>3 DEF LastTold
  <2>5. LastTold(k)'
    <3> HIDE DEF Heard
    <3> QED
      BY <2>4 DEF LastTold, LastToldIn, ToldIn, Unsettled
  <2> QED
    BY <2>1, <2>5 DEF LedgerAdds, OffersSent, WasSent, SearchOK
<1>3. live'.rows \in Lines /\ (live'.sync.at = "answered" => live'.sync.rows \in Lines)
  <2>1. live'.rows \in Lines /\ live'.sync \in Syncing
    <3> HIDE DEF Lines, Syncing
    <3> QED
      BY DEF Live
  <2> QED
    BY <2>1, AnsweringSays
<1>4. ASSUME NEW k \in Monitored, NEW row \in Line, RowFits(row, k) PROVE RowFits(row, k)'
  BY <1>4 DEF RowFits, CountFits, WasSent, Unsettled, SendingIn, ToldIn
<1>5. ASSUME NEW k \in Monitored PROVE RowTrue(k)'
  <2> SUFFICES ASSUME NEW row, row = live'.rows[k], row # NoLine, k \notin live'.slipped
               PROVE  RowFits(row, k)'
    BY DEF RowTrue, RowFits, CountFits, WasSent, Unsettled
  <2>1. row \in Line
    <3> HIDE DEF Line
    <3> QED
      BY <1>3 DEF Lines
  <2> QED
    BY <1>4, <2>1
<1>6. ASSUME NEW k \in Monitored PROVE SyncTrue(k)'
  <2> SUFFICES ASSUME live'.sync.at = "answered", NEW row, row = live'.sync.rows[k],
                      row # NoLine, k \notin live'.sync.apart
               PROVE  RowFits(row, k)'
    BY DEF SyncTrue, RowFits, CountFits, WasSent, Unsettled
  <2>1. row \in Line
    <3> HIDE DEF Line
    <3> QED
      BY <1>3 DEF Lines
  <2> QED
    BY <1>4, <2>1
<1> QED
  BY <1>1, <1>2, <1>5, <1>6 DEF MonitorInv

\* A line is a row, and no other.
LEMMA LineIsARow == ASSUME NEW row \in Line PROVE row # NoLine
<1>1. DOMAIN row = {"status", "notified", "acked", "rejected", "expired", "undelivered"}
  BY DEF Line
<1>2. DOMAIN NoLine = {"status"}
  BY DEF NoLine
<1>3. "acked" \in DOMAIN row /\ "acked" \notin DOMAIN NoLine
  BY <1>1, <1>2
<1> QED
  BY <1>3

\* A doubted row is a row still, and no other row is touched.
LEMMA DoubtedSays ==
    ASSUME NEW rows \in Lines, NEW S
    PROVE  /\ Doubted(rows, S) \in Lines
           /\ \A k \in Monitored : /\ Doubted(rows, S)[k] \in {rows[k], AnyLine}
                                   /\ k \notin S => Doubted(rows, S)[k] = rows[k]
<1>1. AnyLine \in Line
  BY DEF AnyLine, Line, RideStatus
<1> HIDE DEF Line, NoLine, AnyLine
<1>2. \A k \in Monitored : rows[k] \in Line \cup {NoLine}
  BY DEF Lines
<1>3. \A k \in Monitored :
         (IF k \in S /\ rows[k] # NoLine THEN AnyLine ELSE rows[k]) \in Line \cup {NoLine}
  BY <1>1, <1>2
<1>4. Doubted(rows, S) \in Lines
  BY <1>3 DEF Doubted, Lines
<1> QED
  BY <1>4 DEF Doubted

\* What the page holds of a ride fits.
LEMMA HeldFits ==
    ASSUME MonitorInv, NEW k \in Monitored, NEW row \in Line
    PROVE  /\ live.rows[k] = row /\ k \notin live.slipped => RowFits(row, k)
           /\ live.sync.at = "answered" /\ live.sync.rows[k] = row
                 /\ k \notin live.sync.apart => RowFits(row, k)
<1>1. row # NoLine
  BY LineIsARow
<1>2. RowTrue(k) /\ SyncTrue(k)
  BY DEF MonitorInv
<1> QED
  BY <1>1, <1>2 DEF RowTrue, SyncTrue

LEMMA SaveEventsKeeps ==
    ASSUME MonitorInv, NEW r \in Monitored, SaveEvents(r)
    PROVE  MonitorInv'
<1>1. live' = live /\ UNCHANGED <<sought, happened, frames>>
  BY DEF SaveEvents
<1>2. saved' \in Ledger
  <2>1. saved \in Ledger /\ happened \in Ledger
    BY LiveSays, SoughtSays
  <2>2. saved' = [saved EXCEPT ![r] = happened[r]]
    BY DEF SaveEvents
  <2> HIDE DEF EventType
  <2> QED
    BY <2>1, <2>2 DEF Ledger
<1>3. live' \in Live
  BY <1>1, LiveSays
<1>4. \A k \in Monitored, row \in Line :
              /\ live'.rows[k] = row /\ k \notin live'.slipped => RowFits(row, k)
              /\ live'.sync.at = "answered" /\ live'.sync.rows[k] = row
                    /\ k \notin live'.sync.apart => RowFits(row, k)
  BY Zenon, <1>1, HeldFits
<1>5. \A k \in Monitored : Heard(k)' => Heard(k)
  BY Zenon, <1>1 DEF Heard
<1> QED
  BY Zenon, <1>1, <1>2, <1>3, <1>4, <1>5, PageStep

LEMMA PageRests ==
    ASSUME MonitorInv, UNCHANGED monitorVars
    PROVE  MonitorInv'
<1>1. live' = live /\ saved' = saved /\ UNCHANGED <<sought, happened, frames>>
  BY DEF monitorVars
<1>2. live' \in Live /\ saved' \in Ledger
  BY <1>1, LiveSays
<1>3. \A k \in Monitored, row \in Line :
              /\ live'.rows[k] = row /\ k \notin live'.slipped => RowFits(row, k)
              /\ live'.sync.at = "answered" /\ live'.sync.rows[k] = row
                    /\ k \notin live'.sync.apart => RowFits(row, k)
  BY Zenon, <1>1, HeldFits
<1>4. \A k \in Monitored : Heard(k)' => Heard(k)
  BY Zenon, <1>1 DEF Heard
<1> QED
  BY Zenon, <1>1, <1>2, <1>3, <1>4, PageStep

\* The steps of the page that bring it nothing new of a ride.
LEMMA LivePageKeeps ==
    ASSUME MonitorInv,
           \/ Sync \/ SyncFinds \/ SyncCounts \/ SyncApplies \/ SyncFails \/ LeaveSection
           \/ \E r \in Monitored : TakeRowDown(r)
    PROVE  MonitorInv'
<1> HIDE DEF Lines, Syncing, Ledger
<1>1. UNCHANGED <<sought, happened, saved, frames>>
  BY DEF Sync, SyncFinds, SyncCounts, SyncApplies, SyncFails, LeaveSection, TakeRowDown
<1>2. saved' \in Ledger
  BY <1>1, LiveSays
<1>3. NoSync \in Syncing /\ [at |-> "asked"] \in Syncing /\ NoSync.at # "answered"
      /\ [at |-> "asked"].at # "answered"
  BY DEF Syncing, NoSync
<1>9. live'.slipped = live.slipped /\ live'.sync.at # "answered" =>
          \A k \in Monitored : Heard(k)' => Heard(k)
  BY DEF Heard
<1>10. ASSUME NEW sync \in Syncing, sync.at # "answered", live' = [live EXCEPT !.sync = sync]
       PROVE  MonitorInv'
  <2>1. /\ live' \in Live /\ live'.rows = live.rows /\ live'.slipped = live.slipped
        /\ live'.sync.at # "answered"
    BY <1>10, LiveSays DEF Live
  <2> QED
    BY <1>1, <1>2, <2>1, <1>9, HeldFits, PageStep
<1>11. ASSUME SyncFinds PROVE MonitorInv'
  <2> DEFINE found == [r \in Monitored |-> sought[r].status]
             sync == [at |-> "found", found |-> found]
  <2>1. found \in [Monitored -> RideStatus]
    <3>1. \A r \in Monitored : sought[r].status \in RideStatus
      <4>1. \A r \in Monitored : sought[r] \in Sought
        BY SoughtSays
      <4> QED
        BY <4>1 DEF Sought
    <3> QED
      BY <3>1
  <2> HIDE DEF found
  <2>2. sync \in Syncing /\ sync.at # "answered"
    BY <2>1 DEF Syncing, Reading
  <2>3. live' = [live EXCEPT !.sync = sync]
    BY <1>11 DEF SyncFinds, found
  <2> HIDE DEF sync
  <2> QED
    BY <1>10, <2>2, <2>3
<1>12. ASSUME SyncCounts PROVE MonitorInv'
  <2> DEFINE sync == [at |-> "counted", found |-> live.sync.found, trail |-> saved]
  <2>1. live.sync \in Reading
    BY <1>12, LiveSays, AnsweringSays DEF SyncCounts
  <2>2. saved \in Ledger /\ live.sync.found \in [Monitored -> RideStatus]
    BY <2>1, LiveSays DEF Reading
  <2>3. sync \in Syncing /\ sync.at # "answered"
    BY <2>2 DEF Syncing, Counting
  <2>4. live' = [live EXCEPT !.sync = sync]
    BY <1>12 DEF SyncCounts
  <2> HIDE DEF sync
  <2> QED
    BY <1>10, <2>3, <2>4
<1>4. ASSUME Sync PROVE MonitorInv'
  <2>1. /\ live' \in Live /\ live'.rows = live.rows /\ live'.slipped = live.slipped
        /\ live'.sync.at # "answered"
    <3> DEFINE wanted == [at |-> "asked"]
               more == live.syncs + 1
    <3>1. live' = [live EXCEPT !.looking = TRUE, !.syncs = more, !.sync = wanted]
      BY <1>4 DEF Sync
    <3>2. wanted \in Syncing /\ wanted.at # "answered" /\ more \in Nat
      BY <1>3, LiveSays
    <3> HIDE DEF wanted, more
    <3> QED
      BY <3>1, <3>2, LiveSays DEF Live
  <2> QED
    BY <1>1, <1>2, <2>1, <1>9, HeldFits, PageStep
<1>5. ASSUME SyncFails PROVE MonitorInv'
  <2>1. /\ live' \in Live /\ live'.rows = live.rows /\ live'.slipped = live.slipped
        /\ live'.sync.at # "answered"
    BY <1>3, <1>5, LiveSays DEF SyncFails, Live
  <2> QED
    BY <1>1, <1>2, <2>1, <1>9, HeldFits, PageStep
<1>6. ASSUME LeaveSection PROVE MonitorInv'
  <2> DEFINE rows == Doubted(live.rows, Monitored)
  <2>3. live' = [live EXCEPT !.looking = FALSE, !.rows = rows, !.slipped = Monitored]
    BY <1>6 DEF LeaveSection
  <2>4. rows \in Lines
    BY LiveSays, DoubtedSays
  <2> HIDE DEF rows
  <2>1. /\ live' \in Live /\ live'.sync = live.sync /\ live'.slipped = Monitored
    BY <2>3, <2>4, LiveSays DEF Live
  <2>2. \A k \in Monitored : Heard(k)' => Heard(k)
    BY <2>1 DEF Heard
  <2> QED
    BY <1>1, <1>2, <2>1, <2>2, HeldFits, PageStep
<1>7. ASSUME SyncApplies PROVE MonitorInv'
  <2>1. live.sync.at = "answered" /\ live.sync \in Syncing
    BY <1>7, LiveSays DEF SyncApplies
  <2>2. live.sync.rows \in Lines /\ live.sync.apart \in SUBSET Monitored
    BY <2>1, AnsweringSays
  <2>3. /\ live' \in Live /\ live'.rows = live.sync.rows
        /\ live'.slipped = live.sync.apart /\ live'.sync.at # "answered"
    BY <1>3, <1>7, <2>2, LiveSays DEF SyncApplies, Live
  <2>4. \A k \in Monitored : Heard(k)' => Heard(k)
    BY <2>1, <2>3 DEF Heard
  <2> QED
    BY <1>1, <1>2, <2>1, <2>3, <2>4, HeldFits, PageStep
<1>8. ASSUME NEW r \in Monitored, TakeRowDown(r) PROVE MonitorInv'
  <2>1. live' = [live EXCEPT !.rows = [live.rows EXCEPT ![r] = NoLine],
                             !.leaving = live.leaving \ {r}]
    BY <1>8 DEF TakeRowDown
  <2>2. /\ [live.rows EXCEPT ![r] = NoLine] \in Lines
        /\ [live.rows EXCEPT ![r] = NoLine][r] = NoLine
        /\ \A k \in Monitored : k # r => [live.rows EXCEPT ![r] = NoLine][k] = live.rows[k]
    <3> HIDE DEF Line, NoLine
    <3> QED
      BY LiveSays DEF Lines
  <2> DEFINE rows == [live.rows EXCEPT ![r] = NoLine]
  <2> HIDE DEF rows
  <2>3. /\ live' \in Live /\ live'.rows = rows /\ live'.slipped = live.slipped
        /\ live'.sync = live.sync
    <3>1. live' = [live EXCEPT !.rows = rows, !.leaving = live.leaving \ {r}]
      BY <2>1 DEF rows
    <3>2. rows \in Lines
      BY <2>2 DEF rows
    <3> QED
      BY <3>1, <3>2, LiveSays DEF Live
  <2>4. ASSUME NEW k \in Monitored, NEW row \in Line, rows[k] = row
        PROVE  live.rows[k] = row
    <3>1. row # NoLine
      BY LineIsARow
    <3> QED
      BY <2>2, <2>4, <3>1 DEF rows
  <2>5. \A k \in Monitored : Heard(k)' => Heard(k)
    BY <2>3 DEF Heard
  <2> QED
    BY <1>1, <1>2, <2>3, <2>4, <2>5, HeldFits, PageStep
<1> QED
  BY <1>4, <1>5, <1>6, <1>7, <1>8, <1>11, <1>12

\* An answer is what happened, of every ride that it is not apart from.
LEMMA SyncAnswersKeeps ==
    ASSUME MonitorInv, SyncAnswers
    PROVE  MonitorInv'
<1> DEFINE found == live.sync.found
           trail == live.sync.trail
           apart == {r \in Monitored : ~AllTold(r)}
           listed == liveRequests(found, trail)
           rows == Doubted(listed, apart)
           answer == [at |-> "answered", rows |-> rows, apart |-> apart]
<1>1. live' = [live EXCEPT !.sync = answer] /\ UNCHANGED <<sought, happened, saved, frames>>
  BY DEF SyncAnswers
<1>10. found \in [Monitored -> RideStatus] /\ trail \in Ledger
  <2> HIDE DEF Ledger
  <2>1. live.sync \in Counting
    BY LiveSays, AnsweringSays DEF SyncAnswers
  <2> QED
    BY <2>1 DEF Counting
<1>11. \A r \in Monitored :
          AllTold(r) <=> /\ found[r] = sought[r].status /\ ~sought[r].settling
                         /\ sought[r].run \/ trail[r] = happened[r]
                         /\ ~OnItsWay(r)
  BY DEF AllTold
<1> HIDE DEF found, trail
<1>2. ASSUME NEW r \in Monitored
      PROVE  happened[r] \in [EventType -> Nat] /\ trail[r] \in [EventType -> Nat]
  <2> HIDE DEF EventType
  <2> QED
    BY <1>10, SoughtSays DEF Ledger
<1>3. ASSUME NEW r \in Monitored PROVE rollupsFor(r, found[r], trail[r]) \in Line
  <2> DEFINE e == IF sought[r].run THEN happened[r] ELSE trail[r]
  <2>1. /\ happened[r] \in [EventType -> Nat] /\ trail[r] \in [EventType -> Nat]
        /\ found[r] \in RideStatus
    BY <1>2, <1>10
  <2>2. \A t \in EventType : e[t] \in Nat
    BY <2>1
  <2>3. /\ e["socket_offer_emitted"] \in Nat /\ e["fcm_accepted_by_provider"] \in Nat
        /\ e["device_offer_ack"] \in Nat /\ e["driver_rejected"] \in Nat
        /\ e["offer_expired"] \in Nat /\ e["offer_delivery_failed"] \in Nat
    BY <2>2 DEF EventType
  <2>4. sought[r].run => OffersSent(r) \in Nat
    BY SoughtSays DEF LedgerAdds
  <2> DEFINE handed == e["notification_queued"] - e["offer_delivery_failed"]
                         - (IF sought[r].offer = "queued" THEN 1 ELSE 0)
             notified == IF sought[r].run THEN handed
                         ELSE Least(1, Most(e["socket_offer_emitted"],
                                            e["fcm_accepted_by_provider"]))
             acked == Least(1, e["device_offer_ack"])
  <2>5. sought[r].run => handed = OffersSent(r)
    BY DEF OffersSent
  <2>6. notified \in Nat
    <3> HIDE DEF e, handed
    <3> QED
      BY <2>3, <2>4, <2>5 DEF Least, Most
  <2>7. acked \in Nat
    <3> HIDE DEF e
    <3> QED
      BY <2>3 DEF Least
  <2>8. rollupsFor(r, found[r], trail[r]) =
         [status |-> found[r], notified |-> notified, acked |-> acked,
          rejected |-> e["driver_rejected"], expired |-> e["offer_expired"],
          undelivered |-> e["offer_delivery_failed"]]
    BY DEF rollupsFor
  <2> HIDE DEF e, handed, notified, acked
  <2> QED
    BY <2>1, <2>3, <2>6, <2>7, <2>8 DEF Line
<1>4. rows \in Lines /\ \A k \in Monitored : k \notin apart => rows[k] = listed[k]
  <2>1. \A r \in Monitored : rollupsFor(r, found[r], trail[r]) \in Line \cup {NoLine}
    BY <1>3
  <2>2. listed \in Lines
    <3> HIDE DEF Line, NoLine
    <3> QED
      BY <2>1 DEF liveRequests, Lines
  <2> HIDE DEF listed, apart, Lines
  <2> QED
    BY <2>2, DoubtedSays
<1>5. live' \in Live /\ live'.rows = live.rows /\ live'.slipped = live.slipped
      /\ live'.sync = answer
  <2>1. answer \in Syncing
    <3> HIDE DEF Lines, rows
    <3> QED
      BY <1>4 DEF Syncing, Answering
  <2> HIDE DEF answer, Syncing, Lines
  <2> QED
    BY <1>1, <2>1, LiveSays DEF Live
<1>6. ASSUME NEW k \in Monitored, NEW row \in Line, rows[k] = row, k \notin apart
      PROVE  RowFits(row, k)
  <2>1. /\ ~OnItsWay(k) /\ found[k] = sought[k].status
        /\ sought[k].run \/ trail[k] = happened[k]
    BY <1>6, <1>11
  <2>2. row = rollupsFor(k, found[k], trail[k])
    <3>1. row # NoLine /\ row = listed[k]
      BY <1>4, <1>6, LineIsARow
    <3> QED
      BY <3>1 DEF liveRequests
  <2> DEFINE e == happened[k]
  <2>3. e = IF sought[k].run THEN happened[k] ELSE trail[k]
    BY <2>1
  <2>4. /\ row.status = sought[k].status
        /\ row.notified = IF sought[k].run THEN OffersSent(k)
                          ELSE Least(1, Most(e["socket_offer_emitted"],
                                             e["fcm_accepted_by_provider"]))
        /\ row.acked = Least(1, e["device_offer_ack"])
        /\ row.rejected = e["driver_rejected"] /\ row.expired = e["offer_expired"]
        /\ row.undelivered = e["offer_delivery_failed"]
    BY <2>1, <2>2, <2>3 DEF rollupsFor, OffersSent
  <2>5. /\ e["socket_offer_emitted"] \in Nat /\ e["fcm_accepted_by_provider"] \in Nat
        /\ e["device_offer_ack"] \in Nat /\ e["driver_rejected"] \in Nat
        /\ e["offer_expired"] \in Nat /\ e["offer_delivery_failed"] \in Nat
    BY SoughtSays DEF EventType
  <2>6. LedgerAdds(k)
    BY SoughtSays
  <2>7. row.acked = e["device_offer_ack"]
    BY <2>4, <2>5, <2>6 DEF LedgerAdds, Least
  <2>8. \A t \in EventType : Numbered(frames, k, t) = 0
    <3> SUFFICES ASSUME NEW t \in EventType PROVE Numbered(frames, k, t) = 0
      OBVIOUS
    <3>1. FrameSays(k, t).ride = k
      BY FrameSaysWhat
    <3>2. \A i \in DOMAIN frames : frames[i] # FrameSays(k, t)
      BY <2>1, <3>1 DEF OnItsWay
    <3>3. frames \in Seq(Frame)
      BY SoughtSays
    <3> QED
      BY <3>2, <3>3, NumberedSays
  <2>9. ~SendingIn(frames, k)
    BY <2>1 DEF SendingIn, OnItsWay
  <2>10. /\ CountFits(row.acked, k, "device_offer_ack")
         /\ CountFits(row.rejected, k, "driver_rejected")
         /\ CountFits(row.expired, k, "offer_expired")
         /\ CountFits(row.undelivered, k, "offer_delivery_failed")
    BY <2>4, <2>5, <2>7, <2>8 DEF CountFits, EventType
  <2>11. row.notified > 0 <=> WasSent(k)
    <3>1. CASE sought[k].run
      BY <2>4, <2>6, <3>1 DEF LedgerAdds
    <3>2. CASE ~sought[k].run
      BY <2>4, <2>5, <3>2 DEF Least, Most, WasSent
    <3> QED
      BY <3>1, <3>2
  <2> QED
    BY <2>4, <2>9, <2>10, <2>11 DEF RowFits
<1>7. answer.rows = rows /\ answer.apart = apart
  OBVIOUS
<1>13. \A k \in Monitored : k \notin apart => ~OnItsWay(k)
  BY <1>11
<1> HIDE DEF answer, apart, rows
<1>14. \A k \in Monitored : Heard(k)' => Heard(k) \/ ~OnItsWay(k)
  BY <1>5, <1>7, <1>13 DEF Heard
<1>8. saved' \in Ledger
  BY <1>1, LiveSays
<1>9. ASSUME NEW k \in Monitored, NEW row \in Line
      PROVE  /\ live'.rows[k] = row /\ k \notin live'.slipped => RowFits(row, k)
             /\ live'.sync.at = "answered" /\ live'.sync.rows[k] = row
                   /\ k \notin live'.sync.apart => RowFits(row, k)
  BY Zenon, <1>5, <1>6, <1>7, HeldFits
<1> QED
  BY Zenon, <1>1, <1>5, <1>8, <1>9, <1>14, PageStep

LEMMA RestartKeeps ==
    ASSUME MonitorInv, MonitorRestart
    PROVE  MonitorInv'
<1> DEFINE q(r) == [sought[r] EXCEPT !.run = FALSE, !.settling = FALSE, !.cancelling = FALSE]
<1>1. /\ sought' = [r \in Monitored |-> q(r)]
      /\ frames' = << >> /\ live' = [live EXCEPT !.slipped = Monitored, !.sync = NoSync]
      /\ UNCHANGED <<happened, saved>>
  BY DEF MonitorRestart
<1>2. ASSUME NEW r \in Monitored
      PROVE  /\ sought'[r] \in Sought /\ ~sought'[r].run /\ ~sought'[r].settling
             /\ sought'[r].offer = sought[r].offer /\ sought'[r].status = sought[r].status
             /\ sought'[r].taken = sought[r].taken
  <2>1. sought[r] \in Sought
    BY SoughtSays
  <2>2. sought'[r] = q(r)
    BY <1>1
  <2> QED
    BY <2>1, <2>2 DEF Sought
<1>3. /\ live' \in Live /\ live'.slipped = Monitored /\ live'.sync.at # "answered"
  <2>1. NoSync \in Syncing /\ NoSync.at # "answered"
    BY DEF Syncing, NoSync
  <2> HIDE DEF Lines, Syncing, NoSync
  <2> QED
    BY <1>1, <2>1, LiveSays DEF Live
<1>4. Typed'
  <2>1. sought' \in [Monitored -> Sought]
    <3>1. \A r \in Monitored : q(r) \in Sought
      BY <1>1, <1>2
    <3> HIDE DEF Sought, q
    <3> QED
      BY <1>1, <3>1
  <2>2. happened' \in Ledger /\ saved' \in Ledger /\ frames' \in Seq(Frame)
    <3>1. << >> \in Seq(Frame)
      OBVIOUS
    <3> QED
      BY <1>1, <3>1, LiveSays DEF MonitorInv, Typed
  <2> QED
    BY Zenon, <1>3, <2>1, <2>2 DEF Typed
<1>5. ASSUME NEW r \in Monitored PROVE LastTold(r)' /\ LedgerAdds(r)' /\ SearchOK(r)'
  <2>1. LedgerAdds(r)
    BY SoughtSays
  <2>2. LastTold(r)'
    <3>1. DOMAIN frames' = {}
      <4>1. DOMAIN << >> = {}
        OBVIOUS
      <4> QED
        BY Zenon, <1>1, <4>1
    <3> QED
      BY <3>1 DEF LastTold, LastToldIn
  <2>3. LedgerAdds(r)'
    BY <1>1, <1>2, <2>1 DEF LedgerAdds, OffersSent, WasSent
  <2>4. SearchOK(r)'
    BY <1>2 DEF SearchOK
  <2> QED
    BY <2>2, <2>3, <2>4
<1>6. ASSUME NEW r \in Monitored PROVE RowTrue(r)' /\ SyncTrue(r)'
  BY <1>3 DEF RowTrue, SyncTrue
<1> QED
  BY <1>4, <1>5, <1>6 DEF MonitorInv

-----------------------------------------------------------------------------
(* A frame arrives                                                          *)

LEMMA FrameBehind ==
    ASSUME NEW s \in Seq(Frame), s # << >>, NEW z, z = Tail(s)
    PROVE  /\ z \in Seq(Frame) /\ Head(s) \in Frame /\ Head(s) = s[1] /\ 1 \in DOMAIN s
           /\ \A i \in DOMAIN z : i \in Nat /\ i > 0 /\ i + 1 \in DOMAIN s /\ z[i] = s[i + 1]
           /\ \A j \in DOMAIN s : j = 1 \/ \E i \in DOMAIN z : j = i + 1
<1>1. Len(s) \in Nat /\ DOMAIN s = 1..Len(s) /\ \A i \in DOMAIN s : s[i] \in Frame
  BY FramesSay
<1> HIDE DEF Frame
<1>2. /\ z \in Seq(Frame) /\ Len(z) = Len(s) - 1 /\ Head(s) = s[1]
      /\ \A i \in 1..Len(z) : z[i] = s[i + 1]
  BY HeadTailProperties
<1>3. Len(s) > 0
  BY <1>1
<1>4. DOMAIN z = 1..Len(z) /\ Len(z) \in Nat
  BY <1>2, FramesSay
<1>5. 1 \in DOMAIN s /\ Head(s) \in Frame
  BY <1>1, <1>2, <1>3
<1>6. \A i \in DOMAIN z : i \in Nat /\ i > 0 /\ i + 1 \in DOMAIN s /\ z[i] = s[i + 1]
  BY <1>1, <1>2, <1>4
<1>7. ASSUME NEW j \in DOMAIN s, j # 1 PROVE \E i \in DOMAIN z : j = i + 1
  <2>1. j - 1 \in DOMAIN z /\ j = (j - 1) + 1
    BY <1>1, <1>2, <1>4, <1>7
  <2> QED
    BY <2>1
<1> QED
  BY <1>2, <1>5, <1>6, <1>7

LEMMA TailSays ==
    ASSUME NEW s \in Seq(Frame), s # << >>, NEW z, z = Tail(s), NEW k \in Monitored
    PROVE  /\ SendingIn(s, k)
                 <=> SendingIn(z, k) \/ (Head(s).ride = k /\ Head(s).says \in Sending)
           /\ ToldIn(s, k, 0)
                 <=> ToldIn(z, k, 0) \/ (Head(s).ride = k /\ Head(s).says \in Telling)
           /\ \A status : LastToldIn(s, k, status) =>
                 /\ LastToldIn(z, k, status)
                 /\ Head(s).ride = k /\ Head(s).says \in Telling /\ ~ToldIn(z, k, 0)
                       => Means(Head(s).says) = status
<1>1. /\ Head(s) = s[1] /\ 1 \in DOMAIN s
      /\ \A i \in DOMAIN z : i \in Nat /\ i > 0 /\ i + 1 \in DOMAIN s /\ z[i] = s[i + 1]
      /\ \A j \in DOMAIN s : j = 1 \/ \E i \in DOMAIN z : j = i + 1
  BY FrameBehind
<1> DEFINE f == Head(s)
<1>2. f = s[1]
  BY <1>1
<1> HIDE DEF f
<1>3. SendingIn(s, k) <=> SendingIn(z, k) \/ (f.ride = k /\ f.says \in Sending)
  BY <1>1, <1>2 DEF SendingIn
<1>4. ASSUME NEW n \in Nat PROVE ToldIn(s, k, n + 1) <=> ToldIn(z, k, n)
  <2>1. ASSUME ToldIn(s, k, n + 1) PROVE ToldIn(z, k, n)
    <3>1. PICK j \in DOMAIN s : j > n + 1 /\ s[j].ride = k /\ s[j].says \in Telling
      BY <2>1 DEF ToldIn
    <3>2. j # 1
      <4>1. CASE j = 1
        BY <3>1, <4>1
      <4> QED
        BY <4>1
    <3>3. PICK i \in DOMAIN z : j = i + 1
      BY <1>1, <3>2
    <3>4. i \in Nat /\ z[i] = s[j]
      BY <1>1, <3>3
    <3>5. i > n
      BY <3>1, <3>3, <3>4
    <3> QED
      BY <3>1, <3>4, <3>5 DEF ToldIn
  <2>2. ASSUME ToldIn(z, k, n) PROVE ToldIn(s, k, n + 1)
    <3>1. PICK i \in DOMAIN z : i > n /\ z[i].ride = k /\ z[i].says \in Telling
      BY <2>2 DEF ToldIn
    <3>2. i + 1 \in DOMAIN s /\ i \in Nat /\ z[i] = s[i + 1]
      BY <1>1
    <3>3. i + 1 > n + 1
      BY <3>1, <3>2
    <3> QED
      BY <3>1, <3>2, <3>3 DEF ToldIn
  <2> QED
    BY <2>1, <2>2
<1>5. ToldIn(s, k, 1) <=> ToldIn(z, k, 0)
  <2>1. ToldIn(s, k, 0 + 1) <=> ToldIn(z, k, 0)
    BY <1>4
  <2> QED
    BY <2>1
<1>6. ToldIn(s, k, 0) <=> ToldIn(z, k, 0) \/ (f.ride = k /\ f.says \in Telling)
  <2>1. \A j \in DOMAIN s : j > 0 /\ (j = 1 \/ j > 1)
    BY <1>1
  <2>2. ToldIn(s, k, 0) <=> ToldIn(s, k, 1) \/ (f.ride = k /\ f.says \in Telling)
    BY <1>1, <1>2, <2>1 DEF ToldIn
  <2> QED
    BY <1>5, <2>2
<1>7. ASSUME NEW status, LastToldIn(s, k, status)
      PROVE  /\ LastToldIn(z, k, status)
             /\ f.ride = k /\ f.says \in Telling /\ ~ToldIn(z, k, 0) => Means(f.says) = status
  <2>1. ASSUME NEW i \in DOMAIN z, z[i].ride = k, z[i].says \in Telling, ~ToldIn(z, k, i)
        PROVE  Means(z[i].says) = status
    <3>1. i \in Nat /\ i + 1 \in DOMAIN s /\ z[i] = s[i + 1]
      BY <1>1
    <3>2. ~ToldIn(s, k, i + 1)
      BY <1>4, <2>1, <3>1
    <3> QED
      BY <1>7, <2>1, <3>1, <3>2 DEF LastToldIn
  <2>2. f.ride = k /\ f.says \in Telling /\ ~ToldIn(z, k, 0) => Means(f.says) = status
    BY <1>1, <1>2, <1>5, <1>7 DEF LastToldIn
  <2> QED
    BY <2>1, <2>2 DEF LastToldIn
<1> QED
  BY <1>3, <1>6, <1>7 DEF f

\* What a frame does to a row.
LEMMA AppliedSays ==
    ASSUME NEW row \in Line, NEW says \in EventType \cup RideStatus, NEW fresh,
           fresh = applyRideStatusUpdate(applyDispatchEvent(row, says), says)
    PROVE  /\ fresh \in Line
           /\ fresh.acked = row.acked + (IF says = "device_offer_ack" THEN 1 ELSE 0)
           /\ fresh.rejected = row.rejected + (IF says = "driver_rejected" THEN 1 ELSE 0)
           /\ fresh.expired = row.expired + (IF says = "offer_expired" THEN 1 ELSE 0)
           /\ fresh.undelivered
                 = row.undelivered + (IF says = "offer_delivery_failed" THEN 1 ELSE 0)
           /\ fresh.notified = row.notified + (IF says \in Sending THEN 1 ELSE 0)
           /\ fresh.status = IF says \in Telling THEN Means(says) ELSE row.status
<1>1. CASE says \in EventType
  <2>1. says \notin RideStatus
    BY <1>1 DEF EventType, RideStatus
  <2>2. fresh = applyDispatchEvent(row, says)
    BY <2>1 DEF applyRideStatusUpdate
  <2>3. CASE says \in Sending
    BY <2>2, <2>3 DEF applyDispatchEvent, Line, Sending, Telling, RideStatus
  <2>4. CASE says = "device_offer_ack"
    BY <2>2, <2>4 DEF applyDispatchEvent, Line, Sending, Telling, RideStatus
  <2>5. CASE says = "driver_rejected"
    BY <2>2, <2>5 DEF applyDispatchEvent, Line, Sending, Telling, RideStatus
  <2>6. CASE says = "offer_expired"
    BY <2>2, <2>6 DEF applyDispatchEvent, Line, Sending, Telling, RideStatus
  <2>7. CASE says = "offer_delivery_failed"
    BY <2>2, <2>7 DEF applyDispatchEvent, Line, Sending, Telling, RideStatus
  <2>8. CASE says = "dispatch_failed"
    BY <2>2, <2>8 DEF applyDispatchEvent, Line, Sending, Telling, RideStatus, Means
  <2>9. CASE says = "ride_cancelled"
    BY <2>2, <2>9 DEF applyDispatchEvent, Line, Sending, Telling, RideStatus, Means
  <2>10. CASE says = "driver_accepted"
    BY <2>2, <2>10 DEF applyDispatchEvent, Line, Sending, Telling, RideStatus, Means
  <2>11. CASE says = "notification_queued"
    BY <2>2, <2>11 DEF applyDispatchEvent, Line, Sending, Telling, RideStatus
  <2> QED
    BY <1>1, <2>3, <2>4, <2>5, <2>6, <2>7, <2>8, <2>9, <2>10, <2>11 DEF EventType, Sending
<1>2. CASE says \in RideStatus
  <2>1. applyDispatchEvent(row, says) = row
    BY <1>2 DEF applyDispatchEvent, RideStatus
  <2>2. fresh = [row EXCEPT !.status = says]
    BY <1>2, <2>1 DEF applyRideStatusUpdate
  <2>3. says \in Telling /\ Means(says) = says /\ says \notin Sending
        /\ says \notin {"device_offer_ack", "driver_rejected", "offer_expired",
                        "offer_delivery_failed"}
    BY <1>2 DEF Telling, Means, Sending, RideStatus
  <2> QED
    BY <1>2, <2>2, <2>3 DEF Line
<1> QED
  BY <1>1, <1>2

\* 1 if the frame that is next is one that says t of k.
Come(k, t) == IF Head(frames) = FrameSays(k, t) THEN 1 ELSE 0

\* The next frame says one thing of one ride.
LEMMA NextFrame ==
    ASSUME MonitorInv, frames # << >>, frames' = Tail(frames), NEW k \in Monitored
    PROVE  /\ frames \in Seq(Frame) /\ frames' \in Seq(Frame)
           /\ Head(frames).ride \in Monitored
           /\ Head(frames).says \in EventType \cup RideStatus
           /\ \A t \in EventType :
                 /\ Head(frames) = FrameSays(k, t)
                       <=> Head(frames).ride = k /\ Head(frames).says = t
                 /\ Numbered(frames, k, t) = Numbered(frames', k, t) + Come(k, t)
                 /\ Numbered(frames, k, t) \in Nat /\ Numbered(frames', k, t) \in Nat
                 /\ Come(k, t) \in {0, 1}
<1> DEFINE f == Head(frames)
<1>1. frames \in Seq(Frame)
  BY SoughtSays
<1>2. f \in Frame /\ frames' \in Seq(Frame)
  BY <1>1, FrameBehind
<1>3. /\ f.says \in EventType \cup RideStatus /\ f.ride \in Monitored
      /\ \A t \in EventType : f = FrameSays(k, t) <=> f.ride = k /\ f.says = t
  <2>1. f.says \in EventType \cup RideStatus /\ f = FrameSays(f.ride, f.says)
        /\ f.ride \in Monitored
    BY <1>2 DEF Frame, FrameSays
  <2> HIDE DEF f
  <2> QED
    BY <2>1, FrameSaysWhat
<1>4. ASSUME NEW t \in EventType
      PROVE  /\ Numbered(frames, k, t) = Numbered(frames', k, t) + Come(k, t)
             /\ Numbered(frames, k, t) \in Nat /\ Numbered(frames', k, t) \in Nat
             /\ Come(k, t) \in {0, 1}
  <2>1. ASSUME NEW s \in Seq(Frame) PROVE Numbered(s, k, t) \in Nat
    BY NumberedSays
  <2>2. Numbered(frames, k, t) \in Nat /\ Numbered(frames', k, t) \in Nat
    BY Zenon, <1>1, <1>2, <2>1
  <2>3. /\ f = FrameSays(k, t) => Numbered(frames, k, t) = Numbered(frames', k, t) + 1
        /\ f # FrameSays(k, t) => Numbered(frames, k, t) = Numbered(frames', k, t)
    BY <1>1, NumberedBehind
  <2> QED
    BY <2>2, <2>3 DEF Come
<1> QED
  BY <1>1, <1>2, <1>3, <1>4

\* What the next frame does to the row of its ride, and to no other.
LEMMA ArrivalSays ==
    ASSUME MonitorInv, frames # << >>, frames' = Tail(frames),
           NEW k \in Monitored, NEW row \in Line, NEW fresh \in Line,
           IF Head(frames).ride = k
           THEN fresh = applyRideStatusUpdate(applyDispatchEvent(row, Head(frames).says),
                                              Head(frames).says)
           ELSE fresh = row
    PROVE  /\ fresh.acked = row.acked + Come(k, "device_offer_ack")
           /\ fresh.rejected = row.rejected + Come(k, "driver_rejected")
           /\ fresh.expired = row.expired + Come(k, "offer_expired")
           /\ fresh.undelivered = row.undelivered + Come(k, "offer_delivery_failed")
           /\ fresh.notified = row.notified
                 + (IF Head(frames).ride = k /\ Head(frames).says \in Sending THEN 1 ELSE 0)
           /\ fresh.notified = row.notified + Come(k, "socket_offer_emitted")
                                  + Come(k, "fcm_accepted_by_provider")
           /\ fresh.status = IF Head(frames).ride = k /\ Head(frames).says \in Telling
                             THEN Means(Head(frames).says) ELSE row.status
           /\ row.acked \in Nat /\ row.rejected \in Nat /\ row.expired \in Nat
           /\ row.undelivered \in Nat /\ row.notified \in Nat
<1> DEFINE f == Head(frames)
<1>1. /\ row.acked \in Nat /\ row.rejected \in Nat /\ row.expired \in Nat
      /\ row.undelivered \in Nat /\ row.notified \in Nat
  BY DEF Line
<1>2. {"device_offer_ack", "driver_rejected", "offer_expired", "offer_delivery_failed",
       "socket_offer_emitted", "fcm_accepted_by_provider"} \subseteq EventType
  BY DEF EventType
<1>3. /\ f.says \in EventType \cup RideStatus
      /\ \A t \in EventType : f = FrameSays(k, t) <=> f.ride = k /\ f.says = t
  BY NextFrame
<1>4. \A t \in EventType : Come(k, t) = IF f.ride = k /\ f.says = t THEN 1 ELSE 0
  BY <1>3 DEF Come
<1>5. /\ Come(k, "device_offer_ack") = IF f.ride = k /\ f.says = "device_offer_ack" THEN 1 ELSE 0
      /\ Come(k, "driver_rejected") = IF f.ride = k /\ f.says = "driver_rejected" THEN 1 ELSE 0
      /\ Come(k, "offer_expired") = IF f.ride = k /\ f.says = "offer_expired" THEN 1 ELSE 0
      /\ Come(k, "offer_delivery_failed")
            = IF f.ride = k /\ f.says = "offer_delivery_failed" THEN 1 ELSE 0
      /\ Come(k, "socket_offer_emitted")
            = IF f.ride = k /\ f.says = "socket_offer_emitted" THEN 1 ELSE 0
      /\ Come(k, "fcm_accepted_by_provider")
            = IF f.ride = k /\ f.says = "fcm_accepted_by_provider" THEN 1 ELSE 0
  BY <1>2, <1>4
<1>6. CASE f.ride = k
  <2>1. fresh = applyRideStatusUpdate(applyDispatchEvent(row, f.says), f.says)
    BY <1>6
  <2> HIDE DEF f
  <2>2. /\ fresh.acked = row.acked + (IF f.says = "device_offer_ack" THEN 1 ELSE 0)
        /\ fresh.rejected = row.rejected + (IF f.says = "driver_rejected" THEN 1 ELSE 0)
        /\ fresh.expired = row.expired + (IF f.says = "offer_expired" THEN 1 ELSE 0)
        /\ fresh.undelivered
              = row.undelivered + (IF f.says = "offer_delivery_failed" THEN 1 ELSE 0)
        /\ fresh.notified = row.notified + (IF f.says \in Sending THEN 1 ELSE 0)
        /\ fresh.status = IF f.says \in Telling THEN Means(f.says) ELSE row.status
    BY <1>3, <2>1, AppliedSays
  <2>3. fresh.notified = row.notified + Come(k, "socket_offer_emitted")
                            + Come(k, "fcm_accepted_by_provider")
    BY <1>1, <1>5, <1>6, <2>2 DEF Sending
  <2>4. /\ fresh.acked = row.acked + Come(k, "device_offer_ack")
        /\ fresh.rejected = row.rejected + Come(k, "driver_rejected")
        /\ fresh.expired = row.expired + Come(k, "offer_expired")
        /\ fresh.undelivered = row.undelivered + Come(k, "offer_delivery_failed")
    BY <1>5, <1>6, <2>2
  <2> QED
    BY <1>1, <1>6, <2>2, <2>3, <2>4 DEF f
<1>7. CASE f.ride # k
  <2>1. fresh = row
    BY <1>7
  <2> HIDE DEF f
  <2>2. /\ Come(k, "device_offer_ack") = 0 /\ Come(k, "driver_rejected") = 0
        /\ Come(k, "offer_expired") = 0 /\ Come(k, "offer_delivery_failed") = 0
        /\ Come(k, "socket_offer_emitted") = 0 /\ Come(k, "fcm_accepted_by_provider") = 0
    BY <1>5, <1>7
  <2> QED
    BY <1>1, <1>7, <2>1, <2>2 DEF f
<1> QED
  BY <1>6, <1>7

\* A row that fits goes on fitting, once the frame is applied to the row it is for.
LEMMA ReceivedFits ==
    ASSUME MonitorInv, frames # << >>, frames' = Tail(frames), UNCHANGED <<sought, happened>>,
           NEW k \in Monitored, Heard(k), NEW row \in Line, RowFits(row, k),
           NEW fresh \in Line,
           IF Head(frames).ride = k
           THEN fresh = applyRideStatusUpdate(applyDispatchEvent(row, Head(frames).says),
                                              Head(frames).says)
           ELSE fresh = row
    PROVE  RowFits(fresh, k)'
<1> DEFINE f == Head(frames)
<1>1. LastTold(k) /\ frames \in Seq(Frame)
  BY SoughtSays
<1> HIDE DEF Heard
<1>2. /\ SendingIn(frames, k) <=> SendingIn(frames', k) \/ (f.ride = k /\ f.says \in Sending)
      /\ ToldIn(frames, k, 0) <=> ToldIn(frames', k, 0) \/ (f.ride = k /\ f.says \in Telling)
      /\ LastToldIn(frames, k, sought[k].status) =>
            (f.ride = k /\ f.says \in Telling /\ ~ToldIn(frames', k, 0)
               => Means(f.says) = sought[k].status)
  BY <1>1, TailSays
<1>3. \A t \in EventType :
         /\ Numbered(frames, k, t) = Numbered(frames', k, t) + Come(k, t)
         /\ Numbered(frames, k, t) \in Nat /\ Numbered(frames', k, t) \in Nat
         /\ Come(k, t) \in {0, 1}
  BY NextFrame
<1>4. /\ fresh.acked = row.acked + Come(k, "device_offer_ack")
      /\ fresh.rejected = row.rejected + Come(k, "driver_rejected")
      /\ fresh.expired = row.expired + Come(k, "offer_expired")
      /\ fresh.undelivered = row.undelivered + Come(k, "offer_delivery_failed")
      /\ fresh.notified = row.notified + (IF f.ride = k /\ f.says \in Sending THEN 1 ELSE 0)
      /\ fresh.status = IF f.ride = k /\ f.says \in Telling THEN Means(f.says) ELSE row.status
      /\ row.acked \in Nat /\ row.rejected \in Nat /\ row.expired \in Nat
      /\ row.undelivered \in Nat /\ row.notified \in Nat
  BY ArrivalSays
<1> HIDE DEF f
<1>5. ASSUME NEW n \in Nat, NEW m, NEW t \in EventType, m = n + Come(k, t), CountFits(n, k, t)
      PROVE  m + Numbered(frames', k, t) = happened[k][t]
  BY <1>3, <1>5 DEF CountFits
<1>6. /\ CountFits(fresh.acked, k, "device_offer_ack")'
      /\ CountFits(fresh.rejected, k, "driver_rejected")'
      /\ CountFits(fresh.expired, k, "offer_expired")'
      /\ CountFits(fresh.undelivered, k, "offer_delivery_failed")'
  <2>1. /\ "device_offer_ack" \in EventType /\ "driver_rejected" \in EventType
        /\ "offer_expired" \in EventType /\ "offer_delivery_failed" \in EventType
    BY DEF EventType
  <2>2. /\ CountFits(row.acked, k, "device_offer_ack")
        /\ CountFits(row.rejected, k, "driver_rejected")
        /\ CountFits(row.expired, k, "offer_expired")
        /\ CountFits(row.undelivered, k, "offer_delivery_failed")
    BY DEF RowFits
  <2>3. /\ fresh.acked + Numbered(frames', k, "device_offer_ack")
              = happened[k]["device_offer_ack"]
        /\ fresh.rejected + Numbered(frames', k, "driver_rejected")
              = happened[k]["driver_rejected"]
        /\ fresh.expired + Numbered(frames', k, "offer_expired")
              = happened[k]["offer_expired"]
        /\ fresh.undelivered + Numbered(frames', k, "offer_delivery_failed")
              = happened[k]["offer_delivery_failed"]
    BY <1>4, <1>5, <2>1, <2>2
  <2> QED
    BY <2>3 DEF CountFits
<1>7. (fresh.notified > 0 \/ SendingIn(frames', k)) <=> WasSent(k)
  <2>1. (row.notified > 0 \/ SendingIn(frames, k)) <=> WasSent(k)
    BY DEF RowFits
  <2>2. fresh.notified > 0 <=> row.notified > 0 \/ (f.ride = k /\ f.says \in Sending)
    BY <1>4
  <2> QED
    BY <1>2, <2>1, <2>2
<1>8. ~Unsettled(k) /\ ~ToldIn(frames', k, 0) => fresh.status = sought[k].status
  <2> SUFFICES ASSUME ~Unsettled(k), ~ToldIn(frames', k, 0)
               PROVE  fresh.status = sought[k].status
    OBVIOUS
  <2>1. CASE f.ride = k /\ f.says \in Telling
    <3>1. LastToldIn(frames, k, sought[k].status)
      BY Zenon, <1>1 DEF LastTold
    <3> QED
      BY <1>2, <1>4, <2>1, <3>1
  <2>2. CASE ~(f.ride = k /\ f.says \in Telling)
    <3>1. ~ToldIn(frames, k, 0)
      BY <1>2, <2>2
    <3>2. row.status = sought[k].status
      BY <3>1 DEF RowFits
    <3> QED
      BY <1>4, <2>2, <3>2
  <2> QED
    BY <2>1, <2>2
<1> QED
  BY <1>6, <1>7, <1>8 DEF RowFits, WasSent, Unsettled, SendingIn, ToldIn

LEMMA ReceiveFrameKeeps ==
    ASSUME MonitorInv, ReceiveFrame
    PROVE  MonitorInv'
<1> DEFINE f == Head(frames)
           held == live.rows[f.ride]
           fresh == applyRideStatusUpdate(applyDispatchEvent(held, f.says), f.says)
           rows == IF live.looking /\ held # NoLine
                   THEN [live.rows EXCEPT ![f.ride] = fresh] ELSE live.rows
           leaving == IF live.looking /\ held # NoLine /\ f.says \in {"canceled", "failed"}
                      THEN live.leaving \cup {f.ride} ELSE live.leaving
           slipped == IF live.sync.at = "answered" \/ ~live.looking
                      THEN live.slipped \cup {f.ride} ELSE live.slipped
           sync == IF live.sync.at = "answered"
                   THEN [live.sync EXCEPT !.apart = live.sync.apart \cup {f.ride}]
                   ELSE live.sync
<1>1. /\ frames # << >> /\ frames' = Tail(frames) /\ UNCHANGED <<sought, happened, saved>>
      /\ live' = [live EXCEPT !.rows = rows, !.leaving = leaving, !.slipped = slipped,
                              !.sync = sync]
  BY DEF ReceiveFrame
<1>2. frames \in Seq(Frame) /\ f \in Frame /\ frames' \in Seq(Frame)
  BY <1>1, SoughtSays, FrameBehind DEF MonitorInv, Typed
<1>3. f.ride \in Monitored /\ f.says \in EventType \cup RideStatus
  BY <1>2 DEF Frame
<1> HIDE DEF f
<1>4. held \in Line \cup {NoLine}
  <2> HIDE DEF Line, NoLine
  <2> QED
    BY <1>3, LiveSays DEF Lines
<1>5. held # NoLine => fresh \in Line
  <2> SUFFICES ASSUME held # NoLine PROVE fresh \in Line
    OBVIOUS
  <2>1. held \in Line
    BY <1>4
  <2> HIDE DEF held
  <2> QED
    BY <1>3, <2>1, AppliedSays
<1> HIDE DEF held, fresh
<1>6. /\ rows \in Lines
      /\ \A k \in Monitored : k # f.ride => rows[k] = live.rows[k]
      /\ live.looking /\ held # NoLine => rows[f.ride] = fresh
      /\ held = NoLine => rows[f.ride] = NoLine
  <2> HIDE DEF Line, NoLine
  <2>1. live.rows \in [Monitored -> Line \cup {NoLine}]
    BY LiveSays DEF Lines
  <2> QED
    BY <1>3, <1>5, <2>1 DEF Lines, held
<1>7. /\ sync \in Syncing /\ sync.at = live.sync.at
      /\ live.sync.at = "answered" => /\ sync.rows = live.sync.rows
                                      /\ sync.apart = live.sync.apart \cup {f.ride}
  <2>1. CASE live.sync.at = "answered"
    <3>1. live.sync \in [at : {"answered"}, rows : Lines, apart : SUBSET Monitored]
      BY <2>1, LiveSays, AnsweringSays DEF Answering
    <3>2. live.sync.apart \cup {f.ride} \in SUBSET Monitored
      BY <1>3, <3>1
    <3> HIDE DEF Lines
    <3> QED
      BY <2>1, <3>1, <3>2 DEF Syncing, Answering
  <2>2. CASE live.sync.at # "answered"
    BY <2>2, LiveSays
  <2> QED
    BY <2>1, <2>2
<1>8. leaving \in SUBSET Monitored /\ slipped \in SUBSET Monitored
  BY <1>3, LiveSays
<1>9. live.slipped \subseteq slipped
      /\ (live.sync.at = "answered" \/ ~live.looking => f.ride \in slipped)
  OBVIOUS
<1> HIDE DEF rows, leaving, slipped, sync
<1>10. /\ live' \in Live /\ live'.rows = rows /\ live'.slipped = slipped /\ live'.sync = sync
  <2> HIDE DEF Lines, Syncing
  <2> QED
    BY <1>1, <1>6, <1>7, <1>8, LiveSays DEF Live
<1>11. Typed'
  <2>1. Typed
    BY DEF MonitorInv
  <2> HIDE DEF Live, Ledger, Sought, Frame
  <2> QED
    BY <1>1, <1>2, <1>10, <2>1 DEF Typed
<1>16. ASSUME NEW k \in Monitored, Heard(k)' PROVE Heard(k)
  BY <1>7, <1>9, <1>10, <1>16 DEF Heard
<1>12. ASSUME NEW k \in Monitored PROVE LastTold(k)' /\ LedgerAdds(k)' /\ SearchOK(k)'
  <2>1. LastTold(k) /\ LedgerAdds(k) /\ SearchOK(k)
    BY SoughtSays
  <2>2. LastToldIn(frames, k, sought[k].status) => LastToldIn(frames', k, sought[k].status)
    BY <1>1, <1>2, TailSays
  <2>3. LastTold(k)'
    BY <1>1, <1>16, <2>1, <2>2 DEF LastTold, LastToldIn, ToldIn, Unsettled
  <2>4. LedgerAdds(k)' /\ SearchOK(k)'
    BY <1>1, <2>1 DEF LedgerAdds, OffersSent, WasSent, SearchOK
  <2> QED
    BY <2>3, <2>4
<1>13. ASSUME NEW k \in Monitored, Heard(k), NEW row \in Line, f.ride # k, RowFits(row, k)
       PROVE  RowFits(row, k)'
  BY <1>1, <1>13, ReceivedFits DEF f
<1>14. ASSUME NEW k \in Monitored PROVE RowTrue(k)'
  <2> SUFFICES ASSUME NEW row, row = rows[k], row # NoLine, k \notin slipped
               PROVE  RowFits(row, k)'
    BY <1>10 DEF RowTrue, RowFits, CountFits, WasSent, Unsettled
  <2>1. row \in Line /\ k \notin live.slipped
    <3> HIDE DEF Line
    <3> QED
      BY <1>6, <1>9 DEF Lines
  <2>2. CASE f.ride # k
    <3>1. live.rows[k] = row /\ Heard(k)
      BY <1>6, <2>1, <2>2 DEF Heard
    <3> QED
      BY <1>13, <2>1, <2>2, <3>1, HeldFits
  <2>3. CASE f.ride = k
    <3>1. live.looking /\ held # NoLine /\ row = fresh /\ live.rows[k] = held
      BY <1>6, <1>9, <2>3 DEF held
    <3>2. held \in Line
      BY <1>4, <3>1
    <3>3. RowFits(held, k)
      BY <2>1, <3>1, <3>2, HeldFits
    <3>4. fresh = applyRideStatusUpdate(applyDispatchEvent(held, f.says), f.says)
      BY DEF fresh
    <3>5. Heard(k)
      BY <2>1 DEF Heard
    <3> QED
      BY <1>1, <2>1, <2>3, <3>1, <3>2, <3>3, <3>4, <3>5, ReceivedFits DEF f
  <2> QED
    BY <2>2, <2>3
<1>15. ASSUME NEW k \in Monitored PROVE SyncTrue(k)'
  <2> SUFFICES ASSUME sync.at = "answered", NEW row, row = sync.rows[k],
                      row # NoLine, k \notin sync.apart
               PROVE  RowFits(row, k)'
    BY <1>10 DEF SyncTrue, RowFits, CountFits, WasSent, Unsettled
  <2>1. /\ live.sync.at = "answered" /\ row = live.sync.rows[k]
        /\ k \notin live.sync.apart /\ f.ride # k /\ Heard(k)
    BY <1>7 DEF Heard
  <2>2. row \in Line
    <3>1. Typed
      BY DEF MonitorInv
    <3>2. row \in Line \cup {NoLine}
      BY <2>1, <3>1, RowOfLine
    <3> QED
      BY <3>2
  <2> QED
    BY <1>13, <2>1, <2>2, HeldFits
<1> QED
  BY <1>11, <1>12, <1>14, <1>15 DEF MonitorInv

-----------------------------------------------------------------------------

LEMMA MonitorStarts == ASSUME MonitorInit PROVE MonitorInv
<1>1. MaxOffers \in Nat
  BY MonitorAssumption
<1> DEFINE first == [status |-> "none", run |-> FALSE, round |-> 0, offer |-> "none",
                     settling |-> FALSE, cancelling |-> FALSE, controlled |-> FALSE,
                     taken |-> FALSE]
<1>2. /\ \A r \in Monitored : sought[r] = first /\ live.rows[r] = NoLine
      /\ \A r \in Monitored, t \in EventType : happened[r][t] = 0
      /\ frames = << >> /\ live.sync = NoSync
  BY DEF MonitorInit
<1>3. Typed
  <2>1. sought \in [Monitored -> Sought]
    <3>1. first \in Sought
      <4>1. 0 \in 0..MaxOffers
        BY <1>1
      <4> QED
        BY <4>1 DEF Sought, RideStatus
    <3> HIDE DEF Sought
    <3> QED
      BY <3>1 DEF MonitorInit
  <2>2. happened \in Ledger /\ saved \in Ledger
    <3> HIDE DEF EventType
    <3> QED
      BY DEF MonitorInit, Ledger
  <2>3. frames \in Seq(Frame)
    BY <1>2
  <2>4. live \in Live
    <3>1. [r \in Monitored |-> NoLine] \in Lines
      <4> HIDE DEF Line, NoLine
      <4> QED
        BY DEF Lines
    <3>2. NoSync \in Syncing
      BY DEF Syncing
    <3> HIDE DEF Lines, Syncing, NoSync
    <3> QED
      BY <3>1, <3>2 DEF MonitorInit, Live
  <2> QED
    BY <2>1, <2>2, <2>3, <2>4 DEF Typed
<1>4. ASSUME NEW r \in Monitored
      PROVE  LastTold(r) /\ LedgerAdds(r) /\ SearchOK(r) /\ RowTrue(r) /\ SyncTrue(r)
  <2>1. DOMAIN frames = {}
    <3>1. DOMAIN << >> = {}
      OBVIOUS
    <3> QED
      BY Zenon, <1>2, <3>1
  <2>2. LastTold(r)
    BY <2>1 DEF LastTold, LastToldIn
  <2>3. LedgerAdds(r)
    <3>1. /\ happened[r]["notification_queued"] = 0
          /\ happened[r]["offer_delivery_failed"] = 0
          /\ happened[r]["socket_offer_emitted"] = 0
          /\ happened[r]["fcm_accepted_by_provider"] = 0
          /\ happened[r]["device_offer_ack"] = 0 /\ happened[r]["driver_accepted"] = 0
      BY <1>2 DEF EventType
    <3>2. OffersSent(r) = 0
      <4>1. sought[r].offer # "queued"
        BY <1>2
      <4>2. (IF sought[r].offer = "queued" THEN 1 ELSE 0) = 0
        BY Zenon, <4>1
      <4>3. OffersSent(r) = 0 - 0 - 0
        BY Zenon, <3>1, <4>2 DEF OffersSent
      <4>4. 0 - 0 - 0 = 0
        OBVIOUS
      <4> QED
        BY Zenon, <4>3, <4>4
    <3> QED
      BY <3>1, <3>2 DEF LedgerAdds, WasSent
  <2>4. SearchOK(r)
    BY <1>2 DEF SearchOK
  <2>5. RowTrue(r) /\ SyncTrue(r)
    BY <1>2 DEF RowTrue, SyncTrue, NoSync
  <2> QED
    BY <2>2, <2>3, <2>4, <2>5
<1> QED
  BY <1>3, <1>4 DEF MonitorInv

LEMMA MonitorKeeps == MonitorInv /\ [MonitorNext]_monitorVars => MonitorInv'
<1> SUFFICES ASSUME MonitorInv, [MonitorNext]_monitorVars PROVE MonitorInv'
  OBVIOUS
<1>1. CASE \E r \in Monitored : SearchGoesOn(r)
  BY <1>1, SearchGoesOnKeeps
<1>2. CASE \E r \in Monitored : SaveEvents(r)
  BY <1>2, SaveEventsKeeps
<1>3. CASE MonitorRestart
  BY <1>3, RestartKeeps
<1>4. CASE PageGoesOn
  BY <1>4, LivePageKeeps, SyncAnswersKeeps, ReceiveFrameKeeps DEF PageGoesOn
<1>5. CASE UNCHANGED monitorVars
  BY <1>5, PageRests
<1> QED
  BY <1>1, <1>2, <1>3, <1>4, <1>5 DEF MonitorNext

\* A row nothing is on its way to is as the ride is.
LEMMA MonitorSaysSo == MonitorInv => MonitorTellsTheTruth
<1> SUFFICES ASSUME MonitorInv PROVE MonitorTellsTheTruth
  OBVIOUS
<1>1. ASSUME NEW r \in Monitored, NEW row, row = live.rows[r],
             ~OnItsWay(r), row # NoLine, r \notin live.slipped,
             ~sought[r].controlled, ~sought[r].settling
      PROVE  /\ row.status = sought[r].status
             /\ row.acked = happened[r]["device_offer_ack"]
             /\ row.rejected = happened[r]["driver_rejected"]
             /\ row.expired = happened[r]["offer_expired"]
             /\ row.undelivered = happened[r]["offer_delivery_failed"]
             /\ (row.notified > 0) =
                  (happened[r]["socket_offer_emitted"]
                     + happened[r]["fcm_accepted_by_provider"] > 0)
  <2>1. row \in Line
    <3> HIDE DEF Line
    <3>1. row \in Line \cup {NoLine}
      BY <1>1, LiveSays DEF Lines
    <3> QED
      BY <1>1, <3>1
  <2>2. RowFits(row, r)
    BY <1>1, <2>1, HeldFits
  <2>3. \A t \in EventType : Numbered(frames, r, t) = 0
    <3> SUFFICES ASSUME NEW t \in EventType PROVE Numbered(frames, r, t) = 0
      OBVIOUS
    <3>1. FrameSays(r, t).ride = r
      BY FrameSaysWhat
    <3>2. \A i \in DOMAIN frames : frames[i] # FrameSays(r, t)
      BY <1>1, <3>1 DEF OnItsWay
    <3> QED
      BY <3>2, SoughtSays, NumberedSays
  <2>4. ~SendingIn(frames, r) /\ ~ToldIn(frames, r, 0)
    BY <1>1 DEF SendingIn, ToldIn, OnItsWay
  <2>5. row.acked \in Nat /\ row.rejected \in Nat /\ row.expired \in Nat
        /\ row.undelivered \in Nat
    BY <2>1 DEF Line
  <2>6. /\ row.acked = happened[r]["device_offer_ack"]
        /\ row.rejected = happened[r]["driver_rejected"]
        /\ row.expired = happened[r]["offer_expired"]
        /\ row.undelivered = happened[r]["offer_delivery_failed"]
    BY <2>2, <2>3, <2>5 DEF RowFits, CountFits, EventType
  <2>7. row.notified > 0 <=> WasSent(r)
    BY <2>2, <2>4 DEF RowFits
  <2>8. WasSent(r) <=> happened[r]["socket_offer_emitted"]
                          + happened[r]["fcm_accepted_by_provider"] > 0
    <3>1. happened[r]["socket_offer_emitted"] \in Nat
          /\ happened[r]["fcm_accepted_by_provider"] \in Nat
      BY SoughtSays DEF EventType
    <3> QED
      BY <3>1 DEF WasSent
  <2> QED
    BY <1>1, <2>2, <2>4, <2>6, <2>7, <2>8 DEF RowFits, Unsettled
<1>2. QuietRowIsTrue
  BY Zenon, <1>1 DEF QuietRowIsTrue
<1>3. DetailIsTrue
  <2> SUFFICES ASSUME NEW r \in Monitored, saved[r] = happened[r], sought[r].round > 0
               PROVE  /\ sought[r].taken /\ happened[r]["driver_accepted"] > 0
                           => requestDetail(r).outcome = "accepted"
                      /\ requestDetail(r).outcome = "accepted"
                           => sought[r].taken /\ sought[r].status \in {"accepted", "canceled"}
                      /\ requestDetail(r).outcome = "cancelled_before_response"
                           => sought[r].status = "canceled" /\ happened[r]["driver_rejected"] = 0
    BY DEF DetailIsTrue
  <2>1. requestDetail(r).outcome
           = resolveCandidateOutcome(happened[r], sought[r].status = "canceled")
    BY DEF requestDetail
  <2>2. happened[r]["driver_accepted"] \in Nat /\ happened[r]["driver_rejected"] \in Nat
    BY SoughtSays DEF EventType
  <2>3. happened[r]["driver_accepted"] > 0
           => sought[r].taken /\ sought[r].status \in {"accepted", "canceled"}
    BY SoughtSays DEF LedgerAdds
  <2> QED
    BY <2>1, <2>2, <2>3 DEF resolveCandidateOutcome
<1> QED
  BY <1>2, <1>3 DEF MonitorTellsTheTruth

-----------------------------------------------------------------------------
(* What the live page counts stays within what can happen                   *)

\* 1 for a truth.
Once(b) == IF b THEN 1 ELSE 0

\* What one ride's search can have recorded: an event of an offer for each offer,
\* an event of the ride once.
Tallied(q, h) ==
    /\ h["notification_queued"] <= q.round
    /\ h["socket_offer_emitted"] + Once(q.offer = "queued") <= h["notification_queued"]
    /\ h["fcm_accepted_by_provider"] + Once(q.offer = "queued") <= h["notification_queued"]
    /\ h["offer_delivery_failed"] + Once(q.offer = "queued") <= h["notification_queued"]
    /\ h["driver_rejected"] + Once(q.offer \in {"queued", "open", "acked"})
          <= h["notification_queued"]
    /\ h["device_offer_ack"] <= 1 /\ h["offer_expired"] <= 1
    /\ h["driver_accepted"] <= 1
    /\ q.settling \/ q.status \in {"none", "searching"} => h["driver_accepted"] = 0
    /\ h["ride_cancelled"] <= 1
    /\ q.status # "canceled" => h["ride_cancelled"] = 0
    /\ q.cancelling => q.status \notin {"none", "canceled"}
    /\ h["dispatch_failed"] <= 1
    /\ q.run \/ q.status = "none" => h["dispatch_failed"] = 0

\* The trail, and the frames under way, hold no more than what happened.
NeverMore(r) ==
    \A t \in EventType :
       saved[r][t] <= happened[r][t] /\ Numbered(frames, r, t) <= happened[r][t]

\* A row counts no event more than twice: once in the answer it came in, once more
\* by the event's frame.
CountUnder(n, r, t) == n + Numbered(frames, r, t) <= 2 * happened[r][t]
RowUnder(row, r) ==
    /\ CountUnder(row.acked, r, "device_offer_ack")
    /\ CountUnder(row.rejected, r, "driver_rejected")
    /\ CountUnder(row.expired, r, "offer_expired")
    /\ CountUnder(row.undelivered, r, "offer_delivery_failed")
    /\ row.notified + Numbered(frames, r, "socket_offer_emitted")
            + Numbered(frames, r, "fcm_accepted_by_provider")
          <= happened[r]["notification_queued"] + happened[r]["socket_offer_emitted"]
                + happened[r]["fcm_accepted_by_provider"]

PageUnder(r) == live.rows[r] # NoLine => RowUnder(live.rows[r], r)
AnswerUnder(r) ==
    live.sync.at = "answered" /\ live.sync.rows[r] # NoLine => RowUnder(live.sync.rows[r], r)

\* The trail that was read holds no more than what happened.
ReadUnder(r) ==
    live.sync.at = "counted" =>
       \A t \in EventType : live.sync.trail[r][t] <= happened[r][t]

BoundsInv ==
    /\ MonitorInv /\ live.syncs <= MaxSyncs
    /\ \A r \in Monitored :
          /\ Tallied(sought[r], happened[r]) /\ NeverMore(r)
          /\ PageUnder(r) /\ AnswerUnder(r) /\ ReadUnder(r)

\* A step of r's search: the row of the ride, its events, their frames.
Searched(r, q, E, T) ==
    /\ sought' = [sought EXCEPT ![r] = q]
    /\ saved' = saved /\ (live' = live \/ live' = Slipped(r))
    /\ LedgerGrows(r, E) /\ Grown(frames, frames', r, T)
    /\ T \cap EventType \subseteq E
    /\ Tallied(q, happened'[r])

\* What a ledger counts of each type, and what it counts after a step.
LEMMA TallySays ==
    ASSUME MonitorInv, NEW r \in Monitored, NEW E, LedgerGrows(r, E)
    PROVE  \A t \in EventType :
              /\ happened[r][t] \in Nat /\ happened'[r][t] \in Nat
              /\ happened'[r][t] = happened[r][t] + Once(t \in E)
              /\ Once(t \in E) \in {0, 1}
<1> SUFFICES ASSUME NEW t \in EventType
             PROVE  /\ happened[r][t] \in Nat /\ happened'[r][t] \in Nat
                    /\ happened'[r][t] = happened[r][t] + Once(t \in E)
                    /\ Once(t \in E) \in {0, 1}
  OBVIOUS
<1>1. happened[r][t] \in Nat
  BY SoughtSays
<1>2. happened'[r][t] = happened[r][t] + (IF t \in E THEN 1 ELSE 0)
  BY DEF LedgerGrows
<1> QED
  BY <1>1, <1>2 DEF Once

\* What a step counts of each type of event, when it counts those of E.
Counts(h, g, E) ==
    LET Step(t) == h[t] \in Nat /\ g[t] = IF t \in E THEN h[t] + 1 ELSE h[t]
    IN  /\ Step("notification_queued") /\ Step("socket_offer_emitted")
        /\ Step("fcm_accepted_by_provider") /\ Step("offer_delivery_failed")
        /\ Step("device_offer_ack") /\ Step("driver_rejected")
        /\ Step("offer_expired") /\ Step("driver_accepted")
        /\ Step("ride_cancelled") /\ Step("dispatch_failed")

LEMMA TallyNow ==
    ASSUME MonitorInv, NEW r \in Monitored, NEW E, LedgerGrows(r, E)
    PROVE  Counts(happened[r], happened'[r], E)
<1>1. ASSUME NEW t \in EventType
      PROVE  /\ happened[r][t] \in Nat
             /\ happened'[r][t] = IF t \in E THEN happened[r][t] + 1 ELSE happened[r][t]
  <2>1. /\ happened[r][t] \in Nat
        /\ happened'[r][t] = happened[r][t] + Once(t \in E)
    BY TallySays
  <2> QED
    BY <2>1 DEF Once
<1> QED
  BY <1>1 DEF Counts, EventType

\* One event and its frame.
LEMMA OneSearched ==
    ASSUME MonitorInv, NEW r \in Monitored, NEW t \in EventType, t # "notification_queued",
           Recorded(r, <<t>>, << >>)
    PROVE  LedgerGrows(r, {t}) /\ Grown(frames, frames', r, {t})
<1>1. LedgerGrows(r, {t}) /\ frames' = Append(frames, FrameSays(r, t))
  BY OneRecorded
<1> QED
  BY <1>1, OneGrown, SoughtSays

\* The frame of a status, and no event.
LEMMA StatusSearched ==
    ASSUME MonitorInv, NEW r \in Monitored, NEW t \in RideStatus, happened' = happened,
           frames' = Append(frames, FrameSays(r, t))
    PROVE  /\ LedgerGrows(r, {}) /\ Grown(frames, frames', r, {t})
           /\ {t} \cap EventType \subseteq {}
<1>1. LedgerGrows(r, {})
  BY NothingRecorded
<1>2. Grown(frames, frames', r, {t})
  BY OneGrown, SoughtSays
<1>3. {t} \cap EventType \subseteq {}
  BY DEF RideStatus, EventType
<1> QED
  BY <1>1, <1>2, <1>3

\* An event, its frame, and that of the status it gives the ride.
LEMMA EndSearched ==
    ASSUME MonitorInv, NEW r \in Monitored,
           NEW t \in {"ride_cancelled", "dispatch_failed", "driver_accepted"},
           NEW u \in {"canceled", "failed", "accepted"},
           Recorded(r, <<t>>, <<FrameSays(r, u)>>)
    PROVE  /\ LedgerGrows(r, {t}) /\ Grown(frames, frames', r, {t, u})
           /\ {t, u} \cap EventType \subseteq {t}
<1> DEFINE z == Append(frames, FrameSays(r, t))
<1>1. t \in EventType /\ t # "notification_queued" /\ u \in RideStatus /\ t # u
  BY DEF EventType, RideStatus
<1>2. LedgerGrows(r, {t}) /\ frames' = Append(z, FrameSays(r, u))
  BY <1>1, TwiceRecorded
<1>3. Grown(frames, z, r, {t})
  BY <1>1, OneGrown, SoughtSays
<1>4. z \in Seq(Frame)
  BY <1>3 DEF Grown
<1> HIDE DEF z
<1>5. Grown(z, frames', r, {u})
  BY <1>1, <1>2, <1>4, OneGrown
<1>6. Grown(frames, frames', r, {t, u})
  BY <1>1, <1>3, <1>5, TwiceGrown
<1>7. {t, u} \cap EventType \subseteq {t}
  BY DEF EventType
<1> QED
  BY <1>2, <1>6, <1>7

\* The row of the ride and what its search recorded, at the start of a step.
LEMMA TallyBefore ==
    ASSUME BoundsInv, NEW r \in Monitored
    PROVE  /\ MonitorInv /\ sought[r] \in Sought /\ SearchOK(r) /\ MaxOffers \in Nat
           /\ sought[r].round \in 0..MaxOffers
           /\ Tallied(sought[r], happened[r])
<1>1. MonitorInv /\ Tallied(sought[r], happened[r])
  BY DEF BoundsInv
<1>2. sought[r] \in Sought /\ SearchOK(r) /\ MaxOffers \in Nat
  BY <1>1, SoughtSays
<1> QED
  BY <1>1, <1>2 DEF Sought

LEMMA RequestSearched ==
    ASSUME BoundsInv, NEW r \in Monitored, RiderRequests(r)
    PROVE  \E q, E, T : q \in Sought /\ Searched(r, q, E, T)
<1> DEFINE q == [sought[r] EXCEPT !.status = "searching", !.run = TRUE]
<1>1. /\ MonitorInv /\ sought[r] \in Sought /\ Tallied(sought[r], happened[r])
  BY TallyBefore
<1>2. /\ sought[r].status = "none" /\ sought' = [sought EXCEPT ![r] = q]
      /\ UNCHANGED <<happened, saved, live>>
      /\ frames' = Append(frames, FrameSays(r, "searching"))
  BY DEF RiderRequests
<1>3. /\ q \in Sought /\ q.status = "searching" /\ q.round = sought[r].round
      /\ q.offer = sought[r].offer /\ q.settling = sought[r].settling
      /\ q.cancelling = sought[r].cancelling
  BY <1>1 DEF Sought, RideStatus
<1>4. /\ LedgerGrows(r, {}) /\ Grown(frames, frames', r, {"searching"})
      /\ {"searching"} \cap EventType \subseteq {}
  BY <1>1, <1>2, StatusSearched DEF RideStatus
<1> HIDE DEF q
<1>5. Tallied(q, happened'[r])
  <2>1. happened'[r] = happened[r]
    BY <1>2
  <2> QED
    BY <1>1, <1>2, <1>3, <2>1 DEF Tallied
<1>6. Searched(r, q, {}, {"searching"})
  BY <1>2, <1>4, <1>5 DEF Searched
<1> QED
  BY <1>3, <1>6

LEMMA RoundSearched ==
    ASSUME BoundsInv, NEW r \in Monitored, OfferRound(r)
    PROVE  \E q, E, T : q \in Sought /\ Searched(r, q, E, T)
<1> DEFINE q == [sought[r] EXCEPT !.offer = "queued", !.round = sought[r].round + 1]
           E == {"notification_queued"}
<1>1. /\ MonitorInv /\ sought[r] \in Sought /\ Tallied(sought[r], happened[r])
      /\ sought[r].round \in 0..MaxOffers /\ MaxOffers \in Nat
  BY TallyBefore
<1>2. /\ sought[r].offer \in {"none", "over"} /\ sought[r].round < MaxOffers
      /\ sought' = [sought EXCEPT ![r] = q] /\ UNCHANGED <<saved, live>>
      /\ Recorded(r, <<"notification_queued">>, << >>)
  BY DEF OfferRound
<1>3. /\ q \in Sought /\ q.offer = "queued" /\ q.status = sought[r].status
      /\ q.settling = sought[r].settling /\ q.run = sought[r].run
      /\ q.cancelling = sought[r].cancelling /\ q.round = sought[r].round + 1
  <2>1. sought[r].round + 1 \in 0..MaxOffers
    BY <1>1, <1>2
  <2> QED
    BY <1>1, <2>1 DEF Sought
<1>4. LedgerGrows(r, E) /\ frames' = frames
  BY <1>1, <1>2, NoneRecorded
<1>5. Grown(frames, frames', r, {})
  BY <1>1, <1>4, NoneGrown, SoughtSays
<1> HIDE DEF q
<1>6. Tallied(q, happened'[r])
  <2>1. Counts(happened[r], happened'[r], E)
    BY <1>1, <1>4, TallyNow
  <2> QED
    <3>1. /\ sought[r].offer \in {"none", "over"} /\ sought[r].round \in Nat
          /\ Tallied(sought[r], happened[r])
      BY <1>1, <1>2
    <3> QED
      BY <1>3, <2>1, <3>1 DEF Tallied, Once, Counts
<1>7. Searched(r, q, E, {})
  BY <1>2, <1>4, <1>5, <1>6 DEF Searched
<1> QED
  BY <1>3, <1>7

LEMMA DeliverySearched ==
    ASSUME BoundsInv, NEW r \in Monitored, DeliverOffer(r)
    PROVE  \E q, E, T : q \in Sought /\ Searched(r, q, E, T)
<1>1. /\ MonitorInv /\ sought[r] \in Sought /\ Tallied(sought[r], happened[r])
      /\ sought[r].round \in 0..MaxOffers
  BY TallyBefore
<1>2. PICK S \in SUBSET Sending :
          /\ sought' = [sought EXCEPT ![r].offer = IF S = {} THEN "over" ELSE "open"]
          /\ Recorded(r, projectDelivery(S), << >>)
  BY DEF DeliverOffer, Sending
<1> DEFINE q == [sought[r] EXCEPT !.offer = IF S = {} THEN "over" ELSE "open"]
<1>3. /\ q \in Sought /\ q.offer \in {"over", "open"} /\ q.status = sought[r].status
      /\ q.settling = sought[r].settling /\ q.run = sought[r].run
      /\ q.cancelling = sought[r].cancelling /\ q.round = sought[r].round
  BY <1>1 DEF Sought
<1>4. /\ sought' = [sought EXCEPT ![r] = q] /\ UNCHANGED <<saved, live>>
      /\ sought[r].offer = "queued"
  BY <1>2 DEF DeliverOffer
<1>5. PICK E \in {{"offer_delivery_failed"}} \cup SUBSET Sending :
              LedgerGrows(r, E) /\ Grown(frames, frames', r, E)
  BY <1>1, <1>2, DeliveryRecorded
<1>6. /\ "notification_queued" \notin E /\ "driver_rejected" \notin E
      /\ "device_offer_ack" \notin E /\ "offer_expired" \notin E
      /\ "driver_accepted" \notin E /\ "ride_cancelled" \notin E
      /\ "dispatch_failed" \notin E
  BY <1>5 DEF Sending
<1> HIDE DEF q
<1>7. Tallied(q, happened'[r])
  <2>1. Counts(happened[r], happened'[r], E)
    BY <1>1, <1>5, TallyNow
  <2> QED
    BY <1>1, <1>3, <1>4, <1>6, <2>1 DEF Tallied, Once, Counts
<1>8. Searched(r, q, E, E)
  BY <1>4, <1>5, <1>7 DEF Searched
<1> QED
  BY <1>3, <1>8

LEMMA AnswerSearched ==
    ASSUME BoundsInv, NEW r \in Monitored,
           Acknowledge(r) \/ Decline(r) \/ OfferExpires(r)
    PROVE  \E q, E, T : q \in Sought /\ Searched(r, q, E, T)
<1>1. /\ MonitorInv /\ sought[r] \in Sought /\ Tallied(sought[r], happened[r])
      /\ sought[r].round \in 0..MaxOffers /\ MaxOffers \in Nat
  BY TallyBefore
<1>2. ASSUME NEW q \in Sought, NEW t \in {"device_offer_ack", "driver_rejected", "offer_expired"},
             sought' = [sought EXCEPT ![r] = q], UNCHANGED <<saved, live>>,
             sought[r].offer \in {"open", "acked"}, q.status = sought[r].status,
             q.settling = sought[r].settling, q.run = sought[r].run,
             q.cancelling = sought[r].cancelling,
             sought[r].round <= q.round, q.offer \in {"acked", "over"},
             t = "driver_rejected" => q.offer = "over",
             t # "driver_rejected" => happened[r][t] = 0,
             Recorded(r, <<t>>, << >>)
      PROVE  Searched(r, q, {t}, {t})
  <2>1. t \in EventType /\ t # "notification_queued"
    BY DEF EventType
  <2>2. LedgerGrows(r, {t}) /\ Grown(frames, frames', r, {t})
    BY <1>1, <1>2, <2>1, OneSearched
  <2>3. q.round \in 0..MaxOffers
    BY DEF Sought
  <2>4. Tallied(q, happened'[r])
    <3>0. Counts(happened[r], happened'[r], {t})
      BY <1>1, <2>2, TallyNow
    <3>4. /\ sought[r].offer \in {"open", "acked"} /\ q.status = sought[r].status
          /\ q.settling = sought[r].settling /\ q.run = sought[r].run
          /\ q.cancelling = sought[r].cancelling
          /\ sought[r].round <= q.round /\ q.offer \in {"acked", "over"}
          /\ t = "driver_rejected" => q.offer = "over"
          /\ t # "driver_rejected" => happened[r][t] = 0
          /\ sought[r].round \in Nat /\ q.round \in Nat
          /\ Tallied(sought[r], happened[r])
      BY <1>1, <1>2, <2>3
    <3>1. CASE t = "device_offer_ack"
      BY <3>0, <3>1, <3>4 DEF Tallied, Once, Counts
    <3>2. CASE t = "driver_rejected"
      BY <3>0, <3>2, <3>4 DEF Tallied, Once, Counts
    <3>3. CASE t = "offer_expired"
      BY <3>0, <3>3, <3>4 DEF Tallied, Once, Counts
    <3> QED
      BY <3>1, <3>2, <3>3
  <2> QED
    BY <1>2, <2>2, <2>4 DEF Searched
<1>3. CASE Acknowledge(r)
  <2> DEFINE q == [sought[r] EXCEPT !.offer = "acked"]
             t == "device_offer_ack"
  <2>1. /\ q \in Sought /\ q.offer = "acked" /\ q.status = sought[r].status
        /\ q.settling = sought[r].settling /\ q.run = sought[r].run
        /\ q.cancelling = sought[r].cancelling /\ q.round = sought[r].round
    BY <1>1 DEF Sought
  <2>2. /\ sought' = [sought EXCEPT ![r] = q] /\ UNCHANGED <<saved, live>>
        /\ sought[r].offer \in {"open", "acked"} /\ happened[r][t] = 0
        /\ Recorded(r, <<t>>, << >>)
    BY <1>3 DEF Acknowledge
  <2>3. sought[r].round <= q.round
    BY <1>1, <2>1
  <2> HIDE DEF q
  <2>4. Searched(r, q, {t}, {t})
    BY <1>2, <2>1, <2>2, <2>3
  <2> QED
    BY <2>1, <2>4
<1>4. CASE Decline(r)
  <2> DEFINE q == [sought[r] EXCEPT !.offer = "over", !.round = MaxOffers]
             t == "driver_rejected"
  <2>1. /\ q \in Sought /\ q.offer = "over" /\ q.status = sought[r].status
        /\ q.settling = sought[r].settling /\ q.run = sought[r].run
        /\ q.cancelling = sought[r].cancelling /\ q.round = MaxOffers
    <3>1. MaxOffers \in 0..MaxOffers
      BY <1>1
    <3> QED
      BY <1>1, <3>1 DEF Sought
  <2>2. /\ sought' = [sought EXCEPT ![r] = q] /\ UNCHANGED <<saved, live>>
        /\ sought[r].offer \in {"open", "acked"}
        /\ Recorded(r, <<t>>, << >>)
    BY <1>4 DEF Decline, Offered
  <2>3. sought[r].round <= q.round
    BY <1>1, <2>1
  <2> HIDE DEF q
  <2>4. Searched(r, q, {t}, {t})
    BY <1>2, <2>1, <2>2, <2>3
  <2> QED
    BY <2>1, <2>4
<1>5. CASE OfferExpires(r)
  <2> DEFINE q == [sought[r] EXCEPT !.offer = "over"]
             t == "offer_expired"
  <2>1. /\ q \in Sought /\ q.offer = "over" /\ q.status = sought[r].status
        /\ q.settling = sought[r].settling /\ q.run = sought[r].run
        /\ q.cancelling = sought[r].cancelling /\ q.round = sought[r].round
    BY <1>1 DEF Sought
  <2>2. /\ sought' = [sought EXCEPT ![r] = q] /\ UNCHANGED <<saved, live>>
        /\ sought[r].offer \in {"open", "acked"} /\ happened[r][t] = 0
        /\ Recorded(r, <<t>>, << >>)
    BY <1>5 DEF OfferExpires, Offered
  <2>3. sought[r].round <= q.round
    BY <1>1, <2>1
  <2> HIDE DEF q
  <2>4. Searched(r, q, {t}, {t})
    BY <1>2, <2>1, <2>2, <2>3
  <2> QED
    BY <2>1, <2>4
<1> QED
  BY <1>3, <1>4, <1>5

LEMMA AcceptSearched ==
    ASSUME BoundsInv, NEW r \in Monitored, TakeRow(r) \/ SettleAccept(r)
    PROVE  \E q, E, T : q \in Sought /\ Searched(r, q, E, T)
<1>1. /\ MonitorInv /\ sought[r] \in Sought /\ Tallied(sought[r], happened[r])
      /\ SearchOK(r) /\ sought[r].round \in 0..MaxOffers
  BY TallyBefore
<1>2. CASE TakeRow(r)
  <2> DEFINE q == [sought[r] EXCEPT !.status = "accepted", !.settling = TRUE, !.taken = TRUE]
  <2>1. /\ sought[r].status = "searching" /\ sought' = [sought EXCEPT ![r] = q]
        /\ UNCHANGED <<happened, saved, frames, live>>
    BY <1>2 DEF TakeRow
  <2>2. /\ q \in Sought /\ q.status = "accepted" /\ q.round = sought[r].round
        /\ q.offer = sought[r].offer /\ q.run = sought[r].run
        /\ q.cancelling = sought[r].cancelling
    BY <1>1 DEF Sought, RideStatus
  <2>3. LedgerGrows(r, {}) /\ Grown(frames, frames', r, {})
    BY <1>1, <2>1, NothingRecorded, NoneGrown, SoughtSays
  <2> HIDE DEF q
  <2>4. Tallied(q, happened'[r])
    <3>1. happened'[r] = happened[r]
      BY <2>1
    <3> QED
      BY <1>1, <2>1, <2>2, <3>1 DEF Tallied
  <2>5. Searched(r, q, {}, {})
    BY <2>1, <2>3, <2>4 DEF Searched
  <2> QED
    BY <2>2, <2>5
<1>3. CASE SettleAccept(r)
  <2> DEFINE q == [sought[r] EXCEPT !.settling = FALSE, !.run = FALSE, !.offer = "over"]
             t == "driver_accepted"
  <2>1. /\ sought[r].settling /\ sought' = [sought EXCEPT ![r] = q] /\ saved' = saved
        /\ live' = live \/ live' = Slipped(r)
        /\ Recorded(r, <<t>>, <<FrameSays(r, "accepted")>>)
    BY <1>3 DEF SettleAccept
  <2>2. /\ q \in Sought /\ q.status = sought[r].status /\ q.round = sought[r].round
        /\ q.offer = "over" /\ ~q.run /\ ~q.settling /\ q.cancelling = sought[r].cancelling
    BY <1>1 DEF Sought
  <2>3. /\ LedgerGrows(r, {t}) /\ Grown(frames, frames', r, {t, "accepted"})
        /\ {t, "accepted"} \cap EventType \subseteq {t}
    BY <1>1, <2>1, EndSearched
  <2>4. q.status \in {"accepted", "canceled"}
    BY <1>1, <2>1, <2>2 DEF SearchOK
  <2> HIDE DEF q
  <2>5. Tallied(q, happened'[r])
    <3>1. Counts(happened[r], happened'[r], {t})
      BY <1>1, <2>3, TallyNow
    <3>2. sought[r].settling /\ sought[r].round \in Nat /\ Tallied(sought[r], happened[r])
      BY <1>1, <2>1
    <3> QED
      BY <2>2, <2>4, <3>1, <3>2 DEF Tallied, Once, Counts
  <2>6. Searched(r, q, {t}, {t, "accepted"})
    BY <2>1, <2>3, <2>5 DEF Searched
  <2> QED
    BY <2>2, <2>6
<1> QED
  BY <1>2, <1>3

LEMMA CancelSearched ==
    ASSUME BoundsInv, NEW r \in Monitored, CancelReads(r) \/ CancelRide(r)
    PROVE  \E q, E, T : q \in Sought /\ Searched(r, q, E, T)
<1>1. /\ MonitorInv /\ sought[r] \in Sought /\ Tallied(sought[r], happened[r])
      /\ sought[r].round \in 0..MaxOffers
  BY TallyBefore
<1>2. CASE CancelReads(r)
  <2> DEFINE q == [sought[r] EXCEPT !.cancelling = TRUE]
  <2>1. /\ sought[r].status \in {"searching", "accepted"}
        /\ sought' = [sought EXCEPT ![r] = q] /\ UNCHANGED <<happened, saved, frames, live>>
    BY <1>2 DEF CancelReads
  <2>2. /\ q \in Sought /\ q.status = sought[r].status /\ q.round = sought[r].round
        /\ q.offer = sought[r].offer /\ q.run = sought[r].run
        /\ q.settling = sought[r].settling
    BY <1>1 DEF Sought
  <2>3. LedgerGrows(r, {}) /\ Grown(frames, frames', r, {})
    BY <1>1, <2>1, NothingRecorded, NoneGrown, SoughtSays
  <2> HIDE DEF q
  <2>4. Tallied(q, happened'[r])
    <3>1. happened'[r] = happened[r]
      BY <2>1
    <3> QED
      BY <1>1, <2>1, <2>2, <3>1 DEF Tallied
  <2>5. Searched(r, q, {}, {})
    BY <2>1, <2>3, <2>4 DEF Searched
  <2> QED
    BY <2>2, <2>5
<1>3. CASE CancelRide(r)
  <2> DEFINE q == [sought[r] EXCEPT !.status = "canceled", !.run = FALSE, !.cancelling = FALSE]
             t == "ride_cancelled"
  <2>1. /\ sought[r].cancelling /\ sought' = [sought EXCEPT ![r] = q]
        /\ UNCHANGED <<saved, live>> /\ Recorded(r, <<t>>, <<FrameSays(r, "canceled")>>)
    BY <1>3 DEF CancelRide
  <2>2. /\ q \in Sought /\ q.status = "canceled" /\ q.round = sought[r].round
        /\ q.offer = sought[r].offer /\ ~q.run /\ q.settling = sought[r].settling
        /\ ~q.cancelling
    BY <1>1 DEF Sought, RideStatus
  <2>3. /\ LedgerGrows(r, {t}) /\ Grown(frames, frames', r, {t, "canceled"})
        /\ {t, "canceled"} \cap EventType \subseteq {t}
    BY <1>1, <2>1, EndSearched
  <2> HIDE DEF q
  <2>4. Tallied(q, happened'[r])
    <3>1. Counts(happened[r], happened'[r], {t})
      BY <1>1, <2>3, TallyNow
    <3> QED
      BY <1>1, <2>1, <2>2, <3>1 DEF Tallied, Once, Counts
  <2>5. Searched(r, q, {t}, {t, "canceled"})
    BY <2>1, <2>3, <2>4 DEF Searched
  <2> QED
    BY <2>2, <2>5
<1> QED
  BY <1>2, <1>3

LEMMA StopSearched ==
    ASSUME BoundsInv, NEW r \in Monitored, RunStops(r)
    PROVE  \E q, E, T : q \in Sought /\ Searched(r, q, E, T)
<1>1. /\ MonitorInv /\ sought[r] \in Sought /\ Tallied(sought[r], happened[r])
      /\ sought[r].round \in 0..MaxOffers /\ SearchOK(r)
  BY TallyBefore
<1> DEFINE fails(reason) == /\ reason = "rounds_exhausted"
                            /\ sought[r].status = "searching" /\ ~sought[r].controlled
           t == "dispatch_failed"
<1>2. PICK reason \in {"rounds_exhausted", "assigned_elsewhere", "operations_control"} :
          /\ sought' = [sought EXCEPT ![r].run = FALSE,
                            ![r].status = IF fails(reason) THEN "failed" ELSE @]
          /\ Recorded(r, projectFinished(reason),
                      IF fails(reason) THEN <<FrameSays(r, "failed")>> ELSE << >>)
  BY DEF RunStops
<1>3. sought[r].run /\ UNCHANGED <<saved, live>>
  BY DEF RunStops
<1> DEFINE q == [sought[r] EXCEPT !.run = FALSE,
                     !.status = IF fails(reason) THEN "failed" ELSE sought[r].status]
<1>4. /\ q \in Sought /\ q.round = sought[r].round /\ q.offer = sought[r].offer
      /\ ~q.run /\ q.settling = sought[r].settling /\ q.cancelling = sought[r].cancelling
      /\ q.status = IF fails(reason) THEN "failed" ELSE sought[r].status
  BY <1>1 DEF Sought, RideStatus
<1>5. sought' = [sought EXCEPT ![r] = q]
  BY <1>2
<1>6. sought[r].status \in {"searching", "accepted"}
      /\ (fails(reason) => sought[r].status = "searching")
  BY <1>1, <1>3 DEF SearchOK
<1>7. projectFinished(reason) \in {<< >>, <<t>>} /\ (fails(reason) => projectFinished(reason) = <<t>>)
  BY <1>2 DEF projectFinished
<1> HIDE DEF q, fails
<1>8. ASSUME NEW E \in {{}, {t}}, LedgerGrows(r, E) PROVE Tallied(q, happened'[r])
  <2>0. Counts(happened[r], happened'[r], E)
    BY <1>1, <1>8, TallyNow
  <2>1. CASE E = {}
    BY <1>1, <1>3, <1>4, <1>6, <2>0, <2>1 DEF Tallied, Once, Counts
  <2>2. CASE E = {t}
    BY <1>1, <1>3, <1>4, <1>6, <2>0, <2>2 DEF Tallied, Once, Counts
  <2> QED
    BY <2>1, <2>2
<1>9. CASE fails(reason)
  <2>1. Recorded(r, <<t>>, <<FrameSays(r, "failed")>>)
    BY <1>2, <1>7, <1>9
  <2>2. /\ LedgerGrows(r, {t}) /\ Grown(frames, frames', r, {t, "failed"})
        /\ {t, "failed"} \cap EventType \subseteq {t}
    BY <1>1, <2>1, EndSearched
  <2>3. Searched(r, q, {t}, {t, "failed"})
    BY <1>3, <1>5, <1>8, <2>2 DEF Searched
  <2> QED
    BY <1>4, <2>3
<1>10. CASE ~fails(reason) /\ projectFinished(reason) = <<t>>
  <2>1. Recorded(r, <<t>>, << >>)
    BY <1>2, <1>10
  <2>2. LedgerGrows(r, {t}) /\ Grown(frames, frames', r, {t})
    BY <1>1, <2>1, OneSearched DEF EventType
  <2>3. Searched(r, q, {t}, {t})
    BY <1>3, <1>5, <1>8, <2>2 DEF Searched
  <2> QED
    BY <1>4, <2>3
<1>11. CASE ~fails(reason) /\ projectFinished(reason) = << >>
  <2>1. Recorded(r, << >>, << >>)
    BY <1>2, <1>11
  <2>2. LedgerGrows(r, {}) /\ frames' = frames
    BY <1>1, <2>1, NoneRecorded
  <2>3. Grown(frames, frames', r, {})
    BY <1>1, <2>2, NoneGrown, SoughtSays
  <2>4. Searched(r, q, {}, {})
    BY <1>3, <1>5, <1>8, <2>2, <2>3 DEF Searched
  <2> QED
    BY <1>4, <2>4
<1> QED
  BY <1>7, <1>9, <1>10, <1>11

LEMMA ControlSearched ==
    ASSUME BoundsInv, NEW r \in Monitored, Control(r)
    PROVE  \E q, E, T : q \in Sought /\ Searched(r, q, E, T)
<1> DEFINE q == [sought[r] EXCEPT !.controlled = TRUE]
<1>1. /\ MonitorInv /\ sought[r] \in Sought /\ Tallied(sought[r], happened[r])
  BY TallyBefore
<1>2. sought' = [sought EXCEPT ![r] = q] /\ UNCHANGED <<happened, saved, frames, live>>
  BY DEF Control
<1>3. /\ q \in Sought /\ q.status = sought[r].status /\ q.round = sought[r].round
      /\ q.offer = sought[r].offer /\ q.run = sought[r].run
      /\ q.settling = sought[r].settling /\ q.cancelling = sought[r].cancelling
  BY <1>1 DEF Sought
<1>4. LedgerGrows(r, {}) /\ Grown(frames, frames', r, {})
  BY <1>1, <1>2, NothingRecorded, NoneGrown, SoughtSays
<1> HIDE DEF q
<1>5. Tallied(q, happened'[r])
  <2>1. happened'[r] = happened[r]
    BY <1>2
  <2> QED
    BY <1>1, <1>3, <2>1 DEF Tallied
<1>6. Searched(r, q, {}, {})
  BY <1>2, <1>4, <1>5 DEF Searched
<1> QED
  BY <1>3, <1>6

LEMMA SearchIsTallied ==
    ASSUME BoundsInv, NEW r \in Monitored, SearchGoesOn(r)
    PROVE  \E q, E, T : q \in Sought /\ Searched(r, q, E, T)
BY RequestSearched, RoundSearched, DeliverySearched, AnswerSearched, AcceptSearched,
   CancelSearched, StopSearched, ControlSearched DEF SearchGoesOn

\* A row's counts stay within twice what happened, as the search goes on.
LEMMA RowStaysUnder ==
    ASSUME MonitorInv, NEW r \in Monitored, NEW k \in Monitored, NEW row \in Line,
           NEW q, NEW E, NEW T, Searched(r, q, E, T), RowUnder(row, k)
    PROVE  RowUnder(row, k)'
<1>1. frames \in Seq(Frame) /\ frames' \in Seq(Frame)
  BY SoughtSays DEF Searched, Grown
<1>2. ASSUME NEW t \in EventType
      PROVE  /\ Numbered(frames, k, t) \in Nat /\ Numbered(frames', k, t) \in Nat
             /\ happened[k][t] \in Nat /\ happened'[k][t] \in Nat
             /\ \/ /\ happened'[k][t] = happened[k][t]
                   /\ Numbered(frames', k, t) = Numbered(frames, k, t)
                \/ /\ happened'[k][t] = happened[k][t] + 1
                   /\ Numbered(frames', k, t) <= Numbered(frames, k, t) + 1
  <2>1. ASSUME NEW s \in Seq(Frame) PROVE Numbered(s, k, t) \in Nat
    BY NumberedSays
  <2>2. Numbered(frames, k, t) \in Nat /\ Numbered(frames', k, t) \in Nat
    BY Zenon, <1>1, <2>1
  <2>3. /\ k = r /\ t \in T => Numbered(frames', k, t) = Numbered(frames, k, t) + 1
        /\ ~(k = r /\ t \in T) => Numbered(frames', k, t) = Numbered(frames, k, t)
        /\ t \in T => t \in E
    BY DEF Searched, Grown
  <2>4. happened[k][t] \in Nat
    BY SoughtSays
  <2>5. /\ k # r => happened'[k] = happened[k]
        /\ k = r => happened'[k][t] = happened[k][t] + (IF t \in E THEN 1 ELSE 0)
    BY DEF Searched, LedgerGrows
  <2> QED
    BY <2>2, <2>3, <2>4, <2>5
<1>3. ASSUME NEW n \in Nat, NEW t \in EventType, CountUnder(n, k, t)
      PROVE  CountUnder(n, k, t)'
  <2>1. n + Numbered(frames, k, t) <= 2 * happened[k][t]
    BY <1>3 DEF CountUnder
  <2>2. n + Numbered(frames', k, t) <= 2 * happened'[k][t]
    BY <1>2, <2>1
  <2> QED
    BY <2>2 DEF CountUnder
<1>4. /\ row.acked \in Nat /\ row.rejected \in Nat /\ row.expired \in Nat
      /\ row.undelivered \in Nat /\ row.notified \in Nat
  BY DEF Line
<1>5. /\ "device_offer_ack" \in EventType /\ "driver_rejected" \in EventType
      /\ "offer_expired" \in EventType /\ "offer_delivery_failed" \in EventType
      /\ "notification_queued" \in EventType /\ "socket_offer_emitted" \in EventType
      /\ "fcm_accepted_by_provider" \in EventType
  BY DEF EventType
<1>6. /\ CountUnder(row.acked, k, "device_offer_ack")'
      /\ CountUnder(row.rejected, k, "driver_rejected")'
      /\ CountUnder(row.expired, k, "offer_expired")'
      /\ CountUnder(row.undelivered, k, "offer_delivery_failed")'
  BY <1>3, <1>4, <1>5 DEF RowUnder
<1>7. row.notified + Numbered(frames', k, "socket_offer_emitted")
            + Numbered(frames', k, "fcm_accepted_by_provider")
          <= happened'[k]["notification_queued"] + happened'[k]["socket_offer_emitted"]
                + happened'[k]["fcm_accepted_by_provider"]
  <2>1. row.notified + Numbered(frames, k, "socket_offer_emitted")
              + Numbered(frames, k, "fcm_accepted_by_provider")
            <= happened[k]["notification_queued"] + happened[k]["socket_offer_emitted"]
                  + happened[k]["fcm_accepted_by_provider"]
    BY DEF RowUnder
  <2> DEFINE a == happened[k]["notification_queued"]
             b == happened'[k]["notification_queued"]
  <2>2. a \in Nat /\ b \in Nat /\ a <= b
    BY <1>2, <1>5
  <2>3. /\ Numbered(frames, k, "socket_offer_emitted") \in Nat
        /\ Numbered(frames', k, "socket_offer_emitted") \in Nat
        /\ happened[k]["socket_offer_emitted"] \in Nat
        /\ happened'[k]["socket_offer_emitted"] \in Nat
        /\ Numbered(frames', k, "socket_offer_emitted") + happened[k]["socket_offer_emitted"]
             <= Numbered(frames, k, "socket_offer_emitted")
                  + happened'[k]["socket_offer_emitted"]
    BY <1>2, <1>5
  <2>4. /\ Numbered(frames, k, "fcm_accepted_by_provider") \in Nat
        /\ Numbered(frames', k, "fcm_accepted_by_provider") \in Nat
        /\ happened[k]["fcm_accepted_by_provider"] \in Nat
        /\ happened'[k]["fcm_accepted_by_provider"] \in Nat
        /\ Numbered(frames', k, "fcm_accepted_by_provider")
                + happened[k]["fcm_accepted_by_provider"]
             <= Numbered(frames, k, "fcm_accepted_by_provider")
                  + happened'[k]["fcm_accepted_by_provider"]
    BY <1>2, <1>5
  <2> QED
    BY <1>4, <2>1, <2>2, <2>3, <2>4
<1> QED
  BY <1>6, <1>7 DEF RowUnder

\* The trail that was read is one.
LEMMA TrailSays ==
    ASSUME MonitorInv, live.sync.at = "counted", NEW k \in Monitored, NEW t \in EventType
    PROVE  live.sync.trail[k][t] \in Nat
<1> HIDE DEF Ledger, EventType
<1>1. live.sync \in Counting
  BY LiveSays, AnsweringSays
<1>2. live.sync.trail \in Ledger
  BY <1>1 DEF Counting
<1> QED
  BY <1>2 DEF Ledger

LEMMA SearchStaysBound ==
    ASSUME BoundsInv, NEW r \in Monitored, SearchGoesOn(r)
    PROVE  BoundsInv'
<1>1. MonitorInv /\ MonitorInv' /\ live.syncs <= MaxSyncs
  BY SearchGoesOnKeeps DEF BoundsInv
<1>2. PICK q, E, T : q \in Sought /\ Searched(r, q, E, T)
  BY SearchIsTallied
<1>3. /\ sought' = [sought EXCEPT ![r] = q] /\ saved' = saved
      /\ live' = live \/ live' = Slipped(r)
      /\ LedgerGrows(r, E) /\ Grown(frames, frames', r, T) /\ T \cap EventType \subseteq E
      /\ Tallied(q, happened'[r])
  BY <1>2 DEF Searched
<1>4. sought \in [Monitored -> Sought] /\ frames \in Seq(Frame) /\ frames' \in Seq(Frame)
  BY <1>1, <1>3, SoughtSays DEF Grown
<1>5. ASSUME NEW k \in Monitored PROVE Tallied(sought'[k], happened'[k])
  <2>1. CASE k = r
    <3>1. sought'[k] = q
      <4> HIDE DEF Sought
      <4> QED
        BY <1>3, <1>4, <2>1
    <3> QED
      BY <1>3, <2>1, <3>1
  <2>2. CASE k # r
    <3>1. sought'[k] = sought[k] /\ happened'[k] = happened[k]
      <4> HIDE DEF Sought
      <4> QED
        BY <1>3, <1>4, <2>2 DEF LedgerGrows
    <3> QED
      BY <3>1 DEF BoundsInv
  <2> QED
    BY <2>1, <2>2
<1>6. ASSUME NEW k \in Monitored, NEW t \in EventType
      PROVE  saved'[k][t] <= happened'[k][t] /\ Numbered(frames', k, t) <= happened'[k][t]
  <2>1. saved[k][t] <= happened[k][t] /\ Numbered(frames, k, t) <= happened[k][t]
    BY DEF BoundsInv, NeverMore
  <2>2. ASSUME NEW s \in Seq(Frame) PROVE Numbered(s, k, t) \in Nat
    BY NumberedSays
  <2>3. Numbered(frames, k, t) \in Nat /\ Numbered(frames', k, t) \in Nat
    BY Zenon, <1>4, <2>2
  <2>4. happened[k][t] \in Nat /\ saved[k][t] \in Nat
    <3>1. happened \in Ledger /\ saved \in Ledger
      BY <1>1 DEF MonitorInv, Typed
    <3> HIDE DEF EventType
    <3> QED
      BY <3>1 DEF Ledger
  <2>5. /\ k = r /\ t \in T => Numbered(frames', k, t) = Numbered(frames, k, t) + 1
        /\ ~(k = r /\ t \in T) => Numbered(frames', k, t) = Numbered(frames, k, t)
        /\ t \in T => t \in E
    BY <1>3 DEF Grown
  <2>6. /\ k # r => happened'[k] = happened[k]
        /\ k = r => happened'[k][t] = happened[k][t] + (IF t \in E THEN 1 ELSE 0)
    BY <1>3 DEF LedgerGrows
  <2>7. happened'[k][t] = happened[k][t] + (IF k = r /\ t \in E THEN 1 ELSE 0)
    BY <2>4, <2>6
  <2> QED
    BY <1>3, <2>1, <2>3, <2>4, <2>5, <2>7
<1>9. /\ live'.rows = live.rows /\ live'.sync.at = live.sync.at
      /\ live.sync.at = "answered" => live'.sync.rows = live.sync.rows
      /\ live.sync.at = "counted" => live'.sync = live.sync
      /\ live'.syncs = live.syncs
  <2>1. Slipped(r).syncs = live.syncs
    <3> HIDE DEF Lines, Syncing
    <3> QED
      BY <1>1, LiveSays DEF Slipped, Live
  <2> QED
    BY <1>1, <1>3, <2>1, SlippedSays DEF MonitorInv
<1>10. ASSUME NEW k \in Monitored PROVE ReadUnder(k)'
  <2> SUFFICES ASSUME live.sync.at = "counted", NEW t \in EventType
               PROVE  live.sync.trail[k][t] <= happened'[k][t]
    BY <1>9 DEF ReadUnder
  <2>1. live.sync.trail[k][t] <= happened[k][t]
    BY DEF BoundsInv, ReadUnder
  <2>2. happened[k][t] \in Nat /\ live.sync.trail[k][t] \in Nat
    BY <1>1, SoughtSays, TrailSays
  <2>3. happened'[k][t] = happened[k][t] \/ happened'[k][t] = happened[k][t] + 1
    BY <1>3, <2>2 DEF LedgerGrows
  <2> QED
    BY <2>1, <2>2, <2>3
<1>7. ASSUME NEW k \in Monitored PROVE PageUnder(k)' /\ AnswerUnder(k)'
  <2>1. Typed
    BY <1>1 DEF MonitorInv
  <2>2. /\ live.rows[k] \in Line \cup {NoLine}
        /\ live.sync.at = "answered" => live.sync.rows[k] \in Line \cup {NoLine}
    BY <2>1, RowOfLine
  <2>3. PageUnder(k) /\ AnswerUnder(k)
    BY DEF BoundsInv
  <2>4. ASSUME NEW row, row \in Line \cup {NoLine}, row # NoLine, RowUnder(row, k)
        PROVE  RowUnder(row, k)'
    <3>1. row \in Line
      BY <2>4
    <3> QED
      BY <1>1, <1>2, <2>4, <3>1, RowStaysUnder
  <2> HIDE DEF Line, NoLine
  <2>5. PageUnder(k)'
    BY <1>9, <2>2, <2>3, <2>4 DEF PageUnder, RowUnder, CountUnder
  <2>6. AnswerUnder(k)'
    BY <1>9, <2>2, <2>3, <2>4 DEF AnswerUnder, RowUnder, CountUnder
  <2> QED
    BY <2>5, <2>6
<1>8. live'.syncs <= MaxSyncs
  BY <1>1, <1>9
<1> QED
  BY <1>1, <1>5, <1>6, <1>7, <1>8, <1>10 DEF BoundsInv, NeverMore

\* Where the frames, the ledger and the search stand still, a row whose counts
\* are within goes on being so.
LEMMA StillUnder ==
    ASSUME BoundsInv, MonitorInv', UNCHANGED <<sought, happened, frames>>,
           live'.syncs <= MaxSyncs,
           \A k \in Monitored, t \in EventType : saved'[k][t] <= happened[k][t],
           \A k \in Monitored :
              /\ live'.rows[k] = NoLine \/ RowUnder(live'.rows[k], k)
              /\ live'.sync.at = "answered" =>
                    live'.sync.rows[k] = NoLine \/ RowUnder(live'.sync.rows[k], k),
           live'.sync.at = "counted" => \/ live'.sync = live.sync
                                        \/ live'.sync.trail = saved
    PROVE  BoundsInv'
<1>1. ASSUME NEW k \in Monitored
      PROVE  Tallied(sought'[k], happened'[k]) /\ NeverMore(k)'
  <2>1. Tallied(sought[k], happened[k]) /\ NeverMore(k)
    BY DEF BoundsInv
  <2> QED
    BY <2>1 DEF NeverMore
<1>2. ASSUME NEW k \in Monitored PROVE PageUnder(k)' /\ AnswerUnder(k)'
  BY DEF PageUnder, AnswerUnder, RowUnder, CountUnder
<1>3. ASSUME NEW k \in Monitored PROVE ReadUnder(k)'
  <2>1. ReadUnder(k) /\ NeverMore(k)
    BY DEF BoundsInv
  <2> QED
    BY <2>1 DEF ReadUnder, NeverMore
<1> QED
  BY <1>1, <1>2, <1>3 DEF BoundsInv

\* What the page holds of a ride is within.
LEMMA HeldUnder ==
    ASSUME BoundsInv, NEW k \in Monitored
    PROVE  /\ live.rows[k] = NoLine \/ RowUnder(live.rows[k], k)
           /\ live.sync.at = "answered" =>
                 live.sync.rows[k] = NoLine \/ RowUnder(live.sync.rows[k], k)
           /\ live.syncs <= MaxSyncs /\ live.syncs \in Nat
           /\ \A t \in EventType : saved[k][t] <= happened[k][t]
<1>1. MonitorInv /\ PageUnder(k) /\ AnswerUnder(k) /\ NeverMore(k) /\ live.syncs <= MaxSyncs
  BY DEF BoundsInv
<1> QED
  BY <1>1, LiveSays DEF PageUnder, AnswerUnder, NeverMore

\* No event is counted by a row that is not followed.
LEMMA AnyIsUnder ==
    ASSUME BoundsInv, NEW k \in Monitored
    PROVE  RowUnder(AnyLine, k)
<1>1. MonitorInv /\ NeverMore(k)
  BY DEF BoundsInv
<1>2. /\ \A t \in EventType : /\ Numbered(frames, k, t) \in Nat /\ happened[k][t] \in Nat
                              /\ Numbered(frames, k, t) <= happened[k][t]
      /\ {"device_offer_ack", "driver_rejected", "offer_expired", "offer_delivery_failed",
          "notification_queued", "socket_offer_emitted", "fcm_accepted_by_provider"}
             \subseteq EventType
  <2>1. Typed /\ frames \in Seq(Frame)
    BY <1>1 DEF MonitorInv, Typed
  <2>2. ASSUME NEW t \in EventType
        PROVE  Numbered(frames, k, t) \in Nat /\ happened[k][t] \in Nat
    BY <2>1, NumberedSays, LedgerSays
  <2>3. {"device_offer_ack", "driver_rejected", "offer_expired", "offer_delivery_failed",
         "notification_queued", "socket_offer_emitted", "fcm_accepted_by_provider"}
             \subseteq EventType
    BY DEF EventType
  <2> QED
    BY <1>1, <2>2, <2>3 DEF NeverMore
<1> HIDE DEF EventType
<1> QED
  BY <1>2 DEF RowUnder, CountUnder, AnyLine

LEMMA PageStaysBound ==
    ASSUME BoundsInv, MonitorInv',
           \/ Sync \/ SyncFinds \/ SyncCounts \/ SyncApplies \/ SyncFails \/ LeaveSection
           \/ \E r \in Monitored : TakeRowDown(r)
    PROVE  BoundsInv'
<1> HIDE DEF Lines, Syncing, Ledger
<1>1. UNCHANGED <<sought, happened, saved, frames>>
  BY DEF Sync, SyncFinds, SyncCounts, SyncApplies, SyncFails, LeaveSection, TakeRowDown
<1>2. MonitorInv
  BY DEF BoundsInv
<1>3. \A k \in Monitored, t \in EventType : saved'[k][t] <= happened[k][t]
  BY <1>1, HeldUnder
<1>4. ASSUME live'.syncs <= MaxSyncs,
             \A k \in Monitored : live'.rows[k] \in {live.rows[k], NoLine, AnyLine},
             \/ live'.sync = live.sync
             \/ live'.sync.at \notin {"answered", "counted"}
             \/ live'.sync.at = "counted" /\ live'.sync.trail = saved
      PROVE  BoundsInv'
  <2>1. \A k \in Monitored :
              /\ live'.rows[k] = NoLine \/ RowUnder(live'.rows[k], k)
              /\ live'.sync.at = "answered" =>
                    live'.sync.rows[k] = NoLine \/ RowUnder(live'.sync.rows[k], k)
    <3>1. live'.sync.at = "answered" => live'.sync = live.sync
      BY <1>4
    <3> QED
      BY Zenon, <1>4, <3>1, HeldUnder, AnyIsUnder
  <2> QED
    BY <1>1, <1>3, <1>4, <2>1, StillUnder
<1>5. /\ NoSync.at \notin {"answered", "counted"}
      /\ [at |-> "asked"].at \notin {"answered", "counted"}
  BY DEF NoSync
<1>6. /\ live \in Live /\ live.syncs \in Nat /\ live.syncs <= MaxSyncs
      /\ live.rows \in Lines
  BY <1>2, LiveSays DEF BoundsInv
<1>12. CASE SyncFinds
  <2> DEFINE sync == [at |-> "found", found |-> [r \in Monitored |-> sought[r].status]]
  <2>1. live' = [live EXCEPT !.sync = sync] /\ sync.at \notin {"answered", "counted"}
    BY <1>12 DEF SyncFinds
  <2> HIDE DEF sync
  <2>2. live'.rows = live.rows /\ live'.syncs = live.syncs /\ live'.sync = sync
    BY <1>6, <2>1 DEF Live
  <2> QED
    BY <1>4, <1>6, <2>1, <2>2
<1>13. CASE SyncCounts
  <2> DEFINE sync == [at |-> "counted", found |-> live.sync.found, trail |-> saved]
  <2>1. live' = [live EXCEPT !.sync = sync] /\ sync.at = "counted" /\ sync.trail = saved
    BY <1>13 DEF SyncCounts
  <2> HIDE DEF sync
  <2>2. live'.rows = live.rows /\ live'.syncs = live.syncs /\ live'.sync = sync
    BY <1>6, <2>1 DEF Live
  <2> QED
    BY <1>4, <1>6, <2>1, <2>2
<1>7. CASE Sync
  <2>1. /\ live' = [live EXCEPT !.looking = TRUE, !.syncs = live.syncs + 1,
                                !.sync = [at |-> "asked"]]
        /\ live.syncs < MaxSyncs
    BY <1>7 DEF Sync
  <2>2. live'.rows = live.rows /\ live'.syncs = live.syncs + 1 /\ live'.sync = [at |-> "asked"]
    BY <1>6, <2>1 DEF Live
  <2>3. live'.syncs <= MaxSyncs
    BY <1>6, <2>1, <2>2, MonitorAssumption
  <2> QED
    BY <1>4, <1>5, <2>2, <2>3
<1>8. CASE SyncFails
  <2>1. live'.rows = live.rows /\ live'.syncs = live.syncs /\ live'.sync = NoSync
    BY <1>6, <1>8 DEF SyncFails, Live
  <2> QED
    BY <1>4, <1>5, <1>6, <2>1
<1>9. CASE LeaveSection
  <2> DEFINE rows == Doubted(live.rows, Monitored)
  <2>1. live' = [live EXCEPT !.looking = FALSE, !.rows = rows, !.slipped = Monitored]
    BY <1>9 DEF LeaveSection
  <2>2. \A k \in Monitored : rows[k] \in {live.rows[k], AnyLine}
    BY <1>6, DoubtedSays
  <2> HIDE DEF rows
  <2>3. live'.rows = rows /\ live'.syncs = live.syncs /\ live'.sync = live.sync
    BY <1>6, <2>1 DEF Live
  <2> QED
    BY <1>4, <1>6, <2>2, <2>3
<1>10. CASE SyncApplies
  <2>1. /\ live.sync.at = "answered" /\ live'.rows = live.sync.rows
        /\ live'.syncs = live.syncs /\ live'.sync = NoSync
    BY <1>6, <1>10 DEF SyncApplies, Live
  <2>2. \A k \in Monitored :
              /\ live'.rows[k] = NoLine \/ RowUnder(live'.rows[k], k)
              /\ live'.sync.at = "answered" =>
                    live'.sync.rows[k] = NoLine \/ RowUnder(live'.sync.rows[k], k)
    BY <1>5, <2>1, HeldUnder
  <2> QED
    BY <1>1, <1>3, <1>5, <1>6, <2>1, <2>2, StillUnder
<1>11. CASE \E r \in Monitored : TakeRowDown(r)
  <2>1. PICK r \in Monitored : TakeRowDown(r)
    BY <1>11
  <2> DEFINE rows == [live.rows EXCEPT ![r] = NoLine]
  <2>2. live' = [live EXCEPT !.rows = rows, !.leaving = live.leaving \ {r}]
    BY <2>1 DEF TakeRowDown
  <2>3. \A k \in Monitored : rows[k] \in {live.rows[k], NoLine}
    <3> HIDE DEF Line, NoLine
    <3> QED
      BY <1>6 DEF Lines
  <2> HIDE DEF rows
  <2>4. live'.rows = rows /\ live'.syncs = live.syncs /\ live'.sync = live.sync
    BY <1>6, <2>2 DEF Live
  <2> QED
    BY <1>4, <1>6, <2>3, <2>4
<1> QED
  BY <1>7, <1>8, <1>9, <1>10, <1>11, <1>12, <1>13

LEMMA SaveStaysBound ==
    ASSUME BoundsInv, MonitorInv', NEW r \in Monitored, SaveEvents(r)
    PROVE  BoundsInv'
<1>1. /\ saved' = [saved EXCEPT ![r] = happened[r]]
      /\ UNCHANGED <<sought, happened, frames, live>>
  BY DEF SaveEvents
<1>2. MonitorInv /\ saved \in Ledger /\ happened \in Ledger
  BY LiveSays, SoughtSays DEF BoundsInv
<1>3. ASSUME NEW k \in Monitored, NEW t \in EventType PROVE saved'[k][t] <= happened[k][t]
  <2>1. happened[k][t] \in Nat
    BY <1>2, SoughtSays
  <2>2. saved'[k] = IF k = r THEN happened[r] ELSE saved[k]
    <3> HIDE DEF EventType
    <3> QED
      BY <1>1, <1>2 DEF Ledger
  <2> QED
    BY <2>1, <2>2, HeldUnder
<1>4. \A k \in Monitored :
              /\ live'.rows[k] = NoLine \/ RowUnder(live'.rows[k], k)
              /\ live'.sync.at = "answered" =>
                    live'.sync.rows[k] = NoLine \/ RowUnder(live'.sync.rows[k], k)
  BY Zenon, <1>1, HeldUnder
<1>5. live'.syncs <= MaxSyncs
  BY <1>1 DEF BoundsInv
<1> QED
  BY <1>1, <1>3, <1>4, <1>5, StillUnder

LEMMA RestStaysBound ==
    ASSUME BoundsInv, MonitorInv', UNCHANGED monitorVars
    PROVE  BoundsInv'
<1>1. UNCHANGED <<sought, happened, saved, frames, live>>
  BY DEF monitorVars
<1>2. \A k \in Monitored, t \in EventType : saved'[k][t] <= happened[k][t]
  BY <1>1, HeldUnder
<1>3. \A k \in Monitored :
              /\ live'.rows[k] = NoLine \/ RowUnder(live'.rows[k], k)
              /\ live'.sync.at = "answered" =>
                    live'.sync.rows[k] = NoLine \/ RowUnder(live'.sync.rows[k], k)
  BY Zenon, <1>1, HeldUnder
<1>4. live'.syncs <= MaxSyncs
  BY <1>1 DEF BoundsInv
<1> QED
  BY <1>1, <1>2, <1>3, <1>4, StillUnder

\* The answer to a sync counts no more than what happened.
LEMMA AnswerIsUnder ==
    ASSUME BoundsInv, NEW r \in Monitored, NEW status, NEW trail \in [EventType -> Nat],
           \A t \in EventType : trail[t] <= happened[r][t]
    PROVE  RowUnder(rollupsFor(r, status, trail), r)
<1> DEFINE h == happened[r]
           e == IF sought[r].run THEN happened[r] ELSE trail
           n(t) == Numbered(frames, r, t)
<1>1. /\ MonitorInv /\ happened \in Ledger /\ frames \in Seq(Frame) /\ LedgerAdds(r)
  BY SoughtSays, LiveSays DEF BoundsInv
<1>2. ASSUME NEW t \in EventType
      PROVE  /\ h[t] \in Nat /\ trail[t] \in Nat /\ e[t] \in Nat /\ e[t] <= h[t]
             /\ n(t) \in Nat /\ n(t) <= h[t]
  <2>1. h[t] \in Nat /\ trail[t] \in Nat
    <3> HIDE DEF EventType
    <3> QED
      BY <1>1 DEF Ledger
  <2>2. trail[t] <= h[t] /\ n(t) <= h[t]
    BY DEF BoundsInv, NeverMore
  <2>3. n(t) \in Nat
    BY <1>1, NumberedSays
  <2> QED
    BY <2>1, <2>2, <2>3
<1> DEFINE handed == e["notification_queued"] - e["offer_delivery_failed"]
                       - (IF sought[r].offer = "queued" THEN 1 ELSE 0)
           notified == IF sought[r].run THEN handed
                       ELSE Least(1, Most(e["socket_offer_emitted"],
                                          e["fcm_accepted_by_provider"]))
           acked == Least(1, e["device_offer_ack"])
           row == rollupsFor(r, status, trail)
<1>3. /\ row.notified = notified /\ row.acked = acked
      /\ row.rejected = e["driver_rejected"] /\ row.expired = e["offer_expired"]
      /\ row.undelivered = e["offer_delivery_failed"]
  BY DEF rollupsFor
<1>4. /\ "device_offer_ack" \in EventType /\ "driver_rejected" \in EventType
      /\ "offer_expired" \in EventType /\ "offer_delivery_failed" \in EventType
      /\ "notification_queued" \in EventType /\ "socket_offer_emitted" \in EventType
      /\ "fcm_accepted_by_provider" \in EventType
  BY DEF EventType
<1>5. h["socket_offer_emitted"] <= h["notification_queued"]
      /\ h["fcm_accepted_by_provider"] <= h["notification_queued"]
  <2>1. Tallied(sought[r], h)
    BY DEF BoundsInv
  <2>2. Once(sought[r].offer = "queued") \in {0, 1}
    BY DEF Once
  <2>3. /\ h["socket_offer_emitted"] \in Nat /\ h["fcm_accepted_by_provider"] \in Nat
        /\ h["notification_queued"] \in Nat
    BY <1>2, <1>4
  <2>4. /\ h["socket_offer_emitted"] + Once(sought[r].offer = "queued")
              <= h["notification_queued"]
        /\ h["fcm_accepted_by_provider"] + Once(sought[r].offer = "queued")
              <= h["notification_queued"]
    BY <2>1 DEF Tallied
  <2> HIDE DEF h
  <2> QED
    BY <2>2, <2>3, <2>4
<1>6. notified \in Nat /\ notified <= h["notification_queued"]
  <2>1. CASE sought[r].run
    <3>1. handed = OffersSent(r) /\ handed \in Nat
      BY <1>1, <2>1 DEF OffersSent, LedgerAdds
    <3>2. /\ h["notification_queued"] \in Nat /\ h["offer_delivery_failed"] \in Nat
      BY <1>2, <1>4
    <3>3. handed = h["notification_queued"] - h["offer_delivery_failed"]
                     - (IF sought[r].offer = "queued" THEN 1 ELSE 0)
      BY <2>1
    <3>4. notified = handed
      BY <2>1
    <3> HIDE DEF h, handed, notified
    <3> QED
      BY <3>1, <3>2, <3>3, <3>4
  <2>2. CASE ~sought[r].run
    <3>1. notified = Least(1, Most(e["socket_offer_emitted"], e["fcm_accepted_by_provider"]))
      BY <2>2
    <3>2. /\ e["socket_offer_emitted"] \in Nat /\ e["fcm_accepted_by_provider"] \in Nat
          /\ e["socket_offer_emitted"] <= h["socket_offer_emitted"]
          /\ e["fcm_accepted_by_provider"] <= h["fcm_accepted_by_provider"]
          /\ h["socket_offer_emitted"] \in Nat /\ h["fcm_accepted_by_provider"] \in Nat
          /\ h["notification_queued"] \in Nat
      BY <1>2, <1>4
    <3> HIDE DEF h, e, notified
    <3> QED
      BY <1>5, <3>1, <3>2 DEF Least, Most
  <2> QED
    BY <2>1, <2>2
<1>7. acked \in Nat /\ acked <= h["device_offer_ack"]
  <2>1. /\ e["device_offer_ack"] \in Nat /\ e["device_offer_ack"] <= h["device_offer_ack"]
        /\ h["device_offer_ack"] \in Nat
    BY <1>2, <1>4
  <2> HIDE DEF e, h
  <2> QED
    BY <2>1 DEF Least
<1> HIDE DEF h, e, n, notified, acked, row
<1>8. ASSUME NEW m \in Nat, NEW t \in EventType, m <= h[t] PROVE CountUnder(m, r, t)
  <2>1. m + n(t) <= 2 * h[t]
    BY <1>2, <1>8
  <2> QED
    BY <2>1 DEF CountUnder, n, h
<1>9. /\ CountUnder(row.acked, r, "device_offer_ack")
      /\ CountUnder(row.rejected, r, "driver_rejected")
      /\ CountUnder(row.expired, r, "offer_expired")
      /\ CountUnder(row.undelivered, r, "offer_delivery_failed")
  BY <1>2, <1>3, <1>4, <1>7, <1>8
<1>10. row.notified + n("socket_offer_emitted") + n("fcm_accepted_by_provider")
         <= h["notification_queued"] + h["socket_offer_emitted"]
              + h["fcm_accepted_by_provider"]
  <2>1. /\ n("socket_offer_emitted") \in Nat /\ n("fcm_accepted_by_provider") \in Nat
        /\ h["notification_queued"] \in Nat /\ h["socket_offer_emitted"] \in Nat
        /\ h["fcm_accepted_by_provider"] \in Nat
        /\ n("socket_offer_emitted") <= h["socket_offer_emitted"]
        /\ n("fcm_accepted_by_provider") <= h["fcm_accepted_by_provider"]
    BY <1>2, <1>4
  <2> QED
    BY <1>3, <1>6, <2>1
<1> QED
  BY <1>9, <1>10 DEF RowUnder, row, n, h

LEMMA SyncAnswersStaysBound ==
    ASSUME BoundsInv, MonitorInv', SyncAnswers
    PROVE  BoundsInv'
<1> DEFINE found == live.sync.found
           trail == live.sync.trail
           apart == {r \in Monitored : ~AllTold(r)}
           listed == liveRequests(found, trail)
           rows == Doubted(listed, apart)
           answer == [at |-> "answered", rows |-> rows, apart |-> apart]
<1>1. /\ live' = [live EXCEPT !.sync = answer] /\ UNCHANGED <<sought, happened, saved, frames>>
      /\ live.sync.at = "counted"
  BY DEF SyncAnswers
<1>2. answer.rows = rows /\ answer.at = "answered"
  OBVIOUS
<1>7. MonitorInv
  BY DEF BoundsInv
<1>8. ASSUME NEW k \in Monitored
      PROVE  trail[k] \in [EventType -> Nat] /\ \A t \in EventType : trail[k][t] <= happened[k][t]
  <2>1. live.sync \in Counting
    BY <1>1, <1>7, LiveSays, AnsweringSays
  <2>2. trail \in Ledger
    <3> HIDE DEF Ledger
    <3> QED
      BY <2>1 DEF Counting
  <2>3. trail[k] \in [EventType -> Nat]
    <3> HIDE DEF EventType, trail
    <3> QED
      BY <2>2 DEF Ledger
  <2>4. ReadUnder(k)
    BY DEF BoundsInv
  <2> QED
    BY <1>1, <2>3, <2>4 DEF ReadUnder
<1> HIDE DEF answer, found, trail
<1>9. \A k \in Monitored : \/ rows[k] \in {NoLine, AnyLine}
                           \/ rows[k] = rollupsFor(k, found[k], trail[k])
  <2>1. \A k \in Monitored :
           listed[k] = NoLine \/ listed[k] = rollupsFor(k, found[k], trail[k])
    BY DEF liveRequests
  <2>2. \A k \in Monitored : rows[k] \in {listed[k], AnyLine}
    BY DEF Doubted
  <2> HIDE DEF listed, rows
  <2> QED
    BY <2>1, <2>2
<1> HIDE DEF rows
<1>3. /\ live'.rows = live.rows /\ live'.syncs = live.syncs /\ live'.sync.rows = rows
      /\ live'.sync.at = "answered"
  <2>1. live \in Live
    BY LiveSays DEF BoundsInv
  <2> HIDE DEF Lines, Syncing
  <2> QED
    BY <1>1, <1>2, <2>1 DEF Live
<1>4. \A k \in Monitored, t \in EventType : saved'[k][t] <= happened[k][t]
  BY <1>1, HeldUnder
<1>5. ASSUME NEW k \in Monitored
      PROVE  /\ live'.rows[k] = NoLine \/ RowUnder(live'.rows[k], k)
             /\ live'.sync.at = "answered" =>
                   live'.sync.rows[k] = NoLine \/ RowUnder(live'.sync.rows[k], k)
  <2>1. RowUnder(rollupsFor(k, found[k], trail[k]), k)
    BY <1>8, AnswerIsUnder
  <2>2. rows[k] = NoLine \/ RowUnder(rows[k], k)
    BY Zenon, <1>9, <2>1, AnyIsUnder
  <2> QED
    BY Zenon, <1>3, <2>2, HeldUnder
<1>6. live'.syncs <= MaxSyncs
  BY <1>3 DEF BoundsInv
<1> QED
  BY <1>1, <1>3, <1>4, <1>5, <1>6, StillUnder

\* A row stays within when the next frame is applied to it, and when it is not.
LEMMA ReceivedUnder ==
    ASSUME MonitorInv, frames # << >>, frames' = Tail(frames), UNCHANGED happened,
           NEW k \in Monitored, NEW row \in Line, RowUnder(row, k), NEW fresh \in Line,
           \/ fresh = row
           \/ /\ Head(frames).ride = k
              /\ fresh = applyRideStatusUpdate(applyDispatchEvent(row, Head(frames).says),
                                               Head(frames).says)
    PROVE  RowUnder(fresh, k)'
<1>1. \A t \in EventType :
         /\ Numbered(frames, k, t) = Numbered(frames', k, t) + Come(k, t)
         /\ Numbered(frames, k, t) \in Nat /\ Numbered(frames', k, t) \in Nat
         /\ Come(k, t) \in {0, 1} /\ happened[k][t] \in Nat
  BY NextFrame, SoughtSays
<1>2. /\ row.acked \in Nat /\ row.rejected \in Nat /\ row.expired \in Nat
      /\ row.undelivered \in Nat /\ row.notified \in Nat
  BY DEF Line
<1>3. /\ "device_offer_ack" \in EventType /\ "driver_rejected" \in EventType
      /\ "offer_expired" \in EventType /\ "offer_delivery_failed" \in EventType
      /\ "notification_queued" \in EventType /\ "socket_offer_emitted" \in EventType
      /\ "fcm_accepted_by_provider" \in EventType
  BY DEF EventType
<1> DEFINE Near(n, m, t) == n = m \/ n = m + Come(k, t)
<1>4. /\ Near(fresh.acked, row.acked, "device_offer_ack")
      /\ Near(fresh.rejected, row.rejected, "driver_rejected")
      /\ Near(fresh.expired, row.expired, "offer_expired")
      /\ Near(fresh.undelivered, row.undelivered, "offer_delivery_failed")
      /\ \/ fresh.notified = row.notified
         \/ fresh.notified = row.notified + Come(k, "socket_offer_emitted")
                                + Come(k, "fcm_accepted_by_provider")
  <2>1. CASE fresh = row
    BY <2>1
  <2>2. CASE fresh # row
    BY <2>2, ArrivalSays
  <2> QED
    BY <2>1, <2>2
<1>5. ASSUME NEW m \in Nat, NEW n, NEW t \in EventType, Near(n, m, t), CountUnder(m, k, t)
      PROVE  CountUnder(n, k, t)'
  <2>1. m + Numbered(frames, k, t) <= 2 * happened[k][t]
    BY <1>5 DEF CountUnder
  <2>2. n + Numbered(frames', k, t) <= 2 * happened[k][t]
    BY <1>1, <1>5, <2>1
  <2> QED
    BY <2>2 DEF CountUnder
<1> HIDE DEF Near
<1>6. /\ CountUnder(fresh.acked, k, "device_offer_ack")'
      /\ CountUnder(fresh.rejected, k, "driver_rejected")'
      /\ CountUnder(fresh.expired, k, "offer_expired")'
      /\ CountUnder(fresh.undelivered, k, "offer_delivery_failed")'
  BY <1>2, <1>3, <1>4, <1>5 DEF RowUnder
<1>7. fresh.notified + Numbered(frames', k, "socket_offer_emitted")
            + Numbered(frames', k, "fcm_accepted_by_provider")
          <= happened[k]["notification_queued"] + happened[k]["socket_offer_emitted"]
                + happened[k]["fcm_accepted_by_provider"]
  <2>1. row.notified + Numbered(frames, k, "socket_offer_emitted")
              + Numbered(frames, k, "fcm_accepted_by_provider")
            <= happened[k]["notification_queued"] + happened[k]["socket_offer_emitted"]
                  + happened[k]["fcm_accepted_by_provider"]
    BY DEF RowUnder
  <2> DEFINE a == Numbered(frames, k, "socket_offer_emitted")
             b == Numbered(frames, k, "fcm_accepted_by_provider")
             c == Numbered(frames', k, "socket_offer_emitted")
             d == Numbered(frames', k, "fcm_accepted_by_provider")
             u == Come(k, "socket_offer_emitted")
             v == Come(k, "fcm_accepted_by_provider")
             x == happened[k]["notification_queued"]
             y == happened[k]["socket_offer_emitted"]
             z == happened[k]["fcm_accepted_by_provider"]
  <2>2. /\ a = c + u /\ b = d + v /\ c \in Nat /\ d \in Nat /\ u \in {0, 1} /\ v \in {0, 1}
        /\ x \in Nat /\ y \in Nat /\ z \in Nat
    BY Zenon, <1>1, <1>3
  <2> DEFINE n == row.notified
             m == fresh.notified
  <2>3. n + a + b <= x + y + z
    BY Zenon, <2>1
  <2>4. m = n \/ m = n + u + v
    BY Zenon, <1>4
  <2>5. n \in Nat /\ m \in Nat
    BY DEF Line
  <2> HIDE DEF a, b, c, d, u, v, x, y, z, n, m
  <2>6. u \in Nat /\ v \in Nat
    BY <2>2
  <2>7. m + c + d <= x + y + z
    BY <2>2, <2>3, <2>4, <2>5, <2>6
  <2> QED
    BY Zenon, <2>7 DEF c, d, x, y, z, m
<1> QED
  BY <1>6, <1>7 DEF RowUnder

LEMMA ReceiveStaysBound ==
    ASSUME BoundsInv, MonitorInv', ReceiveFrame
    PROVE  BoundsInv'
<1> DEFINE f == Head(frames)
           held == live.rows[f.ride]
           fresh == applyRideStatusUpdate(applyDispatchEvent(held, f.says), f.says)
           rows == IF live.looking /\ held # NoLine
                   THEN [live.rows EXCEPT ![f.ride] = fresh] ELSE live.rows
           leaving == IF live.looking /\ held # NoLine /\ f.says \in {"canceled", "failed"}
                      THEN live.leaving \cup {f.ride} ELSE live.leaving
           slipped == IF live.sync.at = "answered" \/ ~live.looking
                      THEN live.slipped \cup {f.ride} ELSE live.slipped
           sync == IF live.sync.at = "answered"
                   THEN [live.sync EXCEPT !.apart = live.sync.apart \cup {f.ride}]
                   ELSE live.sync
<1>1. /\ frames # << >> /\ frames' = Tail(frames) /\ UNCHANGED <<sought, happened, saved>>
      /\ live' = [live EXCEPT !.rows = rows, !.leaving = leaving, !.slipped = slipped,
                              !.sync = sync]
  BY DEF ReceiveFrame
<1>2. MonitorInv /\ live \in Live /\ live.rows \in Lines /\ live.sync \in Syncing
  BY LiveSays DEF BoundsInv
<1>3. f.ride \in Monitored /\ f.says \in EventType \cup RideStatus
  <2>1. frames \in Seq(Frame)
    BY <1>2 DEF MonitorInv, Typed
  <2>2. f \in Frame
    BY <1>1, <2>1, FrameBehind
  <2> QED
    BY <2>2 DEF Frame
<1>4. /\ sync.at = live.sync.at
      /\ live.sync.at = "answered" => sync.rows = live.sync.rows
      /\ live.sync.at # "answered" => sync = live.sync
  <2>1. live.sync.at = "answered" =>
           live.sync \in [at : {"answered"}, rows : Lines, apart : SUBSET Monitored]
    BY <1>2, AnsweringSays DEF Answering
  <2> HIDE DEF Lines, f
  <2> QED
    BY <2>1
<1> HIDE DEF leaving, slipped, sync, f
<1>5. /\ live'.rows = rows /\ live'.sync = sync /\ live'.syncs = live.syncs
  <2> HIDE DEF Lines, Syncing, rows
  <2> QED
    BY <1>1, <1>2 DEF Live
<1>6. ASSUME NEW k \in Monitored
      PROVE  /\ live.rows[k] \in Line \cup {NoLine}
             /\ live.sync.at = "answered" => live.sync.rows[k] \in Line \cup {NoLine}
  <2>1. Typed
    BY <1>2 DEF MonitorInv
  <2> QED
    BY <2>1, RowOfLine
<1>7. ASSUME NEW k \in Monitored PROVE PageUnder(k)'
  <2> SUFFICES ASSUME NEW row, row = rows[k], row # NoLine
               PROVE  RowUnder(row, k)'
    BY <1>5 DEF PageUnder, RowUnder, CountUnder
  <2>1. CASE live.looking /\ held # NoLine /\ k = f.ride
    <3>1. row = fresh
      <4> HIDE DEF Line, NoLine, fresh, held
      <4> QED
        BY <1>2, <1>3, <2>1 DEF Lines, rows
    <3>2. held \in Line /\ RowUnder(held, k)
      BY <1>6, <2>1, HeldUnder
    <3>3. row = applyRideStatusUpdate(applyDispatchEvent(held, f.says), f.says)
      BY <3>1
    <3> HIDE DEF held, fresh
    <3>4. row \in Line
      BY <1>3, <3>2, <3>3, AppliedSays
    <3> QED
      BY <1>1, <1>2, <2>1, <3>2, <3>3, <3>4, ReceivedUnder DEF f
  <2>2. CASE ~(live.looking /\ held # NoLine /\ k = f.ride)
    <3>1. row = live.rows[k]
      <4> HIDE DEF Line, NoLine, fresh, held
      <4> QED
        BY <1>2, <1>3, <2>2 DEF Lines, rows
    <3>2. row \in Line /\ RowUnder(row, k)
      BY <1>6, <3>1, HeldUnder
    <3> QED
      BY <1>1, <1>2, <3>2, ReceivedUnder
  <2> QED
    BY <2>1, <2>2
<1>8. ASSUME NEW k \in Monitored PROVE AnswerUnder(k)'
  <2> SUFFICES ASSUME sync.at = "answered", NEW row, row = sync.rows[k], row # NoLine
               PROVE  RowUnder(row, k)'
    BY <1>5 DEF AnswerUnder, RowUnder, CountUnder
  <2>1. live.sync.at = "answered" /\ row = live.sync.rows[k]
    BY <1>4
  <2>2. row \in Line /\ RowUnder(row, k)
    BY <1>6, <2>1, HeldUnder
  <2> QED
    BY <1>1, <1>2, <2>2, ReceivedUnder
<1>9. ASSUME NEW k \in Monitored PROVE Tallied(sought'[k], happened'[k]) /\ NeverMore(k)'
  <2>1. Tallied(sought[k], happened[k]) /\ NeverMore(k)
    BY DEF BoundsInv
  <2>2. \A t \in EventType : Numbered(frames', k, t) <= happened[k][t]
    <3> SUFFICES ASSUME NEW t \in EventType PROVE Numbered(frames', k, t) <= happened[k][t]
      OBVIOUS
    <3>1. /\ Numbered(frames, k, t) = Numbered(frames', k, t) + Come(k, t)
          /\ Numbered(frames', k, t) \in Nat /\ Come(k, t) \in {0, 1}
      BY <1>1, <1>2, NextFrame
    <3>2. Numbered(frames, k, t) <= happened[k][t] /\ happened[k][t] \in Nat
      BY <1>2, <2>1, SoughtSays DEF NeverMore
    <3> QED
      BY <3>1, <3>2
  <2> QED
    BY <1>1, <2>1, <2>2 DEF NeverMore
<1>10. live'.syncs <= MaxSyncs
  BY <1>5 DEF BoundsInv
<1>11. ASSUME NEW k \in Monitored PROVE ReadUnder(k)'
  <2>1. ReadUnder(k)
    BY DEF BoundsInv
  <2> QED
    BY <1>1, <1>4, <1>5, <2>1 DEF ReadUnder
<1> QED
  BY <1>7, <1>8, <1>9, <1>10, <1>11 DEF BoundsInv

LEMMA RestartStaysBound ==
    ASSUME BoundsInv, MonitorInv', MonitorRestart
    PROVE  BoundsInv'
<1> DEFINE q(r) == [sought[r] EXCEPT !.run = FALSE, !.settling = FALSE, !.cancelling = FALSE]
<1>1. /\ sought' = [r \in Monitored |-> q(r)]
      /\ frames' = << >> /\ live' = [live EXCEPT !.slipped = Monitored, !.sync = NoSync]
      /\ UNCHANGED <<happened, saved>>
  BY DEF MonitorRestart
<1>2. MonitorInv /\ live \in Live
  BY LiveSays DEF BoundsInv
<1>3. live'.rows = live.rows /\ live'.sync = NoSync /\ live'.syncs = live.syncs
  <2> HIDE DEF Lines, Syncing, NoSync
  <2> QED
    BY <1>1, <1>2 DEF Live
<1>4. ASSUME NEW k \in Monitored, NEW t \in EventType
      PROVE  /\ Numbered(frames', k, t) = 0 /\ Numbered(frames, k, t) \in Nat
             /\ happened[k][t] \in Nat
  <2>1. frames' \in Seq(Frame) /\ DOMAIN frames' = {}
    <3>1. << >> \in Seq(Frame) /\ DOMAIN << >> = {}
      OBVIOUS
    <3> QED
      BY Zenon, <1>1, <3>1
  <2>2. \A i \in DOMAIN frames' : frames'[i] # FrameSays(k, t)
    BY <2>1
  <2>3. ASSUME NEW s \in Seq(Frame) PROVE Numbered(s, k, t) \in Nat
    BY NumberedSays
  <2>4. frames \in Seq(Frame) /\ happened[k][t] \in Nat
    BY <1>2, SoughtSays
  <2>5. Numbered(frames', k, t) = 0
    BY <2>1, <2>2, NumberedSays
  <2> QED
    BY Zenon, <2>3, <2>4, <2>5
<1>5. ASSUME NEW k \in Monitored PROVE Tallied(sought'[k], happened'[k]) /\ NeverMore(k)'
  <2>1. Tallied(sought[k], happened[k]) /\ NeverMore(k)
    BY DEF BoundsInv
  <2>2. /\ sought'[k].round = sought[k].round /\ sought'[k].offer = sought[k].offer
        /\ sought'[k].status = sought[k].status
        /\ ~sought'[k].run /\ ~sought'[k].settling /\ ~sought'[k].cancelling
    <3>1. sought[k] \in Sought
      BY <1>2, SoughtSays
    <3>2. sought'[k] = q(k)
      BY <1>1
    <3> QED
      BY <3>1, <3>2 DEF Sought
  <2>3. Tallied(sought'[k], happened'[k])
    BY <1>1, <2>1, <2>2 DEF Tallied
  <2>4. ASSUME NEW t \in EventType
        PROVE  saved'[k][t] <= happened'[k][t] /\ Numbered(frames', k, t) <= happened'[k][t]
    <3>1. saved[k][t] <= happened[k][t] /\ happened[k][t] >= 0
      BY <1>4, <2>1 DEF NeverMore
    <3> QED
      BY <1>1, <1>4, <3>1
  <2>5. NeverMore(k)'
    BY <2>4 DEF NeverMore
  <2> QED
    BY <2>3, <2>5
<1>6. ASSUME NEW k \in Monitored PROVE PageUnder(k)' /\ AnswerUnder(k)'
  <2>1. AnswerUnder(k)'
    BY <1>3 DEF AnswerUnder, NoSync
  <2> SUFFICES ASSUME NEW row, row = live.rows[k], row # NoLine
               PROVE  RowUnder(row, k)'
    BY <1>3, <2>1 DEF PageUnder, RowUnder, CountUnder
  <2>2. row \in Line
    <3>1. Typed
      BY <1>2 DEF MonitorInv
    <3> QED
      BY <3>1, RowOfLine
  <2>3. RowUnder(row, k)
    BY HeldUnder
  <2>4. /\ row.acked \in Nat /\ row.rejected \in Nat /\ row.expired \in Nat
        /\ row.undelivered \in Nat /\ row.notified \in Nat
    BY <2>2 DEF Line
  <2>5. ASSUME NEW n \in Nat, NEW t \in EventType, CountUnder(n, k, t)
        PROVE  CountUnder(n, k, t)'
    <3>1. n + Numbered(frames, k, t) <= 2 * happened[k][t]
      BY <2>5 DEF CountUnder
    <3>2. n + Numbered(frames', k, t) <= 2 * happened[k][t]
      BY <1>4, <3>1
    <3> QED
      BY <1>1, <3>2 DEF CountUnder
  <2>6. /\ "device_offer_ack" \in EventType /\ "driver_rejected" \in EventType
        /\ "offer_expired" \in EventType /\ "offer_delivery_failed" \in EventType
        /\ "socket_offer_emitted" \in EventType /\ "fcm_accepted_by_provider" \in EventType
    BY DEF EventType
  <2>7. row.notified + Numbered(frames', k, "socket_offer_emitted")
              + Numbered(frames', k, "fcm_accepted_by_provider")
            <= happened'[k]["notification_queued"] + happened'[k]["socket_offer_emitted"]
                  + happened'[k]["fcm_accepted_by_provider"]
    <3>1. row.notified + Numbered(frames, k, "socket_offer_emitted")
                + Numbered(frames, k, "fcm_accepted_by_provider")
              <= happened[k]["notification_queued"] + happened[k]["socket_offer_emitted"]
                    + happened[k]["fcm_accepted_by_provider"]
      BY <2>3 DEF RowUnder
    <3> DEFINE a == Numbered(frames, k, "socket_offer_emitted")
               b == Numbered(frames, k, "fcm_accepted_by_provider")
               c == happened[k]["notification_queued"] + happened[k]["socket_offer_emitted"]
                      + happened[k]["fcm_accepted_by_provider"]
    <3>2. a \in Nat /\ b \in Nat /\ c \in Nat
      BY <1>4, <2>6 DEF EventType
    <3>3. row.notified + a + b <= c
      BY <3>1
    <3>4. row.notified + 0 + 0 <= c
      <4> HIDE DEF a, b, c
      <4> QED
        BY <2>4, <3>2, <3>3
    <3> QED
      BY <1>1, <1>4, <2>6, <3>4
  <2> QED
    BY <2>3, <2>4, <2>5, <2>6, <2>7 DEF RowUnder
<1>7. live'.syncs <= MaxSyncs
  BY <1>3 DEF BoundsInv
<1>8. \A k \in Monitored : ReadUnder(k)'
  BY <1>3 DEF ReadUnder, NoSync
<1> QED
  BY <1>5, <1>6, <1>7, <1>8 DEF BoundsInv

LEMMA BoundsStart == ASSUME MonitorInit PROVE BoundsInv
<1>1. MonitorInv
  BY MonitorStarts
<1>2. /\ \A r \in Monitored : /\ live.rows[r] = NoLine
                              /\ sought[r] = [status |-> "none", run |-> FALSE, round |-> 0,
                                    offer |-> "none", settling |-> FALSE,
                                    cancelling |-> FALSE, controlled |-> FALSE,
                                    taken |-> FALSE]
      /\ \A r \in Monitored, t \in EventType : happened[r][t] = 0
      /\ saved = happened /\ frames = << >> /\ live.sync = NoSync /\ live.syncs = 0
  BY DEF MonitorInit
<1>3. ASSUME NEW r \in Monitored PROVE Tallied(sought[r], happened[r])
  BY <1>2 DEF Tallied, Once, EventType
<1>4. ASSUME NEW r \in Monitored PROVE NeverMore(r)
  <2>1. frames \in Seq(Frame) /\ DOMAIN frames = {}
    <3>1. << >> \in Seq(Frame) /\ DOMAIN << >> = {}
      OBVIOUS
    <3> QED
      BY Zenon, <1>2, <3>1
  <2>2. \A t \in EventType : Numbered(frames, r, t) = 0
    BY <2>1, NumberedSays
  <2> QED
    BY <1>2, <2>2 DEF NeverMore
<1>5. ASSUME NEW r \in Monitored PROVE PageUnder(r) /\ AnswerUnder(r) /\ ReadUnder(r)
  BY <1>2 DEF PageUnder, AnswerUnder, ReadUnder, NoSync
<1>6. live.syncs <= MaxSyncs
  BY <1>2, MonitorAssumption
<1> QED
  BY <1>1, <1>3, <1>4, <1>5, <1>6 DEF BoundsInv

LEMMA BoundsKeep == BoundsInv /\ [MonitorNext]_monitorVars => BoundsInv'
<1> SUFFICES ASSUME BoundsInv, [MonitorNext]_monitorVars PROVE BoundsInv'
  OBVIOUS
<1>1. MonitorInv'
  BY MonitorKeeps DEF BoundsInv
<1>2. CASE \E r \in Monitored : SearchGoesOn(r)
  BY <1>2, SearchStaysBound
<1>3. CASE \E r \in Monitored : SaveEvents(r)
  BY <1>1, <1>3, SaveStaysBound
<1>4. CASE MonitorRestart
  BY <1>1, <1>4, RestartStaysBound
<1>5. CASE PageGoesOn
  BY <1>1, <1>5, PageStaysBound, SyncAnswersStaysBound, ReceiveStaysBound DEF PageGoesOn
<1>6. CASE UNCHANGED monitorVars
  BY <1>1, <1>6, RestStaysBound
<1> QED
  BY <1>2, <1>3, <1>4, <1>5, <1>6 DEF MonitorNext

\* What a search can have recorded is at most one event of a type for each offer.
LEMMA TalliedSays ==
    ASSUME BoundsInv, NEW r \in Monitored, NEW t \in EventType
    PROVE  happened[r][t] \in 0..MaxOffers /\ saved[r][t] \in 0..MaxOffers
<1>1. /\ MonitorInv /\ Tallied(sought[r], happened[r])
      /\ sought[r].round \in 0..MaxOffers
  BY TallyBefore
<1>2. MaxOffers \in Nat /\ MaxOffers >= 1
  BY MonitorAssumption
<1>3. \A u \in EventType : happened[r][u] \in Nat
  BY <1>1, SoughtSays
<1>4. /\ Once(sought[r].offer = "queued") \in {0, 1}
      /\ Once(sought[r].offer \in {"queued", "open", "acked"}) \in {0, 1}
  BY DEF Once
<1>5. happened[r][t] <= MaxOffers
  <2>1. /\ happened[r]["notification_queued"] \in Nat /\ happened[r]["socket_offer_emitted"] \in Nat
        /\ happened[r]["fcm_accepted_by_provider"] \in Nat
        /\ happened[r]["offer_delivery_failed"] \in Nat
        /\ happened[r]["device_offer_ack"] \in Nat /\ happened[r]["driver_rejected"] \in Nat
        /\ happened[r]["offer_expired"] \in Nat /\ happened[r]["driver_accepted"] \in Nat
        /\ happened[r]["ride_cancelled"] \in Nat /\ happened[r]["dispatch_failed"] \in Nat
    BY <1>3 DEF EventType
  <2>2. sought[r].round \in Nat /\ sought[r].round <= MaxOffers
    BY <1>1, <1>2
  <2>3. t \in {"notification_queued", "socket_offer_emitted", "fcm_accepted_by_provider",
               "offer_delivery_failed", "driver_rejected"} => happened[r][t] <= MaxOffers
    BY <1>1, <1>2, <1>4, <2>1, <2>2 DEF Tallied
  <2>4. t \in {"device_offer_ack", "offer_expired", "driver_accepted", "ride_cancelled",
               "dispatch_failed"} => happened[r][t] <= MaxOffers
    BY <1>1, <1>2, <2>1 DEF Tallied
  <2> QED
    BY <2>3, <2>4 DEF EventType
<1>6. saved[r][t] <= happened[r][t] /\ saved[r][t] \in Nat
  <2>1. saved \in Ledger
    BY <1>1, LiveSays
  <2>2. saved[r][t] \in Nat
    <3> HIDE DEF EventType
    <3> QED
      BY <2>1 DEF Ledger
  <2> QED
    BY <2>2, HeldUnder
<1> QED
  BY <1>2, <1>3, <1>5, <1>6

\* A row whose counts are within is a row of the page.
LEMMA UnderIsARideLine ==
    ASSUME BoundsInv, NEW r \in Monitored, NEW row \in Line, RowUnder(row, r)
    PROVE  row \in RideLine
<1>1. MonitorInv /\ frames \in Seq(Frame) /\ MaxOffers \in Nat
  BY SoughtSays DEF BoundsInv
<1>2. /\ row.acked \in Nat /\ row.rejected \in Nat /\ row.expired \in Nat
      /\ row.undelivered \in Nat /\ row.notified \in Nat /\ row.status \in RideStatus
  BY DEF Line
<1>3. \A t \in EventType : Numbered(frames, r, t) \in Nat /\ happened[r][t] \in 0..MaxOffers
  BY <1>1, NumberedSays, TalliedSays
<1>4. /\ "device_offer_ack" \in EventType /\ "driver_rejected" \in EventType
      /\ "offer_expired" \in EventType /\ "offer_delivery_failed" \in EventType
      /\ "notification_queued" \in EventType /\ "socket_offer_emitted" \in EventType
      /\ "fcm_accepted_by_provider" \in EventType
  BY DEF EventType
<1>5. ASSUME NEW n \in Nat, NEW t \in EventType, CountUnder(n, r, t)
      PROVE  n \in 0..(2 * MaxOffers)
  <2>1. n + Numbered(frames, r, t) <= 2 * happened[r][t]
    BY <1>5 DEF CountUnder
  <2> QED
    BY <1>1, <1>3, <2>1
<1>6. /\ row.acked \in 0..(2 * MaxOffers) /\ row.rejected \in 0..(2 * MaxOffers)
      /\ row.expired \in 0..(2 * MaxOffers) /\ row.undelivered \in 0..(2 * MaxOffers)
  BY <1>2, <1>4, <1>5 DEF RowUnder
<1>7. row.notified \in 0..(3 * MaxOffers)
  <2> DEFINE a == Numbered(frames, r, "socket_offer_emitted")
             b == Numbered(frames, r, "fcm_accepted_by_provider")
             c == happened[r]["notification_queued"]
             d == happened[r]["socket_offer_emitted"]
             e == happened[r]["fcm_accepted_by_provider"]
  <2>1. a \in Nat /\ b \in Nat /\ c \in 0..MaxOffers /\ d \in 0..MaxOffers /\ e \in 0..MaxOffers
    BY <1>3, <1>4
  <2>2. row.notified + a + b <= c + d + e
    BY DEF RowUnder
  <2> HIDE DEF a, b, c, d, e
  <2> QED
    BY <1>1, <1>2, <2>1, <2>2
<1>8. row = [status |-> row.status, notified |-> row.notified, acked |-> row.acked,
             rejected |-> row.rejected, expired |-> row.expired,
             undelivered |-> row.undelivered]
  BY DEF Line
<1> QED
  BY <1>2, <1>6, <1>7, <1>8 DEF RideLine

LEMMA BoundsAreTypes == BoundsInv => MonitorTypeOK
<1> SUFFICES ASSUME BoundsInv PROVE MonitorTypeOK
  OBVIOUS
<1>1. MonitorInv /\ Typed
  BY DEF BoundsInv, MonitorInv
<1>2. /\ sought \in [Monitored -> Sought] /\ happened \in Ledger /\ saved \in Ledger
      /\ frames \in Seq(Frame)
  BY <1>1 DEF Typed
<1>3. /\ happened \in [Monitored -> [EventType -> 0..MaxOffers]]
      /\ saved \in [Monitored -> [EventType -> 0..MaxOffers]]
  <2>1. \A r \in Monitored : /\ happened[r] \in [EventType -> 0..MaxOffers]
                             /\ saved[r] \in [EventType -> 0..MaxOffers]
    <3> HIDE DEF EventType
    <3> QED
      BY <1>2, TalliedSays DEF Ledger
  <2> HIDE DEF EventType
  <2> QED
    BY <1>2, <2>1 DEF Ledger
<1>4. \A r \in Monitored, t \in EventType : saved[r][t] <= happened[r][t]
  BY HeldUnder
<1>5. \A i \in DOMAIN frames : frames[i] \in Frame
  BY <1>2, FramesSay
<1>6. ASSUME NEW rows \in Lines,
             \A r \in Monitored : rows[r] = NoLine \/ RowUnder(rows[r], r)
      PROVE  rows \in Rows
  <2>1. ASSUME NEW r \in Monitored PROVE rows[r] \in RideLine \cup {NoLine}
    <3>1. rows[r] \in Line \cup {NoLine}
      <4> HIDE DEF Line, NoLine
      <4> QED
        BY DEF Lines
    <3> QED
      BY <1>6, <3>1, UnderIsARideLine
  <2> HIDE DEF Line, NoLine, RideLine
  <2> QED
    BY <2>1 DEF Lines, Rows
<1>7. /\ live.rows \in Lines /\ live.sync \in Syncing /\ live.looking \in BOOLEAN
      /\ live.slipped \in SUBSET Monitored /\ live.leaving \in SUBSET Monitored
      /\ live.syncs \in Nat /\ live.syncs <= MaxSyncs
  BY <1>1, LiveSays DEF BoundsInv
<1>8. live.rows \in Rows
  BY <1>6, <1>7, HeldUnder
<1>9. /\ live.sync.at \in {"none", "asked", "found", "counted", "answered"}
      /\ live.sync.at = "answered" => live.sync.rows \in Lines
  <2>1. live.sync.at \in {"none", "asked", "found", "counted", "answered"}
    <3> HIDE DEF Lines, Ledger
    <3> QED
      BY <1>7 DEF Syncing, NoSync, Reading, Counting, Answering
  <2> QED
    BY <1>7, <2>1, AnsweringSays
<1>10. live.sync.at = "answered" => live.sync.rows \in Rows
  BY <1>6, <1>9, HeldUnder
<1>11. live.syncs \in 0..MaxSyncs
  BY <1>7, MonitorAssumption
<1> QED
  BY <1>2, <1>3, <1>4, <1>5, <1>7, <1>8, <1>9, <1>10, <1>11 DEF MonitorTypeOK

===============================================================================
