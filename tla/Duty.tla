---------------------------------- MODULE Duty ----------------------------------
(***************************************************************************)
(* Dispatchers on duty at a park and the phones that ring for it           *)
(* (services/dispatcher_shift_service.ts, services/staff_push_service.ts,  *)
(* services/staff_push_escalation.ts, and the routes of                    *)
(* routes/dispatcher_routes.ts that call them).                            *)
(*                                                                         *)
(* A phone is a row of staff_device_tokens: whose it is, whether it is     *)
(* active, and the shift and park it is bound to.  Alerts go to the active *)
(* rows of a park.  save() of a row read before an await writes back every *)
(* column that was changed meanwhile.  Whether the park is active and the  *)
(* person may work there, the distance, delivery records and               *)
(* acknowledgements change none of it and are left out.                    *)
(***************************************************************************)
EXTENDS Naturals, FiniteSets

CONSTANTS
    Dispatchers,
    Places,       \* parks
    Phones,       \* browsers with a push token
    Hails,        \* jobs offered to a park
    Desks,        \* staff requests that can be served at the same time
    NoPlace, NoDispatcher, NoHail, Sweeper,
    MaxShifts,    \* bound: shifts opened
    MaxUnmarked   \* bound: passes over a job whose mark fails

ASSUME DutyAssumption ==
    /\ NoPlace \notin Places /\ NoDispatcher \notin Dispatchers
    /\ {Sweeper, NoHail} \cap Hails = {} /\ {MaxShifts, MaxUnmarked} \subseteq Nat

VARIABLES
    shift,    \* shift[s]: the open shift of s
    shifts,   \* shifts opened so far
    phone,    \* phone[f]: its row, holderless while there is none
    errand,     \* errand[h]: a staff request between two of its awaits
    hail,     \* hail[j]: the job and the park it is offered to
    chase,    \* chase[j]: park_push:pending, the follow-ups already sent
    ringing,  \* ringing[c]: an alert being sent, at the offer or by the sweeper
    rung,     \* rung[j]: alerts sent for j (history)
    unmarked, \* unmarked[j]: passes that alerted and set no mark (history)
    astray    \* astray[f]: the row has reason to be wrong (history)

dutyVars == <<shift, shifts, phone, errand, hail, chase, ringing, rung, unmarked, astray>>

-------------------------------------------------------------------------------
(* Types *)

OffDuty == [no |-> 0, park |-> NoPlace]
OnShift == [no : 0..MaxShifts, park : Places \cup {NoPlace}]

Unknown == [holder |-> NoDispatcher, active |-> FALSE, duty |-> OffDuty]
PhoneRow == [holder : Dispatchers \cup {NoDispatcher}, active : BOOLEAN, duty : OnShift]

Free == [at |-> "idle", who |-> NoDispatcher, duty |-> OffDuty, on |-> {}, seen |-> Unknown]
DeskPoint == {"idle", "bind", "close", "revoke", "find", "save", "test"}

FollowUps == {"reminder", "final"}
Unscheduled == {"unscheduled"}
Callers == Hails \cup {Sweeper}
NotRinging == [job |-> NoHail, left |-> {}, gone |-> {},
           seen |-> [f \in Phones |-> Unknown], sent |-> {}]

DutyTypeOK ==
    /\ shift \in [Dispatchers -> OnShift] /\ shifts \in 0..MaxShifts
    /\ phone \in [Phones -> PhoneRow]
    /\ \A h \in Desks :
          errand[h] \in [at : DeskPoint, who : Dispatchers \cup {NoDispatcher},
                       duty : OnShift, on : SUBSET Phones, seen : PhoneRow]
    /\ hail \in [Hails -> [at : {"new", "offered", "taken"}, park : Places \cup {NoPlace}]]
    /\ chase \in [Hails -> (SUBSET FollowUps) \cup {Unscheduled}]
    /\ \A c \in Callers :
          ringing[c] \in [job : Hails \cup {NoHail}, left : SUBSET Phones,
                          gone : SUBSET Phones, seen : [Phones -> PhoneRow],
                          sent : SUBSET FollowUps]
    /\ rung \in [Hails -> Nat] /\ unmarked \in [Hails -> 0..MaxUnmarked]
    /\ astray \in [Phones -> BOOLEAN]

DutyInit ==
    /\ shift = [s \in Dispatchers |-> OffDuty] /\ shifts = 0
    /\ phone = [f \in Phones |-> Unknown] /\ astray = [f \in Phones |-> FALSE]
    /\ errand = [h \in Desks |-> Free]
    /\ hail = [j \in Hails |-> [at |-> "new", park |-> NoPlace]]
    /\ chase = [j \in Hails |-> Unscheduled]
    /\ ringing = [c \in Callers |-> NotRinging]
    /\ rung = [j \in Hails |-> 0] /\ unmarked = [j \in Hails |-> 0]

-------------------------------------------------------------------------------
(* Helpers *)

LivePhones(s) == {f \in Phones : phone[f].holder = s /\ phone[f].active}
Bound(fs) == {f \in fs : phone[f].duty # OffDuty}

Mark(fs, wrong) == [f \in Phones |-> IF f \in fs THEN wrong ELSE astray[f]]

\* revoke: one UPDATE of the active rows among fs.
Silence(fs) == [f \in Phones |-> IF f \in fs THEN [phone[f] EXCEPT !.active = FALSE]
                                 ELSE phone[f]]

\* save of a row as it was read.
WriteBack(f, seen) ==
    /\ phone' = [phone EXCEPT ![f] = seen]
    /\ astray' = [astray EXCEPT ![f] = @ \/ phone[f] # seen]

Take(h, step) == errand[h] = Free /\ errand' = [errand EXCEPT ![h] = step]
Go(h, at) == errand' = [errand EXCEPT ![h].at = at]
Done(h) == errand' = [errand EXCEPT ![h] = Free]

AlertsLeft == UNCHANGED <<hail, chase, ringing, rung, unmarked>>
ShiftsLeft == UNCHANGED <<shift, shifts>>

-------------------------------------------------------------------------------
(* Shifts *)

\* open: the unique index lets one in.  The audit may fail the request after it.
OpenShift(h, s, p) ==
    /\ shift[s] = OffDuty /\ shifts < MaxShifts
    /\ LET opened == [no |-> shifts + 1, park |-> p]
       IN  /\ shift' = [shift EXCEPT ![s] = opened]
           /\ \/ Take(h, [Free EXCEPT !.at = "bind", !.who = s, !.duty = opened])
              \/ UNCHANGED errand
    /\ shifts' = shifts + 1
    /\ UNCHANGED <<phone, astray>> /\ AlertsLeft

\* bindToShift, which may fail.
Bind(h) ==
    /\ errand[h].at = "bind"
    /\ \/ LET mine == LivePhones(errand[h].who)
          IN  /\ phone' = [f \in Phones |-> IF f \in mine
                                            THEN [phone[f] EXCEPT !.duty = errand[h].duty]
                                            ELSE phone[f]]
              /\ astray' = Mark(mine, shift[errand[h].who] # errand[h].duty)
       \/ UNCHANGED <<phone, astray>>
    /\ Done(h) /\ ShiftsLeft /\ AlertsLeft

\* close: the open shift, and requests in hand without a note refuse.
BeginClose(h, s) ==
    /\ shift[s] # OffDuty
    /\ Take(h, [Free EXCEPT !.at = "close", !.who = s, !.duty = shift[s]])
    /\ UNCHANGED <<phone, astray>> /\ ShiftsLeft /\ AlertsLeft

\* closeIfOpen
CloseIfOpen(h) ==
    /\ errand[h].at = "close"
    /\ IF shift[errand[h].who] = errand[h].duty
       THEN shift' = [shift EXCEPT ![errand[h].who] = OffDuty] /\ Go(h, "revoke")
       ELSE UNCHANGED shift /\ Done(h)
    /\ UNCHANGED <<shifts, phone, astray>> /\ AlertsLeft

\* Mutant: closing a shift leaves its phones active.
RevokeNothing(h) ==
    /\ errand[h].at = "revoke"
    /\ UNCHANGED <<phone, astray>>
    /\ Done(h) /\ ShiftsLeft /\ AlertsLeft

\* The close stands whether or not the phones could be revoked.
RevokeAfterClose(h) ==
    /\ errand[h].at = "revoke"
    /\ LET mine == LivePhones(errand[h].who)
       IN  \/ phone' = Silence(mine) /\ UNCHANGED astray
           \/ UNCHANGED phone /\ astray' = Mark(Bound(mine), TRUE)
    /\ Done(h) /\ ShiftsLeft /\ AlertsLeft

\* forceClose leaves the phones alone.
ForceClose(s) ==
    /\ shift[s] # OffDuty
    /\ shift' = [shift EXCEPT ![s] = OffDuty]
    /\ astray' = Mark(Bound(LivePhones(s)), TRUE)
    /\ UNCHANGED <<shifts, phone, errand>> /\ AlertsLeft

-------------------------------------------------------------------------------
(* Phones *)

\* POST /push/register: the park comes from the open shift.
BeginRegister(h, s, f) ==
    /\ Take(h, [Free EXCEPT !.at = "find", !.who = s, !.duty = shift[s], !.on = {f}])
    /\ UNCHANGED <<phone, astray>> /\ ShiftsLeft /\ AlertsLeft

\* register looks the token up and revokes older tokens of the same device.
FindToken(h) ==
    /\ errand[h].at = "find"
    /\ \E f \in errand[h].on :
          /\ errand' = [errand EXCEPT ![h].at = "save", ![h].seen = phone[f]]
          /\ \E same \in SUBSET (LivePhones(errand[h].who) \ {f}) : phone' = Silence(same)
    /\ UNCHANGED astray /\ ShiftsLeft /\ AlertsLeft

\* A token that another request inserted meanwhile fails the unique index.
SaveToken(h) ==
    /\ errand[h].at = "save"
    /\ \E f \in errand[h].on :
          IF errand[h].seen = Unknown /\ phone[f] # Unknown
          THEN UNCHANGED <<phone, astray>>
          ELSE /\ phone' = [phone EXCEPT ![f] = [holder |-> errand[h].who, active |-> TRUE,
                                                 duty |-> errand[h].duty]]
               /\ astray' = [astray EXCEPT ![f] = errand[h].duty \notin {OffDuty, shift[errand[h].who]}]
    /\ Done(h) /\ ShiftsLeft /\ AlertsLeft

\* Signing out one device or all, or being suspended.
Unregister(s) ==
    /\ \E fs \in SUBSET LivePhones(s) : fs # {} /\ phone' = Silence(fs)
    /\ UNCHANGED <<errand, astray>> /\ ShiftsLeft /\ AlertsLeft

BeginTest(h, s, f) ==
    /\ f \in LivePhones(s)
    /\ Take(h, [Free EXCEPT !.at = "test", !.who = s, !.on = {f}, !.seen = phone[f]])
    /\ UNCHANGED <<phone, astray>> /\ ShiftsLeft /\ AlertsLeft

\* sendTest stamps the row it read before the push.
FinishTest(h) ==
    /\ errand[h].at = "test"
    /\ \/ \E f \in errand[h].on : WriteBack(f, errand[h].seen)
       \/ UNCHANGED <<phone, astray>>
    /\ Done(h) /\ ShiftsLeft /\ AlertsLeft

-------------------------------------------------------------------------------
(* Alerts *)

\* notifyParkDispatchers reads the active rows of the park.
Alert(c, j, park, sent) ==
    /\ ringing[c] = NotRinging
    /\ ringing' = [ringing EXCEPT ![c] =
                     [job |-> j, gone |-> {}, seen |-> phone, sent |-> sent,
                      left |-> {f \in Phones : phone[f].active /\ phone[f].duty.park = park}]]
    /\ rung' = [rung EXCEPT ![j] = @ + 1]
    /\ UNCHANGED <<shift, shifts, phone, errand, unmarked, astray>>

\* stillNeedsAttention
Unattended(j) == hail[j].at = "offered"

\* onJobOffered
Offered(j, p) ==
    /\ hail[j].at = "new"
    /\ hail' = [hail EXCEPT ![j] = [at |-> "offered", park |-> p]]
    /\ Alert(j, j, p, {})
    /\ UNCHANGED chase

\* The sweeper's pass over one key; passes do not overlap.  The clock decides
\* what is due; a job that no longer needs attention, or a lapsed one, loses its
\* key.
Chase(j) ==
    /\ chase[j] # Unscheduled
    /\ \/ /\ Unattended(j)
          /\ \E due \in FollowUps \ chase[j] :
                Alert(Sweeper, j, hail[j].park, chase[j] \cup {due})
          /\ UNCHANGED <<hail, chase>>
       \/ /\ ringing[Sweeper] = NotRinging
          /\ chase' = [chase EXCEPT ![j] = Unscheduled]
          /\ UNCHANGED <<shift, shifts, phone, errand, hail, ringing, rung, unmarked, astray>>

\* One answer of sendEachForMulticast: accepted, failed, or the token is gone.
Rings(c, f) ==
    /\ f \in ringing[c].left
    /\ \/ WriteBack(f, ringing[c].seen[f]) /\ ringing' = [ringing EXCEPT ![c].left = @ \ {f}]
       \/ /\ \E dead \in {{}, {f}} :
                ringing' = [ringing EXCEPT ![c].left = @ \ {f}, ![c].gone = @ \cup dead]
          /\ UNCHANGED <<phone, astray>>
    /\ UNCHANGED <<errand, hail, chase, rung, unmarked>> /\ ShiftsLeft

\* Mutant: the key forgets the follow-ups it counted.
RungAnew(c) ==
    /\ ringing[c].job # NoHail /\ ringing[c].left = {}
    /\ phone' = Silence(ringing[c].gone)
    /\ chase' = [chase EXCEPT ![ringing[c].job] = {}]
    /\ ringing' = [ringing EXCEPT ![c] = NotRinging]
    /\ UNCHANGED <<errand, hail, rung, unmarked, astray>> /\ ShiftsLeft

\* The dead tokens are marked, and the key is set, whatever stop deleted
\* meanwhile.
Rung(c) ==
    /\ ringing[c].job # NoHail /\ ringing[c].left = {}
    /\ phone' = Silence(ringing[c].gone)
    /\ chase' = [chase EXCEPT ![ringing[c].job] = ringing[c].sent]
    /\ ringing' = [ringing EXCEPT ![c] = NotRinging]
    /\ UNCHANGED <<errand, hail, rung, unmarked, astray>> /\ ShiftsLeft

\* Sending, or setting the key after it, fails: the alert has rung and the key
\* says what it said before.  The offer goes on without follow-ups, the sweeper to
\* its next pass.
RingingFails(c) ==
    /\ ringing[c].job # NoHail
    /\ phone' \in {phone, Silence(ringing[c].gone)}
    /\ LET j == ringing[c].job
       IN  IF c = Sweeper
           THEN /\ unmarked[j] < MaxUnmarked
                /\ unmarked' = [unmarked EXCEPT ![j] = @ + 1]
           ELSE UNCHANGED unmarked
    /\ ringing' = [ringing EXCEPT ![c] = NotRinging]
    /\ UNCHANGED <<errand, hail, chase, rung, astray>> /\ ShiftsLeft

\* Claimed, skipped, expired, cancelled: stop, which may fail to delete the key.
Attended(j) ==
    /\ Unattended(j)
    /\ hail' = [hail EXCEPT ![j].at = "taken"]
    /\ \E left \in {chase[j], Unscheduled} : chase' = [chase EXCEPT ![j] = left]
    /\ UNCHANGED <<phone, errand, ringing, rung, unmarked, astray>> /\ ShiftsLeft

-------------------------------------------------------------------------------

DutyNext ==
    \/ \E h \in Desks :
          \/ \E s \in Dispatchers :
                \/ \E p \in Places : OpenShift(h, s, p)
                \/ BeginClose(h, s)
                \/ \E f \in Phones : BeginRegister(h, s, f) \/ BeginTest(h, s, f)
          \/ Bind(h) \/ CloseIfOpen(h) \/ RevokeAfterClose(h) \/ FindToken(h)
          \/ SaveToken(h) \/ FinishTest(h)
    \/ \E s \in Dispatchers : ForceClose(s) \/ Unregister(s)
    \/ \E j \in Hails : Chase(j) \/ Attended(j) \/ \E p \in Places : Offered(j, p)
    \/ \E c \in Callers : Rung(c) \/ RingingFails(c) \/ \E f \in Phones : Rings(c, f)

DutySpec == DutyInit /\ [][DutyNext]_dutyVars

-------------------------------------------------------------------------------
(* Properties *)

\* A phone does not ring for a park its holder is not on duty at
\* (dispatcher_shift_service.ts:329): an active row bound to a shift has that
\* shift open for its holder, once the close that ended it has revoked.  Unless
\* the shift was closed by a supervisor or the revoke failed, a binding or a
\* registration was late, or a row read before a push was saved after it.
OffDutyQuiet ==
    \A f \in Phones :
        LET row == phone[f]
        IN  /\ row.active /\ row.duty # OffDuty /\ ~astray[f]
            /\ \A h \in Desks : errand[h].at = "revoke" => errand[h].who # row.holder
            => row.holder \in Dispatchers /\ shift[row.holder] = row.duty

\* Three alerts, then silence (staff_push_escalation.ts:15), also when the key is
\* set again after a claim has deleted it: only an alert that could not be marked
\* as sent rings once more.
ThreeAlerts == \A j \in Hails : rung[j] <= 3 + unmarked[j]

\* Alerts ring for those on duty and stop: what a dispatcher can rely on when
\* several desks open, close and sweep at once
\* (dispatcher_shift_service.ts:248-343, staff_push_escalation.ts:15).
AlertsOnDuty == OffDutyQuiet /\ ThreeAlerts
===============================================================================
