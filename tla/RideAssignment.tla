---------------------------- MODULE RideAssignment ----------------------------
(***************************************************************************)
(* What the backend promises about who owns a ride, with no handlers, no   *)
(* Redis and no dispatch loop: the specification RideLifecycle implements. *)
(*                                                                         *)
(* A ride is open from its request until somebody claims it, then owned by *)
(* exactly that driver until Operations vacates it (it is open again) or   *)
(* the trip departs.  A departed trip never changes hands, and a closed    *)
(* ride never opens again.                                                 *)
(***************************************************************************)

CONSTANTS
    Rides,     \* ride identifiers
    Drivers,   \* driver identifiers
    NoDriver   \* the null of ride.driverId

VARIABLES
    phase,     \* phase[r]: "absent", "open", "owned", "riding" or "closed"
    owner      \* owner[r]: the driver r belongs to, or NoDriver

vars == <<phase, owner>>

Phase == {"absent", "open", "owned", "riding", "closed"}

Init ==
    /\ phase = [r \in Rides |-> "absent"]
    /\ owner = [r \in Rides |-> NoDriver]

Move(r, from, to) ==
    /\ phase[r] \in from
    /\ phase' = [phase EXCEPT ![r] = to]

\* A passenger asks for a ride.
Open(r) ==
    /\ Move(r, {"absent"}, "open")
    /\ UNCHANGED owner

\* One driver gains an open ride.
Claim(r, d) ==
    /\ Move(r, {"open"}, "owned")
    /\ owner' = [owner EXCEPT ![r] = d]

\* The owner is taken off and the same ride is offered again.
Vacate(r) ==
    /\ Move(r, {"owned"}, "open")
    /\ owner' = [owner EXCEPT ![r] = NoDriver]

\* The passenger is on board.
Depart(r) ==
    /\ Move(r, {"owned"}, "riding")
    /\ UNCHANGED owner

\* Rides complete, are cancelled or fail; a restart may fail several at once.
Close(S) ==
    /\ phase' = [r \in Rides |-> IF r \in S THEN "closed" ELSE phase[r]]
    /\ UNCHANGED owner

Next ==
    \/ \E r \in Rides, d \in Drivers : Claim(r, d)
    \/ \E r \in Rides : Open(r) \/ Vacate(r) \/ Depart(r)
    \/ \E S \in SUBSET {r \in Rides : phase[r] # "absent"} : Close(S)

Spec == Init /\ [][Next]_vars
===============================================================================
