--------------------------- MODULE MCRideServices -----------------------------
(*****************************************************************************)
(* The services around a searching or running ride, on small instances.      *)
(* They share no state of these models: a property of one holds in every     *)
(* interleaving of them all if it holds while that one alone moves.  So a    *)
(* behaviour chooses one of them at the start and runs it, which makes the   *)
(* state space a sum and not a product.                                      *)
(*****************************************************************************)
EXTENDS DispatchRounds, PassengerSlot, Coordination, ParkDispatch,
        DriverIntent, PassengerApp, DriverApp, CoordinationCard, TLC

VARIABLE part   \* the service this behaviour runs

rideVars == <<part, roundsVars, slotVars, coordVars, parkVars, intentVars,
              appVars, driverVars, cardVars>>

RideInit ==
    /\ RoundsInit
    /\ SlotInit
    /\ CoordInit
    /\ ParkInit
    /\ IntentInit
    /\ AppInit
    /\ DriverAppInit
    /\ CardInit
    /\ part \in {"rounds", "slot", "talk", "parks", "intent", "app", "driver",
                "card"}
    /\ part # "card" => me = "driver"

RideNext ==
    /\ UNCHANGED part
    /\ \/ /\ part = "rounds" /\ RoundsNext
          /\ UNCHANGED <<slotVars, coordVars, parkVars, intentVars, appVars,
                         driverVars, cardVars>>
       \/ /\ part = "slot" /\ SlotNext
          /\ UNCHANGED <<roundsVars, coordVars, parkVars, intentVars,
                         appVars, driverVars, cardVars>>
       \/ /\ part = "talk" /\ CoordNext
          /\ UNCHANGED <<roundsVars, slotVars, parkVars, intentVars, appVars,
                         driverVars, cardVars>>
       \/ /\ part = "parks" /\ ParkNext
          /\ UNCHANGED <<roundsVars, slotVars, coordVars, intentVars,
                         appVars, driverVars, cardVars>>
       \/ /\ part = "intent" /\ IntentNext
          /\ UNCHANGED <<roundsVars, slotVars, coordVars, parkVars, appVars,
                         driverVars, cardVars>>
       \/ /\ part = "app" /\ AppNext
          /\ UNCHANGED <<roundsVars, slotVars, coordVars, parkVars,
                         intentVars, driverVars, cardVars>>
       \/ /\ part = "driver" /\ DriverAppNext
          /\ UNCHANGED <<roundsVars, slotVars, coordVars, parkVars,
                         intentVars, appVars, cardVars>>
       \/ /\ part = "card" /\ CardNext
          /\ UNCHANGED <<roundsVars, slotVars, coordVars, parkVars,
                         intentVars, appVars, driverVars>>

RideSpec == RideInit /\ [][RideNext]_rideVars

\* The state of the service that runs has its type.
RideTypeOK ==
    /\ part = "rounds" => RoundsTypeOK
    /\ part = "slot" => SlotTypeOK
    /\ part = "talk" => CoordTypeOK
    /\ part = "parks" => ParkTypeOK
    /\ part = "intent" => IntentTypeOK
    /\ part = "app" => AppTypeOK
    /\ part = "driver" => DriverAppTypeOK
    /\ part = "card" => CardTypeOK

\* The sets whose members a service treats alike have the same two members
\* here, so that swapping these everywhere is a symmetry of every service.
Symmetry == Permutations(SearchRides)
===============================================================================
