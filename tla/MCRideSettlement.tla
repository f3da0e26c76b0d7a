--------------------------- MODULE MCRideSettlement ----------------------------
(***************************************************************************)
(* RideSettlement on small instances.                                      *)
(***************************************************************************)
EXTENDS RideSettlement
===============================================================================
