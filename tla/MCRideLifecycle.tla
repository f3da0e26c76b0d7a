---------------------------- MODULE MCRideLifecycle ----------------------------
(***************************************************************************)
(* RideLifecycle on small instances.  Rides and invocations are            *)
(* interchangeable: nothing in the specification tells two of them apart.  *)
(* The liveness run does not use the symmetry.                             *)
(***************************************************************************)
EXTENDS RideLifecycle, TLC

Symmetry == Permutations(Rides) \cup Permutations(Handlers)
===============================================================================
