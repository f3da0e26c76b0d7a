----------------------------- MODULE MCOpsControl ------------------------------
(***************************************************************************)
(* OpsControl on small instances.                                          *)
(***************************************************************************)
EXTENDS OpsControl
===============================================================================
