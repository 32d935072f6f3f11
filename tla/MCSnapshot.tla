------------------------------ MODULE MCSnapshot ------------------------------
(***************************************************************************)
(* Model-checking instances of Snapshot.  Absent and Torn are model values *)
(* (the .cfg files bind them), so that they differ from every moment.      *)
(***************************************************************************)
EXTENDS Snapshot
===============================================================================
