--------------------------- MODULE MCStopDeadline ---------------------------
(* The constants are numbers, given in the cfg. *)
EXTENDS StopDeadline
=============================================================================
