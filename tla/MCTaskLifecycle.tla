--------------------------- MODULE MCTaskLifecycle ---------------------------
(* The lifecycle on the small set of invocations that lifecycle.cfg gives.  *)
EXTENDS TaskLifecycle
===============================================================================
