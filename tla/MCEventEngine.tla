---------------------------- MODULE MCEventEngine ----------------------------
(* Model-checking instance of EventEngine: every depth is the least that   *)
(* lets a stage be stalled by the next one.                                *)
EXTENDS EventEngine
=============================================================================
