---------------------------- MODULE MCStateTable ----------------------------
(* Model-checking instance of StateTable: a session as a model value.      *)
EXTENDS StateTable

CONSTANT s0
=============================================================================
