----------------------------- MODULE MCPortTable -----------------------------
(* Model-checking instance of PortTable: which ports are used.             *)
EXTENDS PortTable

LowAndHigh == {1, 2}
OneEach == {1, 3}
=============================================================================
