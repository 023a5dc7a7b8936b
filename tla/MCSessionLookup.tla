--------------------------- MODULE MCSessionLookup ---------------------------
(* Model-checking instance of SessionLookup: which connections there are.  *)
EXTENDS SessionLookup

CONSTANTS t0, t1
TwoTuples == {t0, t1}
OneQueried == {0}
=============================================================================
