-------------------------- MODULE SessionDirectory --------------------------
(***************************************************************************)
(* What the session lookup controller promises: a directory in which every *)
(* session ID belongs to at most one connection and every connection has   *)
(* at most one session ID.                                                 *)
(***************************************************************************)
CONSTANTS Sessions, Tuples, None

VARIABLE owner      \* the connection a session ID belongs to, None if free

Init == owner = [s \in Sessions |-> None]

Create(s, t) ==
    /\ owner[s] = None
    /\ \A other \in Sessions : owner[other] # t
    /\ owner' = [owner EXCEPT ![s] = t]

Release(s) ==
    /\ owner[s] # None
    /\ owner' = [owner EXCEPT ![s] = None]

Next == \E s \in Sessions : Release(s) \/ \E t \in Tuples : Create(s, t)

Spec == Init /\ [][Next]_owner
=============================================================================
