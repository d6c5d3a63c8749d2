------------------------------- MODULE Stamps -------------------------------
(***************************************************************************)
(* The age of an answer read from pixiv.  Every login starts a new session *)
(* (bearer token, or web session) and within one session pixiv's state of  *)
(* an item has a version, so that an answer is dated by the session it was *)
(* read under and the version it reflects.  Values themselves (followed or *)
(* not, the set of liked ids) are abstracted to their stamps: what the     *)
(* caches may get wrong is which state an answer reflects.                 *)
(***************************************************************************)
EXTENDS Naturals

Stamp == [s : Nat, v : Nat]

Leq(x, y) == x.s < y.s \/ (x.s = y.s /\ x.v <= y.v)

Later(x, y) == IF Leq(x, y) THEN y ELSE x

Origin == [s |-> 0, v |-> 0]
=============================================================================
