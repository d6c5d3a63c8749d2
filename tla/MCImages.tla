------------------------------- MODULE MCImages -------------------------------
(* Three requests for two urls over one slot, with room for one waiter: the *)
(* queue fills and overflows.                                               *)
EXTENDS Images
=============================================================================
