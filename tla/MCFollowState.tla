---------------------------- MODULE MCFollowState ----------------------------
(* Model values for FollowState and the configurations' small sets.        *)
EXTENDS FollowState
=============================================================================
