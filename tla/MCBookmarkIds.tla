---------------------------- MODULE MCBookmarkIds ----------------------------
(* Requests and logins for the runs of BookmarkIds.  No symmetry: the run   *)
(* that passes checks a liveness property too.                              *)
EXTENDS BookmarkIds
=============================================================================
