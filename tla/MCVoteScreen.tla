----------------------------- MODULE MCVoteScreen -----------------------------
(* VoteScreen on small instances. *)
EXTENDS VoteScreen
=============================================================================
