-------------------------- MODULE MCAddVoteForm --------------------------
(* AddVoteForm on small instances. *)
EXTENDS AddVoteForm

CONSTANTS a, blank
=============================================================================
