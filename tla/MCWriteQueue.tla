----------------------------- MODULE MCWriteQueue -----------------------------
(* WriteQueue on small instances. *)
EXTENDS WriteQueue
=============================================================================
