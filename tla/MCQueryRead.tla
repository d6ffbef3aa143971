---------------------------- MODULE MCQueryRead -----------------------------
(* QueryRead on small instances. *)
EXTENDS QueryRead
=============================================================================
