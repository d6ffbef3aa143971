----------------------------- MODULE MCMainList -----------------------------
(* MainList on small instances. *)
EXTENDS MainList

CONSTANTS p1, p2
=============================================================================
