----------------------------- MODULE MCSession -----------------------------
(* Session on small instances. *)
EXTENDS Session

CONSTANTS e1, e2, k1
=============================================================================
