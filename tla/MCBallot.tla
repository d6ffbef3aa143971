------------------------------ MODULE MCBallot ------------------------------
(* Ballot on small instances. *)
EXTENDS Ballot, TLC

CONSTANTS d1, d2, u1, u2, p1, p2, v1, v2

\* Two people, one device each.
TwoPeople == d1 :> u1 @@ d2 :> u2

\* One person signed in on two devices.
OnePerson == d1 :> u1 @@ d2 :> u1

\* The devices of one person are interchangeable, and so are polls.
OnePersonSymmetry == Permutations(Devices) \cup Permutations(Polls)
=============================================================================
