---------------------------- MODULE MCEmailPoller ----------------------------
(***************************************************************************)
(* Instances of EmailPoller for TLC: two payments and one newsletter.      *)
(***************************************************************************)
EXTENDS EmailPoller, TLC

CONSTANTS e1, e2, n1, c1, c2

Cycles == Permutations({c1, c2})
=============================================================================
