----------------------------- MODULE MCReminders -----------------------------
(***************************************************************************)
(* Instances of Reminders for TLC: a month of a few days, with one day     *)
(* after the last day a fee may be due.                                    *)
(***************************************************************************)
EXTENDS Reminders, TLC

CONSTANTS m1, m2

Members == Permutations(Member)
=============================================================================
