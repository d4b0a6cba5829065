-------------------------- MODULE MCMemberPayments --------------------------
(***************************************************************************)
(* Instances of MemberPayments for TLC.  All payments come from one sender *)
(* name and are due on the first day, so that the second day is late.      *)
(***************************************************************************)
EXTENDS MemberPayments, TLC

CONSTANTS t1, t2, m1, m2, n1, r1, r2

OneName == [t \in Tx |-> n1]
DueFirst == [m \in Member |-> 1]

\* Payments, members and requests are interchangeable.
Interchangeable == Permutations(Tx) \cup Permutations(Member) \cup Permutations(Request)
=============================================================================
