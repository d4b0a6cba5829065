----------------------------- MODULE MCDashboard -----------------------------
(***************************************************************************)
(* Instances of Dashboard for TLC: one payment, whose page the tabs load.  *)
(***************************************************************************)
EXTENDS Dashboard, TLC

CONSTANTS e1, p1, ph1, j1, s1, b1, b2, r1, r2, n1, n2

SoloPaymentOf == e1 :> p1
SoloPhoneOf == e1 :> NoPhone
OnePage == [b \in Tab |-> p1]

\* Tabs, requests and names are interchangeable.
Interchangeable == Permutations(Tab) \cup Permutations(Request) \cup Permutations(Name)
=============================================================================
