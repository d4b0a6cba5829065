----------------------------- MODULE MCPipeline -----------------------------
(***************************************************************************)
(* Instances of Pipeline for TLC.  There are as many jobs as the poller    *)
(* can add: (1 + MaxRepeats) for each payment e-mail.                      *)
(***************************************************************************)
EXTENDS Pipeline, TLC

CONSTANTS e1, n1, p1, ph1, j1, j2, c1, c2, s1, s2

SoloPaymentOf == e1 :> p1
SoloPhoneOf == e1 :> ph1

\* The newsletter n1 does not parse: what it would be worth is never asked.
NewsPaymentOf == (e1 :> p1) @@ (n1 :> p1)
NewsPhoneOf == (e1 :> ph1) @@ (n1 :> ph1)

\* Slots and jobs are interchangeable.
Interchangeable == Permutations({s1, s2}) \cup Permutations({j1, j2})
=============================================================================
