------------------------- MODULE MCTransactionWorker -------------------------
(***************************************************************************)
(* Instances of TransactionWorker for TLC.  Two of the e-mails announce    *)
(* the same payment; one of these two shows no phone number.               *)
(***************************************************************************)
EXTENDS TransactionWorker, TLC

CONSTANTS e1, e2, e3, p1, p2, ph1, j1, j2, j3, s1, s2

\* One payment, announced twice: with a phone and without.
TwinPaymentOf == (e1 :> p1) @@ (e2 :> p1)
TwinPhoneOf == (e1 :> ph1) @@ (e2 :> NoPhone)

\* One payment, announced once.
SoloPaymentOf == e1 :> p1
SoloPhoneOf == e1 :> ph1

\* Two payments by the same sender.
PairPaymentOf == (e1 :> p1) @@ (e3 :> p2)
PairPhoneOf == (e1 :> ph1) @@ (e3 :> ph1)

Slots == Permutations({s1, s2})
=============================================================================
