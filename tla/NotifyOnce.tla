----------------------------- MODULE NotifyOnce -----------------------------
(***************************************************************************)
(* What the processing pipeline promises for each payment, whatever the    *)
(* queue, the mailbox and the process do: it is claimed at most once, its  *)
(* sender is notified at most once and only while the claim is open, and   *)
(* a settled claim is final.  A claim may stay open forever: that is the   *)
(* price of at-most-once delivery.                                         *)
(***************************************************************************)
EXTENDS Naturals

CONSTANT Payment

VARIABLES
  claim,    \* "free", "open" or "settled"
  notices   \* notifications the sender of the payment has received

vars == <<claim, notices>>

Init ==
  /\ claim = [p \in Payment |-> "free"]
  /\ notices = [p \in Payment |-> 0]

Claim(p) ==
  /\ claim[p] = "free"
  /\ claim' = [claim EXCEPT ![p] = "open"]
  /\ UNCHANGED notices

Notify(p) ==
  /\ claim[p] = "open"
  /\ notices[p] = 0
  /\ notices' = [notices EXCEPT ![p] = 1]
  /\ UNCHANGED claim

Settle(p) ==
  /\ claim[p] = "open"
  /\ claim' = [claim EXCEPT ![p] = "settled"]
  /\ UNCHANGED notices

Next == \E p \in Payment : Claim(p) \/ Notify(p) \/ Settle(p)

Spec == Init /\ [][Next]_vars
=============================================================================
