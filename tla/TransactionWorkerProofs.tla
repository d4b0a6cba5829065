----------------------- MODULE TransactionWorkerProofs -----------------------
(***************************************************************************)
(* Theorems about TransactionWorker for every set of e-mails, payments,    *)
(* jobs and slots, every number of attempts and every set of faults.       *)
(***************************************************************************)
EXTENDS TransactionWorker, TLAPS

USE JobQueueAssumption, WorkerAssumption

(***************************************************************************)
(* Type correctness                                                        *)
(***************************************************************************)
LEMMA TypeInit == WInit => WTypeOK
  BY DEF WInit, QueueInit, WTypeOK, QueueTypeOK, JobStates, PCs, Claimed, Undecided

LEMMA TypeQueueStep ==
  ASSUME WTypeOK, NEW j \in Job,
         \/ \E s \in Slot : StartJob(s, j)
         \/ QueueStep(j)
         \/ \E e \in Email : Enqueue(j, e)
         \/ ClearFailed \/ Crash
  PROVE  WTypeOK'
<1> USE DEF WTypeOK, QueueTypeOK, JobStates, slotVars, dbVars, ghostVars
<1>1. ASSUME NEW s \in Slot, StartJob(s, j) PROVE WTypeOK'
  BY <1>1 DEF StartJob, TakeJob, PCs
<1>2. CASE QueueStep(j)
  BY <1>2 DEF QueueStep, RetryDelayElapsed, StalledCheck, LockExpires
<1>3. ASSUME NEW e \in Email, Enqueue(j, e) PROVE WTypeOK'
  BY <1>3 DEF Enqueue, EnqueueTransaction
<1>4. CASE ClearFailed
  BY <1>4 DEF ClearFailed, ClearFailedJobs
<1>5. CASE Crash
  BY <1>5 DEF Crash, AllLocksExpire, PCs
<1> QED BY <1>1, <1>2, <1>3, <1>4, <1>5

LEMMA TypeSlotStep ==
  ASSUME WTypeOK, NEW s \in Slot, SlotStep(s)
  PROVE  WTypeOK'
<1> USE DEF WTypeOK, QueueTypeOK, slotVars, dbVars, ghostVars, queueVars,
            PCs, Claimed, Undecided, Goto, paymentOf
<1>0. pc[s] # "idle" => paymentOf(s) \in Payment
  OBVIOUS
<1>1. CASE IsDuplicate(s)         BY <1>1 DEF IsDuplicate
<1>2. CASE CreateTransaction(s)   BY <1>2 DEF CreateTransaction
<1>3. CASE MatchMember(s)         BY <1>3 DEF MatchMember
<1>4. CASE ResolveSender(s)       BY <1>4 DEF ResolveSender
<1>5. CASE CloseWithoutPhone(s)   BY <1>5, <1>0 DEF CloseWithoutPhone, UpdateStatus
<1>6. CASE NotifyOwner(s)         BY <1>6, <1>0 DEF NotifyOwner
<1>7. CASE CloseDismissed(s)      BY <1>7, <1>0 DEF CloseDismissed, UpdateStatus
<1>8. CASE SendNotification(s)
  <2>1. messageId' \in [Slot -> BOOLEAN]  BY <1>8 DEF SendNotification
  <2>2. delivered' \in [Payment -> Nat]
    BY <1>8, <1>0 DEF SendNotification, Deliver
  <2> QED BY <1>8, <2>1, <2>2 DEF SendNotification
<1>9. CASE LogNotification(s)     BY <1>9, <1>0 DEF LogNotification
<1>10. CASE SetFinalStatus(s)     BY <1>10, <1>0 DEF SetFinalStatus, UpdateStatus
<1>11. CASE ReturnSuccess(s)
  <2>1. jobOf[s] \in Job /\ jobState[jobOf[s]] # "none"  BY <1>11 DEF ReturnSuccess, Leave
  <2>2. QueueTypeOK'
    BY <1>11, <2>1 DEF ReturnSuccess, Leave, CompleteJob, JobStates
  <2>3. messageId' \in [Slot -> BOOLEAN]  BY <1>11 DEF ReturnSuccess, Leave
  <2>4. /\ pc' \in [Slot -> PCs]
        /\ jobOf' \in [Slot -> Job \cup {NoJob}]
        /\ mailOf' \in [Slot -> Email \cup {NoEmail}]
    BY <1>11 DEF ReturnSuccess, Leave
  <2>5. \A t \in Slot : pc'[t] # "idle" =>
          jobOf'[t] \in Job /\ jobState'[jobOf'[t]] # "none" /\ mailOf'[t] \in Email
    BY <1>11 DEF ReturnSuccess, Leave, CompleteJob
  <2> HIDE DEF QueueTypeOK
  <2> QED BY <1>11, <2>2, <2>3, <2>4, <2>5 DEF ReturnSuccess, Leave
<1>12. CASE ThrowError(s)
  <2>1. jobOf[s] \in Job /\ jobState[jobOf[s]] # "none"  BY <1>12 DEF ThrowError, Leave
  <2>2. QueueTypeOK'
    BY <1>12, <2>1 DEF ThrowError, Leave, FailJob, JobStates
  <2>3. messageId' \in [Slot -> BOOLEAN]  BY <1>12 DEF ThrowError, Leave
  <2>4. /\ pc' \in [Slot -> PCs]
        /\ jobOf' \in [Slot -> Job \cup {NoJob}]
        /\ mailOf' \in [Slot -> Email \cup {NoEmail}]
    BY <1>12 DEF ThrowError, Leave
  <2>5. \A t \in Slot : pc'[t] # "idle" =>
          jobOf'[t] \in Job /\ jobState'[jobOf'[t]] # "none" /\ mailOf'[t] \in Email
    BY <1>12 DEF ThrowError, Leave, FailJob
  <2> HIDE DEF QueueTypeOK
  <2> QED BY <1>12, <2>2, <2>3, <2>4, <2>5 DEF ThrowError, Leave
<1> QED BY <1>1, <1>2, <1>3, <1>4, <1>5, <1>6, <1>7, <1>8, <1>9, <1>10,
           <1>11, <1>12 DEF SlotStep

LEMMA TypeAdminStep == ASSUME WTypeOK, AdminStep PROVE WTypeOK'
  BY DEF WTypeOK, QueueTypeOK, AdminStep, CreateSender, DismissSender,
         RevertSender, LinkSender, queueVars, slotVars

LEMMA TypeStep == WTypeOK /\ [WNext]_wvars => WTypeOK'
<1> SUFFICES ASSUME WTypeOK, [WNext]_wvars PROVE WTypeOK'
  OBVIOUS
<1>1. CASE UNCHANGED wvars
  BY <1>1 DEF wvars, queueVars, slotVars, dbVars, ghostVars, WTypeOK, QueueTypeOK
<1>2. CASE \E s \in Slot : SlotStep(s)
  BY <1>2, TypeSlotStep
<1>3. CASE \E j \in Job : Start(j) \/ QueueStep(j)
  BY <1>3, TypeQueueStep DEF Start
<1>4. CASE AdminStep
  BY <1>4, TypeAdminStep
<1>5. CASE Crash
  BY <1>5 DEF Crash, AllLocksExpire, PCs, WTypeOK, QueueTypeOK, dbVars, ghostVars
<1>6. CASE ClearFailed
  BY <1>6 DEF ClearFailed, ClearFailedJobs, WTypeOK, QueueTypeOK, JobStates,
              slotVars, dbVars, ghostVars
<1>7. CASE \E j \in Job, e \in Email : Enqueue(j, e)
  BY <1>7, TypeQueueStep
<1> QED BY <1>1, <1>2, <1>3, <1>4, <1>5, <1>6, <1>7 DEF WNext, WorkerStep

\* Every variable keeps its type.
THEOREM TypeCorrect == WSpec => []WTypeOK
  BY TypeInit, TypeStep, PTL DEF WSpec

(***************************************************************************)
(* The claim on a payment                                                  *)
(***************************************************************************)
LEMMA ClaimInit == WInit => ClaimInv
  BY DEF WInit, ClaimInv, ClaimIntact, Untouched, Claimed, Undecided

\* A step that writes no payment and lets no execution advance inside the
\* claimed region keeps the invariant.
LEMMA ClaimFrame ==
  ASSUME ClaimInv,
         UNCHANGED <<row, log, delivered, ownerNotices>>,
         \A t \in Slot : pc'[t] \in Claimed =>
           pc'[t] = pc[t] /\ mailOf'[t] = mailOf[t] /\ messageId'[t] = messageId[t]
  PROVE  ClaimInv'
  BY DEF ClaimInv, ClaimIntact, Untouched, Claimed, Undecided, paymentOf

LEMMA ClaimSlotStep ==
  ASSUME WTypeOK, ClaimInv, NEW s \in Slot, SlotStep(s)
  PROVE  ClaimInv'
<1> DEFINE p == paymentOf(s)
<1> USE DEF Goto, dbVars, ghostVars, slotVars
<1>0. /\ pc \in [Slot -> PCs] /\ mailOf \in [Slot -> Email \cup {NoEmail}]
      /\ messageId \in [Slot -> BOOLEAN]
      /\ row \in [Payment -> {"absent", "pending", "processed", "failed"}]
      /\ log \in [Payment -> {"none", "pending", "sent"}]
      /\ delivered \in [Payment -> Nat] /\ ownerNotices \in [Payment -> Nat]
      /\ \A t \in Slot : pc[t] # "idle" => paymentOf(t) \in Payment
  BY DEF WTypeOK, paymentOf
<1>1. CASE IsDuplicate(s)
  BY <1>0, <1>1, ClaimFrame DEF IsDuplicate, Claimed, Undecided
<1>2. CASE CreateTransaction(s)
  <2>1. CASE UNCHANGED row /\ Goto(s, "return")
    BY <1>0, <1>2, <2>1, ClaimFrame DEF CreateTransaction, Claimed, Undecided
  <2>2. CASE /\ row[p] = "absent" /\ row' = [row EXCEPT ![p] = "pending"]
             /\ Goto(s, "match") \/ Goto(s, "return")
    BY <1>0, <1>2, <2>2
       DEF CreateTransaction, ClaimInv, ClaimIntact, Untouched, Claimed, Undecided, paymentOf
  <2> QED BY <1>2, <2>1, <2>2 DEF CreateTransaction
<1>3. CASE MatchMember(s)
  BY <1>0, <1>3 DEF MatchMember, ClaimInv, ClaimIntact, Untouched, Claimed, Undecided, paymentOf
<1>4. CASE ResolveSender(s)
  BY <1>0, <1>4 DEF ResolveSender, ClaimInv, ClaimIntact, Untouched, Claimed, Undecided, paymentOf
<1>5. CASE CloseWithoutPhone(s)
  BY <1>0, <1>5 DEF CloseWithoutPhone, UpdateStatus, ClaimInv, ClaimIntact, Untouched, Claimed, Undecided, paymentOf
<1>6. CASE NotifyOwner(s)
  BY <1>0, <1>6 DEF NotifyOwner, ClaimInv, ClaimIntact, Untouched, Claimed, Undecided, paymentOf
<1>7. CASE CloseDismissed(s)
  BY <1>0, <1>7 DEF CloseDismissed, UpdateStatus, ClaimInv, ClaimIntact, Untouched, Claimed, Undecided, paymentOf
<1>8. CASE SendNotification(s)
  BY <1>0, <1>8 DEF SendNotification, Deliver, ClaimInv, ClaimIntact, Untouched, Claimed, Undecided, paymentOf
<1>9. CASE LogNotification(s)
  BY <1>0, <1>9 DEF LogNotification, ClaimInv, ClaimIntact, Untouched, Claimed, Undecided, paymentOf
<1>10. CASE SetFinalStatus(s)
  BY <1>0, <1>10 DEF SetFinalStatus, UpdateStatus, ClaimInv, ClaimIntact, Untouched, Claimed, Undecided, paymentOf
<1>11. CASE ReturnSuccess(s)
  BY <1>0, <1>11, ClaimFrame DEF ReturnSuccess, Leave, Claimed, Undecided
<1>12. CASE ThrowError(s)
  BY <1>0, <1>12, ClaimFrame DEF ThrowError, Leave, Claimed, Undecided
<1> QED BY <1>1, <1>2, <1>3, <1>4, <1>5, <1>6, <1>7, <1>8, <1>9, <1>10,
           <1>11, <1>12 DEF SlotStep

LEMMA ClaimStep == WTypeOK /\ ClaimInv /\ [WNext]_wvars => ClaimInv'
<1> SUFFICES ASSUME WTypeOK, ClaimInv, [WNext]_wvars PROVE ClaimInv'
  OBVIOUS
<1> USE DEF slotVars, dbVars, ghostVars
<1>1. CASE UNCHANGED wvars
  BY <1>1, ClaimFrame DEF wvars
<1>2. CASE \E s \in Slot : SlotStep(s)
  BY <1>2, ClaimSlotStep
<1>3. ASSUME NEW j \in Job, NEW s \in Slot, StartJob(s, j) PROVE ClaimInv'
  <2>1. \A t \in Slot : pc'[t] \in Claimed =>
          pc'[t] = pc[t] /\ mailOf'[t] = mailOf[t] /\ messageId'[t] = messageId[t]
    BY <1>3 DEF StartJob, WTypeOK, Claimed, Undecided
  <2> QED BY <1>3, <2>1, ClaimFrame DEF StartJob
<1>4. ASSUME NEW j \in Job, QueueStep(j) PROVE ClaimInv'
  BY <1>4, ClaimFrame DEF QueueStep
<1>5. CASE AdminStep
  BY <1>5, ClaimFrame DEF AdminStep
<1>6. CASE Crash
  <2>1. \A t \in Slot : pc'[t] \notin Claimed
    BY <1>6 DEF Crash, Claimed, Undecided
  <2> QED BY <1>6, <2>1, ClaimFrame DEF Crash
<1>7. CASE ClearFailed
  BY <1>7, ClaimFrame DEF ClearFailed
<1>8. CASE \E j \in Job, e \in Email : Enqueue(j, e)
  BY <1>8, ClaimFrame DEF Enqueue
<1> QED BY <1>1, <1>2, <1>3, <1>4, <1>5, <1>6, <1>7, <1>8
        DEF WNext, WorkerStep, Start

LEMMA ClaimCorrect == WSpec => [](WTypeOK /\ ClaimInv)
  BY TypeInit, TypeStep, ClaimInit, ClaimStep, PTL DEF WSpec

(***************************************************************************)
(* Who is notified, and what the log says                                  *)
(***************************************************************************)
Outcomes == AtMostOneNotice /\ SenderOrOwner /\ LogAgreesWithStatus

LEMMA OutcomesInit == WInit => Outcomes
  BY DEF WInit, Outcomes, AtMostOneNotice, SenderOrOwner, LogAgreesWithStatus

LEMMA OutcomesStep == WTypeOK /\ ClaimInv /\ Outcomes /\ [WNext]_wvars => Outcomes'
<1> SUFFICES ASSUME WTypeOK, ClaimInv, Outcomes, [WNext]_wvars PROVE Outcomes'
  OBVIOUS
<1> USE DEF Outcomes, AtMostOneNotice, SenderOrOwner, LogAgreesWithStatus
<1>1. CASE UNCHANGED <<row, log, delivered, ownerNotices>>
  BY <1>1
<1>2. ASSUME NEW s \in Slot, SlotStep(s) PROVE Outcomes'
  <2> USE DEF dbVars, ghostVars
  <2>0. /\ row \in [Payment -> {"absent", "pending", "processed", "failed"}]
        /\ log \in [Payment -> {"none", "pending", "sent"}]
        /\ delivered \in [Payment -> Nat] /\ ownerNotices \in [Payment -> Nat]
        /\ pc[s] # "idle" => paymentOf(s) \in Payment
        /\ ClaimIntact(s)
        /\ \A p \in Payment : row[p] = "absent" => Untouched(p)
    BY DEF WTypeOK, paymentOf, ClaimInv
  <2>1. CASE CreateTransaction(s)
    BY <2>0, <2>1 DEF CreateTransaction, Untouched
  <2>2. CASE CloseWithoutPhone(s)
    BY <2>0, <2>2 DEF CloseWithoutPhone, UpdateStatus, ClaimIntact, Undecided
  <2>3. CASE CloseDismissed(s)
    BY <2>0, <2>3 DEF CloseDismissed, UpdateStatus, ClaimIntact, Undecided
  <2>4. CASE NotifyOwner(s)
    BY <2>0, <2>4 DEF NotifyOwner, ClaimIntact
  <2>5. CASE SendNotification(s)
    BY <2>0, <2>5 DEF SendNotification, Deliver, ClaimIntact, Undecided
  <2>6. CASE LogNotification(s)
    BY <2>0, <2>6 DEF LogNotification, ClaimIntact
  <2>7. CASE SetFinalStatus(s)
    BY <2>0, <2>7 DEF SetFinalStatus, UpdateStatus, ClaimIntact
  <2> QED BY <1>1, <1>2, <2>1, <2>2, <2>3, <2>4, <2>5, <2>6, <2>7
          DEF SlotStep, IsDuplicate, MatchMember, ResolveSender,
              ReturnSuccess, ThrowError, Leave
<1> QED
  BY <1>1, <1>2 DEF WNext, WorkerStep, Start, StartJob, QueueStep, AdminStep,
     Crash, ClearFailed, Enqueue, wvars, dbVars, ghostVars

\* Main result: nobody hears of the same payment twice, and the notification log
\* never contradicts the transaction it belongs to.
THEOREM OutcomesCorrect ==
  WSpec => [](AtMostOneNotice /\ SenderOrOwner /\ LogAgreesWithStatus)
<1>1. WSpec => []Outcomes
  BY ClaimCorrect, OutcomesInit, OutcomesStep, PTL DEF WSpec
<1> QED BY <1>1, PTL DEF Outcomes

\* What the log says of a message is what happened to it, and the status of the
\* transaction does not contradict it (Steps 5 and 6).
THEOREM LogCorrect == WSpec => []LogAgreesWithStatus
BY OutcomesCorrect, PTL

(***************************************************************************)
(* 'processed' is justified                                                *)
(***************************************************************************)
Justified == BranchInv /\ ProcessedIsJustified

LEMMA JustifiedInit == WInit => Justified
  BY DEF WInit, Justified, BranchInv, ProcessedIsJustified, Claimed, Undecided

LEMMA JustifiedStep ==
  WTypeOK /\ ClaimInv /\ Outcomes /\ Justified /\ [WNext]_wvars => Justified'
<1> SUFFICES ASSUME WTypeOK, ClaimInv, Outcomes, Justified, [WNext]_wvars
             PROVE  Justified'
  OBVIOUS
<1>1. BranchInv'
  <2> USE DEF Justified, BranchInv
  <2>1. ASSUME NEW s \in Slot, SlotStep(s) PROVE BranchInv'
    <3> USE DEF Goto, dbVars, ghostVars
    <3>0. /\ pc \in [Slot -> PCs] /\ mailOf \in [Slot -> Email \cup {NoEmail}]
          /\ PhoneOf \in [Email -> Phone \cup {NoPhone}]
          /\ rowPhone \in [Payment -> Phone \cup {NoPhone}]
          /\ \A t \in Slot : pc[t] # "idle" => paymentOf(t) \in Payment /\ mailOf[t] \in Email
      BY WorkerAssumption DEF WTypeOK, paymentOf
    <3>1. CASE ResolveSender(s)
      BY <3>0, <3>1 DEF ResolveSender, Claimed, Undecided, paymentOf
    <3>2. CASE ReturnSuccess(s) \/ ThrowError(s)
      BY <3>0, <3>2 DEF ReturnSuccess, ThrowError, Leave, Claimed, Undecided, paymentOf
    <3>3. CASE CreateTransaction(s)
      <4>1. \A t \in Slot : pc[t] \in Claimed => row[paymentOf(t)] # "absent"
        BY DEF ClaimInv, ClaimIntact, Claimed
      <4> QED BY <3>0, <3>3, <4>1 DEF CreateTransaction, Claimed, Undecided, paymentOf
    <3>4. CASE \/ IsDuplicate(s) \/ MatchMember(s)
               \/ NotifyOwner(s) \/ SendNotification(s) \/ LogNotification(s)
      BY <3>0, <3>4 DEF IsDuplicate, MatchMember, NotifyOwner,
                  SendNotification, LogNotification, Claimed, Undecided, paymentOf
    <3>5. CASE CloseWithoutPhone(s) \/ CloseDismissed(s) \/ SetFinalStatus(s)
      BY <3>0, <3>5 DEF CloseWithoutPhone, CloseDismissed, SetFinalStatus,
                  Claimed, Undecided, paymentOf
    <3> QED BY <2>1, <3>1, <3>2, <3>3, <3>4, <3>5 DEF SlotStep
  <2>2. ASSUME NEW j \in Job, NEW s \in Slot, StartJob(s, j) PROVE BranchInv'
    BY <2>2 DEF StartJob, WTypeOK, dbVars, ghostVars, Claimed, Undecided, paymentOf
  <2>3. CASE AdminStep
    BY <2>3 DEF AdminStep, CreateSender, DismissSender, RevertSender, LinkSender,
                slotVars, WTypeOK, paymentOf
  <2>4. CASE Crash
    BY <2>4 DEF Crash, dbVars, ghostVars, Claimed, Undecided
  <2>5. CASE UNCHANGED <<slotVars, dbVars, ghostVars>>
    BY <2>5 DEF slotVars, dbVars, ghostVars, paymentOf
  <2> QED BY <2>1, <2>2, <2>3, <2>4, <2>5
          DEF WNext, WorkerStep, Start, QueueStep, ClearFailed, Enqueue, wvars
<1>2. ProcessedIsJustified'
  <2> USE DEF Justified, ProcessedIsJustified
  <2>1. ASSUME NEW s \in Slot, SlotStep(s) PROVE ProcessedIsJustified'
    <3> DEFINE p == paymentOf(s)
    <3>0. /\ row \in [Payment -> {"absent", "pending", "processed", "failed"}]
          /\ rowPhone \in [Payment -> Phone \cup {NoPhone}]
          /\ delivered \in [Payment -> Nat]
          /\ pc[s] # "idle" => p \in Payment /\ mailOf[s] \in Email
          /\ ClaimIntact(s)
      BY DEF WTypeOK, paymentOf, ClaimInv
    <3> USE DEF dbVars, ghostVars
    <3>1. CASE CreateTransaction(s)
      BY <3>0, <3>1 DEF CreateTransaction
    <3>2. CASE CloseWithoutPhone(s)
      BY <3>0, <3>2 DEF CloseWithoutPhone, UpdateStatus, BranchInv, Claimed, Undecided, paymentOf
    <3>3. CASE CloseDismissed(s)
      BY <3>0, <3>3 DEF CloseDismissed, UpdateStatus, BranchInv, Claimed, Undecided, paymentOf
    <3>4. CASE SendNotification(s)
      BY <3>0, <3>4 DEF SendNotification, Deliver, ClaimIntact, Undecided
    <3>5. CASE SetFinalStatus(s)
      BY <3>0, <3>5 DEF SetFinalStatus, UpdateStatus, ClaimIntact
    <3>6. CASE UNCHANGED <<row, rowPhone, delivered, wasDismissed>>
      BY <3>6
    <3> QED BY <2>1, <3>1, <3>2, <3>3, <3>4, <3>5, <3>6
            DEF SlotStep, IsDuplicate, MatchMember, ResolveSender, NotifyOwner,
                LogNotification, ReturnSuccess, ThrowError, Leave
  <2>2. CASE AdminStep
    BY <2>2 DEF AdminStep, CreateSender, DismissSender, RevertSender, LinkSender
  <2>3. CASE UNCHANGED <<row, rowPhone, delivered, wasDismissed>>
    BY <2>3
  <2> QED BY <2>1, <2>2, <2>3
          DEF WNext, WorkerStep, Start, StartJob, QueueStep, Crash, ClearFailed,
              Enqueue, wvars, dbVars, ghostVars
<1> QED BY <1>1, <1>2 DEF Justified

\* A transaction is reported as processed only for one of the three reasons.
THEOREM ProcessedCorrect == WSpec => []ProcessedIsJustified
<1>1. WSpec => []Outcomes
  BY ClaimCorrect, OutcomesInit, OutcomesStep, PTL DEF WSpec
<1>2. WSpec => []Justified
  BY <1>1, ClaimCorrect, JustifiedInit, JustifiedStep, PTL DEF WSpec
<1> QED BY <1>2, PTL DEF Justified

(***************************************************************************)
(* A settled payment stays settled                                         *)
(***************************************************************************)

\* What one step may do to the rows: nothing, insert one, or give the final
\* status to one whose claim the stepping execution holds.
LEMMA RowStep ==
  ASSUME WTypeOK, ClaimInv, [WNext]_wvars
  PROVE  \/ UNCHANGED row
         \/ \E p \in Payment :
              /\ row[p] = "absent" /\ row' = [row EXCEPT ![p] = "pending"]
              /\ UNCHANGED delivered
         \/ \E p \in Payment, status \in {"processed", "failed"} :
              /\ row[p] = "pending" /\ row' = [row EXCEPT ![p] = status]
              /\ UNCHANGED delivered
<1>1. ASSUME NEW s \in Slot, SlotStep(s)
      PROVE  \/ UNCHANGED row
             \/ \E p \in Payment :
                  /\ row[p] = "absent" /\ row' = [row EXCEPT ![p] = "pending"]
                  /\ UNCHANGED delivered
             \/ \E p \in Payment, status \in {"processed", "failed"} :
                  /\ row[p] = "pending" /\ row' = [row EXCEPT ![p] = status]
                  /\ UNCHANGED delivered
  <2> USE DEF dbVars, ghostVars
  <2>0. /\ pc[s] # "idle" => paymentOf(s) \in Payment
        /\ ClaimIntact(s)
    BY DEF WTypeOK, paymentOf, ClaimInv
  <2>1. CASE CreateTransaction(s)
    BY <2>0, <2>1 DEF CreateTransaction
  <2>2. CASE CloseWithoutPhone(s)
    BY <2>0, <2>2 DEF CloseWithoutPhone, UpdateStatus, ClaimIntact, Undecided
  <2>3. CASE CloseDismissed(s)
    BY <2>0, <2>3 DEF CloseDismissed, UpdateStatus, ClaimIntact, Undecided
  <2>4. CASE SetFinalStatus(s)
    BY <2>0, <2>4 DEF SetFinalStatus, UpdateStatus, ClaimIntact
  <2> QED BY <1>1, <2>1, <2>2, <2>3, <2>4
          DEF SlotStep, IsDuplicate, MatchMember, ResolveSender, NotifyOwner,
              SendNotification, LogNotification, ReturnSuccess, ThrowError, Leave
<1> QED
  BY <1>1 DEF WNext, WorkerStep, Start, StartJob, QueueStep, AdminStep, Crash,
     ClearFailed, Enqueue, wvars, dbVars, ghostVars

\* No retry, duplicate or zombie execution revises a final status.
THEOREM StatusFinal == WSpec => StatusIsFinal
<1> DEFINE Final == \A p \in Payment :
                      /\ row[p] \in {"processed", "failed"} => row'[p] = row[p]
                      /\ row[p] = "pending" => row'[p] # "absent"
<1>1. WTypeOK /\ ClaimInv /\ [WNext]_wvars => [Final]_wvars
  <2> SUFFICES ASSUME WTypeOK, ClaimInv, [WNext]_wvars PROVE Final
    OBVIOUS
  <2>1. row \in [Payment -> {"absent", "pending", "processed", "failed"}]
    BY DEF WTypeOK
  <2> QED BY <2>1, RowStep
<1> QED BY <1>1, ClaimCorrect, PTL DEF WSpec, StatusIsFinal

(***************************************************************************)
(* The worker implements NotifyOnce                                        *)
(***************************************************************************)
LEMMA NoticeStep ==
  ASSUME WTypeOK, ClaimInv, [WNext]_wvars
  PROVE  \/ UNCHANGED delivered
         \/ \E p \in Payment :
              /\ row[p] = "pending" /\ UNCHANGED row
              /\ delivered[p] = 0 /\ delivered' = [delivered EXCEPT ![p] = 1]
<1>1. ASSUME NEW s \in Slot, SendNotification(s)
      PROVE  \/ UNCHANGED delivered
             \/ \E p \in Payment :
                  /\ row[p] = "pending" /\ UNCHANGED row
                  /\ delivered[p] = 0 /\ delivered' = [delivered EXCEPT ![p] = 1]
  <2>1. paymentOf(s) \in Payment /\ ClaimIntact(s)
    BY <1>1 DEF SendNotification, WTypeOK, paymentOf, ClaimInv
  <2> QED BY <1>1, <2>1 DEF SendNotification, Deliver, ClaimIntact, Undecided, dbVars
<1> QED
  BY <1>1 DEF WNext, WorkerStep, Start, StartJob, SlotStep, IsDuplicate,
     CreateTransaction, MatchMember, ResolveSender, CloseWithoutPhone, NotifyOwner,
     CloseDismissed, LogNotification, SetFinalStatus, ReturnSuccess, ThrowError,
     Leave, QueueStep, AdminStep, Crash, ClearFailed, Enqueue, wvars, ghostVars

LEMMA RefinementInit == WInit => Abstract!Init
  BY DEF WInit, Abstract!Init, claim

LEMMA RefinementStep ==
  ASSUME WTypeOK, ClaimInv, [WNext]_wvars
  PROVE  [Abstract!Next]_Abstract!vars
<1> USE DEF Abstract!vars
<1>0. row \in [Payment -> {"absent", "pending", "processed", "failed"}]
  BY DEF WTypeOK
<1>1. CASE UNCHANGED <<row, delivered>>
  BY <1>1 DEF claim
<1>2. ASSUME NEW p \in Payment, row[p] = "pending", UNCHANGED row,
             delivered[p] = 0, delivered' = [delivered EXCEPT ![p] = 1]
      PROVE  Abstract!Notify(p)
  BY <1>2 DEF Abstract!Notify, claim
<1>3. ASSUME NEW p \in Payment, row[p] = "absent", UNCHANGED delivered,
             row' = [row EXCEPT ![p] = "pending"]
      PROVE  Abstract!Claim(p)
  BY <1>0, <1>3 DEF Abstract!Claim, claim
<1>4. ASSUME NEW p \in Payment, NEW status \in {"processed", "failed"},
             row[p] = "pending", UNCHANGED delivered,
             row' = [row EXCEPT ![p] = status]
      PROVE  Abstract!Settle(p)
  BY <1>0, <1>4 DEF Abstract!Settle, claim
<1> QED BY <1>1, <1>2, <1>3, <1>4, RowStep, NoticeStep DEF Abstract!Next

\* Whatever the queue, the mailbox and the process do, the worker keeps the
\* at-most-once promise of NotifyOnce.
THEOREM Refinement == WSpec => RefinesNotifyOnce
<1>1. WTypeOK /\ ClaimInv /\ [WNext]_wvars => [Abstract!Next]_Abstract!vars
  BY RefinementStep
<1> QED BY <1>1, RefinementInit, ClaimCorrect, PTL
        DEF WSpec, RefinesNotifyOnce, Abstract!Spec

(***************************************************************************)
(* Retries                                                                 *)
(***************************************************************************)
Attempted == AttemptInv /\ OnlyStallsDeadLetter

LEMMA AttemptedInit == WInit => Attempted
  BY DEF WInit, QueueInit, Attempted, AttemptInv, OnlyStallsDeadLetter

\* Steps that leave the queue alone and do not enter the claimed region.
LEMMA AttemptedFrame ==
  ASSUME WTypeOK, ClaimInv, [WNext]_wvars, Attempted, UNCHANGED queueVars,
         \A t \in Slot : pc'[t] # "idle" =>
           /\ pc[t] # "idle"
           /\ jobOf'[t] = jobOf[t] /\ mailOf'[t] = mailOf[t]
           /\ pc'[t] \in Claimed \cup {"throw"} => pc[t] \in Claimed \cup {"throw"}
  PROVE  Attempted'
<1>1. \A p \in Payment : row[p] # "absent" => row'[p] # "absent"
  BY RowStep DEF WTypeOK
<1>2. /\ \A t \in Slot : pc[t] # "idle" => jobOf[t] \in Job /\ paymentOf(t) \in Payment
      /\ \A j \in Job : attemptsMade[j] > 0 => PaymentOf[jobData[j]] \in Payment
  BY DEF WTypeOK, QueueTypeOK, Attempted, AttemptInv, paymentOf
<1> QED
  BY <1>1, <1>2 DEF Attempted, AttemptInv, OnlyStallsDeadLetter, queueVars, paymentOf

LEMMA AttemptedSlotStep ==
  ASSUME WTypeOK, ClaimInv, [WNext]_wvars, Attempted, NEW s \in Slot, SlotStep(s)
  PROVE  Attempted'
<1> USE DEF Goto, PCs, Claimed, Undecided
<1>0. /\ pc \in [Slot -> PCs]
      /\ \A t \in Slot : pc[t] # "idle" => jobOf[t] \in Job
  BY DEF WTypeOK
<1>1. CASE IsDuplicate(s)
  BY <1>0, <1>1, AttemptedFrame DEF IsDuplicate
<1>2. CASE CreateTransaction(s)
  <2>1. CASE Goto(s, "return")
    BY <1>0, <1>2, <2>1, AttemptedFrame DEF CreateTransaction
  <2>2. CASE Goto(s, "match") /\ row[paymentOf(s)] = "absent"
             /\ row' = [row EXCEPT ![paymentOf(s)] = "pending"]
    <3>1. attemptsMade[jobOf[s]] = 0
      BY <1>0, <1>2, <2>2 DEF CreateTransaction, Attempted, AttemptInv,
         WTypeOK, QueueTypeOK, paymentOf
    <3>2. /\ UNCHANGED queueVars
          /\ row \in [Payment -> {"absent", "pending", "processed", "failed"}]
          /\ \A p \in Payment : row[p] # "absent" => row'[p] # "absent"
          /\ paymentOf(s) \in Payment
      BY <1>2, <2>2 DEF CreateTransaction, WTypeOK, paymentOf
    <3>3. \A j \in Job : attemptsMade[j] > 0 => PaymentOf[jobData[j]] \in Payment
      BY DEF WTypeOK, QueueTypeOK, Attempted, AttemptInv
    <3>4. \A t \in Slot : pc[t] # "idle" => paymentOf(t) \in Payment
      BY DEF WTypeOK, paymentOf
    <3> QED
      BY <1>0, <1>2, <2>2, <3>1, <3>2, <3>3, <3>4
         DEF CreateTransaction, Attempted, AttemptInv, OnlyStallsDeadLetter,
             queueVars, paymentOf
  <2> QED BY <1>2, <2>1, <2>2 DEF CreateTransaction
<1>3. CASE \/ MatchMember(s) \/ ResolveSender(s) \/ NotifyOwner(s)
           \/ SendNotification(s) \/ LogNotification(s)
  BY <1>0, <1>3, AttemptedFrame
     DEF MatchMember, ResolveSender, NotifyOwner, SendNotification, LogNotification
<1>4. CASE CloseWithoutPhone(s) \/ CloseDismissed(s) \/ SetFinalStatus(s)
  BY <1>0, <1>4, AttemptedFrame DEF CloseWithoutPhone, CloseDismissed, SetFinalStatus
<1>5. CASE ReturnSuccess(s)
  <2>1. UNCHANGED <<row, jobData, attemptsMade, stalledCount>>
    BY <1>5 DEF ReturnSuccess, Leave, CompleteJob, queueVars, dbVars
  <2>2. \A t \in Slot : pc'[t] # "idle" =>
          t # s /\ pc'[t] = pc[t] /\ jobOf'[t] = jobOf[t] /\ mailOf'[t] = mailOf[t]
    BY <1>0, <1>5 DEF ReturnSuccess, Leave, WTypeOK
  <2>3. \A j \in Job : /\ jobState'[j] \in {jobState[j], "completed"}
                      /\ lockOwner'[j] \in {lockOwner[j], NoSlot}
    BY <1>5 DEF ReturnSuccess, CompleteJob, queueVars, WTypeOK, QueueTypeOK
  <2> QED
    BY <1>0, <2>1, <2>2, <2>3
       DEF Attempted, AttemptInv, OnlyStallsDeadLetter, paymentOf
<1>6. CASE ThrowError(s)
  <2>1. CASE UNCHANGED queueVars
    BY <1>0, <1>6, <2>1, AttemptedFrame DEF ThrowError, Leave, WTypeOK
  <2>2. CASE lockOwner[jobOf[s]] = s
    <3> DEFINE j0 == jobOf[s]
    <3>1. j0 \in Job /\ attemptsMade[j0] = 0 /\ row[PaymentOf[jobData[j0]]] # "absent"
          /\ jobState[j0] # "none"
      BY <1>0, <1>6, <2>2
         DEF ThrowError, Leave, Attempted, AttemptInv, WTypeOK, paymentOf
    <3>2. /\ UNCHANGED <<row, jobData, stalledCount>>
          /\ attemptsMade' = [attemptsMade EXCEPT ![j0] = 1]
          /\ lockOwner' = [lockOwner EXCEPT ![j0] = NoSlot]
          /\ jobState' = [jobState EXCEPT ![j0] =
                            IF 1 < Attempts THEN "delayed" ELSE "failed"]
      BY <1>6, <2>2, <3>1 DEF ThrowError, Leave, FailJob, dbVars
    <3>3. \A t \in Slot : pc'[t] # "idle" =>
            t # s /\ pc'[t] = pc[t] /\ jobOf'[t] = jobOf[t] /\ mailOf'[t] = mailOf[t]
      BY <1>0, <1>6 DEF ThrowError, Leave, WTypeOK
    <3>4. AttemptInv'
      BY <1>0, <3>1, <3>2, <3>3, JobQueueAssumption
         DEF Attempted, AttemptInv, paymentOf, WTypeOK, QueueTypeOK
    <3>5. OnlyStallsDeadLetter'
      BY <3>1, <3>2, JobQueueAssumption
         DEF Attempted, OnlyStallsDeadLetter, WTypeOK, QueueTypeOK
    <3> QED BY <3>4, <3>5 DEF Attempted
  <2> QED BY <1>6, <2>1, <2>2 DEF ThrowError, FailJob
<1> QED BY <1>1, <1>2, <1>3, <1>4, <1>5, <1>6 DEF SlotStep

LEMMA AttemptedQueueStep ==
  ASSUME WTypeOK, Attempted,
         Crash \/ ClearFailed \/ \E j \in Job : QueueStep(j)
  PROVE  Attempted'
<1> USE DEF dbVars, slotVars, Attempted, AttemptInv, OnlyStallsDeadLetter, paymentOf,
            WTypeOK, QueueTypeOK
<1>1. ASSUME NEW j \in Job, QueueStep(j), RetryDelayElapsed(j) PROVE Attempted'
  BY <1>1 DEF QueueStep, RetryDelayElapsed
<1>2. ASSUME NEW j \in Job, QueueStep(j), StalledCheck(j) PROVE Attempted'
  BY <1>2 DEF QueueStep, StalledCheck
<1>3. ASSUME NEW j \in Job, QueueStep(j), LockExpires(j) PROVE Attempted'
  BY <1>3 DEF QueueStep, LockExpires
<1>4. CASE ClearFailed
  BY <1>4 DEF ClearFailed, ClearFailedJobs
<1>5. CASE Crash
  BY <1>5 DEF Crash, AllLocksExpire
<1> QED BY <1>1, <1>2, <1>3, <1>4, <1>5 DEF QueueStep

LEMMA AttemptedStart ==
  ASSUME WTypeOK, Attempted, NEW j \in Job, NEW s \in Slot, StartJob(s, j)
  PROVE  Attempted'
<1>1. /\ UNCHANGED <<row, jobData, attemptsMade, stalledCount>>
      /\ jobState' = [jobState EXCEPT ![j] = "active"]
      /\ lockOwner' = [lockOwner EXCEPT ![j] = s]
      /\ pc[s] = "idle" /\ pc'[s] = "dedup" /\ jobOf'[s] = j /\ mailOf'[s] = jobData[j]
      /\ jobState[j] = "waiting"
  BY DEF StartJob, TakeJob, WTypeOK, dbVars
<1>2. \A t \in Slot : t # s =>
        pc'[t] = pc[t] /\ jobOf'[t] = jobOf[t] /\ mailOf'[t] = mailOf[t]
  BY DEF StartJob, WTypeOK
<1>3. AttemptInv'
  BY <1>1, <1>2 DEF Attempted, AttemptInv, paymentOf, WTypeOK, QueueTypeOK,
                    Claimed, Undecided
<1>4. OnlyStallsDeadLetter'
  BY <1>1 DEF Attempted, OnlyStallsDeadLetter, WTypeOK, QueueTypeOK
<1> QED BY <1>3, <1>4 DEF Attempted

LEMMA AttemptedEnqueue ==
  ASSUME WTypeOK, Attempted, NEW j \in Job, NEW e \in Email, Enqueue(j, e)
  PROVE  Attempted'
<1>1. /\ UNCHANGED <<row, pc, jobOf, mailOf, attemptsMade, stalledCount, lockOwner>>
      /\ jobState[j] = "none"
      /\ jobState' = [jobState EXCEPT ![j] = "waiting"]
      /\ jobData' = [jobData EXCEPT ![j] = e]
  BY DEF Enqueue, EnqueueTransaction, slotVars, dbVars
<1>2. AttemptInv'
  BY <1>1 DEF Attempted, AttemptInv, paymentOf, WTypeOK, QueueTypeOK
<1>3. OnlyStallsDeadLetter'
  BY <1>1 DEF Attempted, OnlyStallsDeadLetter, WTypeOK, QueueTypeOK
<1> QED BY <1>2, <1>3 DEF Attempted

LEMMA AttemptedStep ==
  WTypeOK /\ ClaimInv /\ Attempted /\ [WNext]_wvars => Attempted'
<1> SUFFICES ASSUME WTypeOK, ClaimInv, Attempted, [WNext]_wvars PROVE Attempted'
  OBVIOUS
<1>1. CASE UNCHANGED wvars
  BY <1>1, AttemptedFrame DEF wvars, slotVars
<1>2. CASE AdminStep
  BY <1>2, AttemptedFrame DEF AdminStep, slotVars
<1> QED
  BY <1>1, <1>2, AttemptedSlotStep, AttemptedQueueStep, AttemptedStart,
     AttemptedEnqueue DEF WNext, WorkerStep, Start

\* The attempts never run out: with more than one attempt, the failed set only
\* receives jobs that stalled too often.
THEOREM RetriesCorrect == WSpec => []OnlyStallsDeadLetter
<1>1. WSpec => []Attempted
  BY ClaimCorrect, AttemptedInit, AttemptedStep, PTL DEF WSpec
<1> QED BY <1>1, PTL DEF Attempted
=============================================================================
