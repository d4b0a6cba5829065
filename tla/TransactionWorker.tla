-------------------------- MODULE TransactionWorker --------------------------
(***************************************************************************)
(* processTransaction (src/src/queues/workers/transaction.worker.ts), run  *)
(* concurrently by the slots of the BullMQ worker over the jobs of         *)
(* JobQueue.  Each await of the function is one action, so that another    *)
(* slot, an administrator's request, a crash or an expired lock can come   *)
(* between any two of them.                                                *)
(*                                                                         *)
(* Two e-mails announce the same payment when their deduplication hashes   *)
(* are equal (PaymentOf).  The rows of the table transactions are the      *)
(* function row: the hash has a unique index, hence one row per payment.   *)
(* Step 2.6, member matching, touches none of this state; it is one step   *)
(* here and is modelled call by call in MemberPayments.                    *)
(***************************************************************************)
EXTENDS JobQueue

CONSTANTS
  Payment,           \* deduplication hashes
  Phone,             \* normalized phone numbers
  NoPhone, NoJob,
  PaymentOf,         \* the hash of each e-mail's parsed transaction
  PhoneOf,           \* its senderPhone, or NoPhone when none was extracted
  OwnerConfigured,   \* env.ACCOUNT_PHONE is set
  Faults             \* which of the failures below may happen

FaultKinds ==
  { "db",        \* a database call fails and has no effect
    "db_ack",    \* an INSERT commits but the connection dies before the reply
    "whatsapp",  \* the Cloud API rejects the message, or the number is invalid
    "wa_ack",    \* the message is accepted but the reply is lost (timeout)
    "crash",     \* the process dies and restarts
    "stall" }    \* a job lock expires under a running execution

ASSUME WorkerAssumption ==
  /\ NoPhone \notin Phone
  /\ PaymentOf \in [Email -> Payment]
  /\ PhoneOf \in [Email -> Phone \cup {NoPhone}]
  /\ OwnerConfigured \in BOOLEAN
  /\ Faults \subseteq FaultKinds

VARIABLES
  pc,             \* the await each slot's execution is about to perform
  jobOf,          \* the job it was started with
  mailOf,         \* its copy of job.data
  messageId,      \* whatsappMessageId is set
  row,            \* transactions.status by dedup_hash, "absent" without a row
  rowPhone,       \* transactions.sender_phone, NoPhone for NULL
  log,            \* notification_logs row of the payment: none, pending, sent
  sender,         \* users.status by phone_hash, "absent" without a row
  delivered,      \* notifications the sender really received (ghost)
  ownerNotices,   \* notices to the account owner about the payment (ghost)
  wasDismissed    \* senders an administrator has ever dismissed (ghost)

slotVars == <<pc, jobOf, mailOf, messageId>>
dbVars == <<row, rowPhone, log, sender>>
ghostVars == <<delivered, ownerNotices, wasDismissed>>
wvars == <<queueVars, slotVars, dbVars, ghostVars>>

\* The awaits of an execution that has inserted the row and may still notify
\* somebody or change the row: it holds the claim on the payment.
Undecided == {"match", "resolve", "no_phone", "dismissed", "send"}
Claimed == Undecided \cup {"log", "status", "owner"}

PCs == {"idle", "dedup", "persist", "return", "throw"} \cup Claimed

WTypeOK ==
  /\ QueueTypeOK
  /\ pc \in [Slot -> PCs]
  /\ jobOf \in [Slot -> Job \cup {NoJob}]
  /\ mailOf \in [Slot -> Email \cup {NoEmail}]
  /\ messageId \in [Slot -> BOOLEAN]
  /\ row \in [Payment -> {"absent", "pending", "processed", "failed"}]
  /\ rowPhone \in [Payment -> Phone \cup {NoPhone}]
  /\ log \in [Payment -> {"none", "pending", "sent"}]
  /\ sender \in [Phone -> {"absent", "unknown", "dismissed", "linked"}]
  /\ delivered \in [Payment -> Nat]
  /\ ownerNotices \in [Payment -> Nat]
  /\ wasDismissed \in SUBSET Phone
  /\ \A s \in Slot : pc[s] # "idle" =>
       jobOf[s] \in Job /\ jobState[jobOf[s]] # "none" /\ mailOf[s] \in Email

WInit ==
  /\ QueueInit
  /\ pc = [s \in Slot |-> "idle"]
  /\ jobOf = [s \in Slot |-> NoJob]
  /\ mailOf = [s \in Slot |-> NoEmail]
  /\ messageId = [s \in Slot |-> FALSE]
  /\ row = [p \in Payment |-> "absent"]
  /\ rowPhone = [p \in Payment |-> NoPhone]
  /\ log = [p \in Payment |-> "none"]
  /\ sender = [ph \in Phone |-> "absent"]
  /\ delivered = [p \in Payment |-> 0]
  /\ ownerNotices = [p \in Payment |-> 0]
  /\ wasDismissed = {}

paymentOf(s) == PaymentOf[mailOf[s]]

Goto(s, to) ==
  /\ pc' = [pc EXCEPT ![s] = to]
  /\ UNCHANGED <<jobOf, mailOf>>

-----------------------------------------------------------------------------
\* The slot receives a job from the queue and enters processTransaction.
StartJob(s, j) ==
  /\ pc[s] = "idle"
  /\ TakeJob(j, s)
  /\ pc' = [pc EXCEPT ![s] = "dedup"]
  /\ jobOf' = [jobOf EXCEPT ![s] = j]
  /\ mailOf' = [mailOf EXCEPT ![s] = jobData[j]]
  /\ messageId' = [messageId EXCEPT ![s] = FALSE]
  /\ UNCHANGED <<dbVars, ghostVars>>

\* Faulty variants, each named for the mistake; no action uses them.  They show
\* which property would notice the mistake.
DuplicateIsAnError(s) ==
  /\ pc[s] = "dedup"
  /\ Goto(s, IF row[paymentOf(s)] = "absent" THEN "persist" ELSE "throw")
  /\ UNCHANGED <<queueVars, messageId, dbVars, ghostVars>>

TimeoutIsADuplicate(s) ==
  /\ pc[s] = "dedup"
  /\ Goto(s, "return") \/ (row[paymentOf(s)] = "absent" /\ Goto(s, "persist"))
  /\ UNCHANGED <<queueVars, messageId, dbVars, ghostVars>>

\* Step 1, isDuplicate: a failed SELECT counts as "duplicate" (fail safe).
IsDuplicate(s) ==
  /\ pc[s] = "dedup"
  /\ \/ row[paymentOf(s)] # "absent" /\ Goto(s, "return")
     \/ row[paymentOf(s)] = "absent" /\ Goto(s, "persist")
     \/ "db" \in Faults /\ Goto(s, "return")
  /\ UNCHANGED <<queueVars, messageId, dbVars, ghostVars>>

\* Faulty: INSERT ... ON CONFLICT DO UPDATE SET status = 'pending' RETURNING *.
UpsertTransaction(s) ==
  /\ pc[s] = "persist"
  /\ Goto(s, "match")
  /\ row' = [row EXCEPT ![paymentOf(s)] = "pending"]
  /\ UNCHANGED <<queueVars, messageId, rowPhone, log, sender, ghostVars>>

\* Step 2, create: INSERT guarded by the unique hash.  A unique violation and
\* any other error both come back as null, and null ends the execution as a
\* duplicate.
CreateTransaction(s) ==
  LET p == paymentOf(s) IN
  /\ pc[s] = "persist"
  /\ \/ /\ row[p] = "absent"
        /\ row' = [row EXCEPT ![p] = "pending"]
        /\ rowPhone' = [rowPhone EXCEPT ![p] = PhoneOf[mailOf[s]]]
        /\ \/ Goto(s, "match")
           \/ "db_ack" \in Faults /\ Goto(s, "return")
     \/ /\ row[p] # "absent" \/ "db" \in Faults
        /\ Goto(s, "return")
        /\ UNCHANGED <<row, rowPhone>>
  /\ UNCHANGED <<queueVars, messageId, log, sender, ghostVars>>

\* Step 2.6: every call's error is swallowed, so the execution always goes on.
MatchMember(s) ==
  /\ pc[s] = "match"
  /\ Goto(s, "resolve")
  /\ UNCHANGED <<queueVars, messageId, dbVars, ghostVars>>

\* Faulty: everybody but the linked senders is skipped.
ResolveLinkedOnly(s) ==
  LET ph == PhoneOf[mailOf[s]] IN
  /\ pc[s] = "resolve"
  /\ Goto(s, IF ph = NoPhone THEN "no_phone"
             ELSE IF sender[ph] = "linked" THEN "send" ELSE "dismissed")
  /\ UNCHANGED <<queueVars, messageId, dbVars, ghostVars>>

\* Step 3: which of the three branches is taken.  A failed findByPhone is
\* "unknown sender".  Linking the row to the user is report data.
ResolveSender(s) ==
  LET ph == PhoneOf[mailOf[s]] IN
  /\ pc[s] = "resolve"
  /\ \/ ph = NoPhone /\ Goto(s, "no_phone")
     \/ ph # NoPhone /\ sender[ph] = "dismissed" /\ Goto(s, "dismissed")
     \/ ph # NoPhone /\ sender[ph] # "dismissed" /\ Goto(s, "send")
     \/ ph # NoPhone /\ "db" \in Faults /\ Goto(s, "send")
  /\ UNCHANGED <<queueVars, messageId, dbVars, ghostVars>>

\* updateStatus: a failed UPDATE returns false and nobody looks at it.
UpdateStatus(p, status) ==
  \/ row' = [row EXCEPT ![p] = status]
  \/ "db" \in Faults /\ UNCHANGED row

CloseWithoutPhone(s) ==
  /\ pc[s] = "no_phone"
  /\ Goto(s, IF OwnerConfigured THEN "owner" ELSE "return")
  /\ UpdateStatus(paymentOf(s), "processed")
  /\ UNCHANGED <<queueVars, messageId, rowPhone, log, sender, ghostVars>>

\* The notice to ACCOUNT_PHONE; its outcome is ignored.
NotifyOwner(s) ==
  /\ pc[s] = "owner"
  /\ Goto(s, "return")
  /\ \/ ownerNotices' = [ownerNotices EXCEPT ![paymentOf(s)] = @ + 1]
     \/ "whatsapp" \in Faults /\ UNCHANGED ownerNotices
  /\ UNCHANGED <<queueVars, messageId, dbVars, delivered, wasDismissed>>

\* Faulty: the return after the dismissed branch is missing.
CloseDismissedAndSend(s) ==
  /\ pc[s] = "dismissed"
  /\ Goto(s, "send")
  /\ UpdateStatus(paymentOf(s), "processed")
  /\ UNCHANGED <<queueVars, messageId, rowPhone, log, sender, ghostVars>>

\* Faulty: the dismissed branch returns without a status.
SkipDismissed(s) ==
  /\ pc[s] = "dismissed"
  /\ Goto(s, "return")
  /\ UNCHANGED <<queueVars, messageId, dbVars, ghostVars>>

CloseDismissed(s) ==
  /\ pc[s] = "dismissed"
  /\ Goto(s, "return")
  /\ UpdateStatus(paymentOf(s), "processed")
  /\ UNCHANGED <<queueVars, messageId, rowPhone, log, sender, ghostVars>>

\* Step 4: sendNotification never throws; a failure, also one whose message was
\* accepted, is a null message id.
Deliver(p) == delivered' = [delivered EXCEPT ![p] = @ + 1]

SendNotification(s) ==
  /\ pc[s] = "send"
  /\ Goto(s, "log")
  /\ \/ /\ Deliver(paymentOf(s))
        /\ messageId' = [messageId EXCEPT ![s] = TRUE]
     \/ /\ \/ "wa_ack" \in Faults /\ Deliver(paymentOf(s))
           \/ "whatsapp" \in Faults /\ UNCHANGED delivered
        /\ messageId' = [messageId EXCEPT ![s] = FALSE]
  /\ UNCHANGED <<queueVars, dbVars, ownerNotices, wasDismissed>>

\* Faulty: the log trusts that a call that did not throw has sent.
LogAlwaysSent(s) ==
  /\ pc[s] = "log"
  /\ Goto(s, "status")
  /\ log' = [log EXCEPT ![paymentOf(s)] = "sent"]
  /\ UNCHANGED <<queueVars, messageId, row, rowPhone, sender, ghostVars>>

\* Step 5: notificationLogRepo.create writes 'sent' with a message id and
\* 'pending' without one; an error is caught.
LogNotification(s) ==
  /\ pc[s] = "log"
  /\ Goto(s, "status")
  /\ \/ log' = [log EXCEPT ![paymentOf(s)] = IF messageId[s] THEN "sent" ELSE "pending"]
     \/ "db" \in Faults /\ UNCHANGED log
  /\ UNCHANGED <<queueVars, messageId, row, rowPhone, sender, ghostVars>>

\* Faulty: the status depends on notificationError, which a sendNotification
\* that never throws never sets.
StatusByException(s) ==
  /\ pc[s] = "status"
  /\ Goto(s, "return")
  /\ UpdateStatus(paymentOf(s), "processed")
  /\ UNCHANGED <<queueVars, messageId, rowPhone, log, sender, ghostVars>>

\* Step 6: the final status, then the throw that asks BullMQ for a retry.
SetFinalStatus(s) ==
  /\ pc[s] = "status"
  /\ Goto(s, IF messageId[s] THEN "return" ELSE "throw")
  /\ UpdateStatus(paymentOf(s), IF messageId[s] THEN "processed" ELSE "failed")
  /\ UNCHANGED <<queueVars, messageId, rowPhone, log, sender, ghostVars>>

Leave(s, from) ==
  /\ pc[s] = from
  /\ pc' = [pc EXCEPT ![s] = "idle"]
  /\ jobOf' = [jobOf EXCEPT ![s] = NoJob]
  /\ mailOf' = [mailOf EXCEPT ![s] = NoEmail]
  /\ messageId' = [messageId EXCEPT ![s] = FALSE]
  /\ UNCHANGED <<dbVars, ghostVars>>

\* The promise of processTransaction resolves or rejects.
ReturnSuccess(s) == Leave(s, "return") /\ CompleteJob(jobOf[s], s)
ThrowError(s) == Leave(s, "throw") /\ FailJob(jobOf[s], s)

SlotStep(s) ==
  \/ IsDuplicate(s) \/ CreateTransaction(s) \/ MatchMember(s)
  \/ ResolveSender(s) \/ CloseWithoutPhone(s) \/ NotifyOwner(s)
  \/ CloseDismissed(s) \/ SendNotification(s) \/ LogNotification(s)
  \/ SetFinalStatus(s) \/ ReturnSuccess(s) \/ ThrowError(s)

-----------------------------------------------------------------------------
\* Requests of the administrator that change what ResolveSender reads.
CreateSender(ph) ==
  /\ sender[ph] = "absent"
  /\ sender' = [sender EXCEPT ![ph] = "unknown"]
  /\ UNCHANGED wasDismissed

DismissSender(ph) ==
  /\ sender[ph] # "absent"
  /\ sender' = [sender EXCEPT ![ph] = "dismissed"]
  /\ wasDismissed' = wasDismissed \cup {ph}

\* revert does not look at the old status.
RevertSender(ph) ==
  /\ sender[ph] # "absent"
  /\ sender' = [sender EXCEPT ![ph] = "unknown"]
  /\ UNCHANGED wasDismissed

LinkSender(ph) ==
  /\ sender[ph] # "absent"
  /\ sender' = [sender EXCEPT ![ph] = "linked"]
  /\ UNCHANGED wasDismissed

AdminStep ==
  /\ \E ph \in Phone :
       CreateSender(ph) \/ DismissSender(ph) \/ RevertSender(ph) \/ LinkSender(ph)
  /\ UNCHANGED <<queueVars, slotVars, row, rowPhone, log, delivered, ownerNotices>>

\* The process dies: the executions are gone, their jobs keep being "active"
\* until the stalled check finds them without a lock.
Crash ==
  /\ "crash" \in Faults
  /\ \E s \in Slot : pc[s] # "idle"
  /\ AllLocksExpire
  /\ pc' = [s \in Slot |-> "idle"]
  /\ jobOf' = [s \in Slot |-> NoJob]
  /\ mailOf' = [s \in Slot |-> NoEmail]
  /\ messageId' = [s \in Slot |-> FALSE]
  /\ UNCHANGED <<dbVars, ghostVars>>

Start(j) == \E s \in Slot : StartJob(s, j)

QueueStep(j) ==
  /\ \/ RetryDelayElapsed(j)
     \/ StalledCheck(j)
     \/ "stall" \in Faults /\ LockExpires(j)
  /\ UNCHANGED <<slotVars, dbVars, ghostVars>>

Enqueue(j, e) ==
  /\ EnqueueTransaction(j, e)
  /\ UNCHANGED <<slotVars, dbVars, ghostVars>>

ClearFailed ==
  /\ ClearFailedJobs
  /\ UNCHANGED <<slotVars, dbVars, ghostVars>>

\* What happens without a new e-mail.
WorkerStep ==
  \/ \E s \in Slot : SlotStep(s)
  \/ \E j \in Job : Start(j) \/ QueueStep(j)
  \/ AdminStep \/ Crash \/ ClearFailed

WNext == WorkerStep \/ \E j \in Job, e \in Email : Enqueue(j, e)

\* The event loop runs every pending continuation, every network call answers
\* or times out, BullMQ keeps fetching waiting jobs, its delays end and its
\* stalled check is periodic.  Nothing forces an administrator or a failure.
WFairness ==
  /\ \A s \in Slot : WF_wvars(SlotStep(s))
  /\ \A j \in Job :
       /\ WF_wvars(Start(j))
       /\ WF_wvars(RetryDelayElapsed(j) /\ UNCHANGED <<slotVars, dbVars, ghostVars>>)
       /\ WF_wvars(StalledCheck(j) /\ UNCHANGED <<slotVars, dbVars, ghostVars>>)

WSpec == WInit /\ [][WNext]_wvars
WFairSpec == WSpec /\ WFairness

-----------------------------------------------------------------------------
(***************************************************************************)
(* Safety                                                                  *)
(***************************************************************************)

\* The sender of a payment is notified at most once, however many e-mails and
\* jobs announce it and however often its job is retried, stalls, or loses the
\* answer of the API (processTransaction, Steps 1 to 4: the INSERT is the claim).
AtMostOneNotice == \A p \in Payment : delivered[p] <= 1

\* The account owner hears about a payment at most once, and never about one
\* whose sender was notified, even if two e-mails of the payment disagree about
\* the sender's phone (Step 3, the branch without a phone).
SenderOrOwner ==
  \A p \in Payment :
    /\ ownerNotices[p] <= 1
    /\ ownerNotices[p] > 0 => delivered[p] = 0

\* A transaction ends up 'processed' only if its sender was notified, it shows no
\* phone, or its sender had been dismissed (Steps 3 and 6: what the dashboard
\* reports), whichever of its e-mails was the one recorded.
ProcessedIsJustified ==
  \A p \in Payment :
    row[p] = "processed" =>
      delivered[p] = 1 \/ rowPhone[p] \in {NoPhone} \cup wasDismissed

\* The log of a payment says 'sent' only for a message that was delivered and a
\* transaction that does not end as 'failed'; without the ACK of the API it says
\* 'pending' and the transaction does not end as 'processed' (Steps 5 and 6).
LogAgreesWithStatus ==
  \A p \in Payment :
    /\ log[p] = "sent" => delivered[p] = 1 /\ row[p] # "failed"
    /\ log[p] = "pending" => row[p] # "processed"

\* A final status is never revised and a row never reverts: retries, duplicate
\* e-mails and executions that lost their lock cannot disturb a settled payment.
StatusIsFinal ==
  [][\A p \in Payment :
       /\ row[p] \in {"processed", "failed"} => row'[p] = row[p]
       /\ row[p] = "pending" => row'[p] # "absent"]_wvars

\* A job throws at most once, so with more than one attempt configured the only
\* way into the failed set is the stalled limit: a retry always meets the row
\* of its own first attempt (isDuplicate) and completes as a duplicate.
OnlyStallsDeadLetter ==
  \A j \in Job :
    /\ attemptsMade[j] <= 1
    /\ jobState[j] = "failed" /\ Attempts > 1 => stalledCount[j] > MaxStalledCount

\* The payments are claimed, notified and settled as NotifyOnce promises.
claim == [p \in Payment |->
            CASE row[p] = "absent" -> "free"
              [] row[p] = "pending" -> "open"
              [] OTHER -> "settled"]

Abstract == INSTANCE NotifyOnce WITH notices <- delivered

RefinesNotifyOnce == Abstract!Spec

(***************************************************************************)
(* The inductive invariant behind the safety properties                    *)
(***************************************************************************)

\* What the claim protects: while an execution holds it, nobody else has
\* touched the payment, and it remembers how far it got itself.
ClaimIntact(s) ==
  LET p == paymentOf(s) IN
  /\ pc[s] \in Undecided =>
       row[p] = "pending" /\ delivered[p] = 0 /\ ownerNotices[p] = 0 /\ log[p] = "none"
  /\ pc[s] \in {"log", "status"} =>
       row[p] = "pending" /\ ownerNotices[p] = 0 /\ (messageId[s] => delivered[p] = 1)
  /\ pc[s] = "log" => log[p] = "none"
  /\ pc[s] = "status" =>
       (log[p] = "sent" => messageId[s]) /\ (log[p] = "pending" => ~messageId[s])
  /\ pc[s] = "owner" => row[p] # "absent" /\ delivered[p] = 0 /\ ownerNotices[p] = 0

Untouched(p) == delivered[p] = 0 /\ ownerNotices[p] = 0 /\ log[p] = "none"

\* At most one execution ever holds the claim on a payment (CreateTransaction
\* succeeds once per dedup_hash), and it finds the payment as it left it.
ClaimInv ==
  /\ \A s, t \in Slot :
       pc[s] \in Claimed /\ pc[t] \in Claimed /\ paymentOf(s) = paymentOf(t) => s = t
  /\ \A s \in Slot : ClaimIntact(s)
  /\ \A p \in Payment : row[p] = "absent" => Untouched(p)

\* An execution took the branch its sender's phone and status called for, and the
\* row shows the phone of the e-mail it works on.
BranchInv ==
  /\ \A ph \in Phone : sender[ph] = "dismissed" => ph \in wasDismissed
  /\ \A s \in Slot :
       /\ pc[s] \in Claimed => rowPhone[paymentOf(s)] = PhoneOf[mailOf[s]]
       /\ pc[s] = "no_phone" => PhoneOf[mailOf[s]] = NoPhone
       /\ pc[s] = "dismissed" => PhoneOf[mailOf[s]] \in wasDismissed

\* A job that threw has its row; an execution that may still throw under a valid
\* lock is the first of its job to do so.
AttemptInv ==
  /\ \A j \in Job : attemptsMade[j] > 0 => row[PaymentOf[jobData[j]]] # "absent"
  /\ \A s \in Slot : pc[s] # "idle" =>
       /\ mailOf[s] = jobData[jobOf[s]]
       /\ pc[s] \in Claimed \cup {"throw"} =>
            /\ row[paymentOf(s)] # "absent"
            /\ lockOwner[jobOf[s]] = s => attemptsMade[jobOf[s]] = 0
  /\ \A j \in Job : jobState[j] = "none" => attemptsMade[j] = 0

(***************************************************************************)
(* Liveness                                                                *)
(***************************************************************************)

\* Every enqueued job is eventually completed, dead-lettered or cleared, even
\* when the process crashes and locks expire again and again.
JobsSettle ==
  \A j \in Job : jobState[j] = "waiting" ~> Settled(j)

\* Unless the API rejects the message or something dies, an enqueued payment is
\* confirmed to its sender, except when an administrator has dismissed the
\* sender or no phone is known (Steps 3 and 4).
SenderIsNotified ==
  \A j \in Job, e \in Email :
    jobState[j] = "waiting" /\ jobData[j] = e ~>
      \/ delivered[PaymentOf[e]] = 1
      \/ \E d \in Email : /\ PaymentOf[d] = PaymentOf[e]
                         /\ PhoneOf[d] \in {NoPhone} \cup wasDismissed

(***************************************************************************)
(* What the repository's comments say and the code does not do             *)
(***************************************************************************)

\* "Retry strategy: 3 attempts ... After 3 failures the job moves to the failed
\* set": a job that threw and later completes has been processed.
RetryReprocesses ==
  \A j \in Job :
    jobState[j] = "completed" /\ attemptsMade[j] > 0
      => row[PaymentOf[jobData[j]]] = "processed"
=============================================================================
