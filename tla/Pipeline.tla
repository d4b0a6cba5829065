------------------------------ MODULE Pipeline ------------------------------
(***************************************************************************)
(* The whole way of a payment: the mailbox and the poll cycle              *)
(* (EmailPoller), the queue (JobQueue) and the worker that records and     *)
(* confirms it (TransactionWorker).  The two halves share the process,     *)
(* hence its death, and meet in enqueueTransaction.                        *)
(***************************************************************************)
EXTENDS TransactionWorker

CONSTANTS Parses, Cycle, MaxResults, MaxRepeats, MailFaults, NoMail

ASSUME PipelineAssumption == Parses \subseteq Email /\ NoMail \notin Email

VARIABLES inbox, running, isPolling, cpc, batch, cur, enqueued, unmarked

Poller == INSTANCE EmailPoller

pollerVars == <<inbox, running, isPolling, cpc, batch, cur, enqueued, unmarked>>
pvars == <<wvars, pollerVars>>

PInit == WInit /\ Poller!PollInit

\* enqueueTransaction({ parsedTransaction }) called by a poll cycle.
PollerEnqueues(c) ==
  /\ Poller!AddsJob(c)
  /\ \E j \in Job : Enqueue(j, cur[c])

\* Worker and poller die together: one Node process.
ProcessDies ==
  /\ Poller!Restart
  /\ \/ Crash
     \/ (\A s \in Slot : pc[s] = "idle") /\ UNCHANGED wvars

WorkerSteps ==
  \/ \E s \in Slot : SlotStep(s)
  \/ \E j \in Job : Start(j) \/ QueueStep(j)
  \/ AdminStep \/ ClearFailed

PNext ==
  \/ WorkerSteps /\ UNCHANGED pollerVars
  \/ Poller!PollerStep /\ UNCHANGED wvars
  \/ \E c \in Cycle : PollerEnqueues(c)
  \/ ProcessDies

PFairness ==
  /\ \A s \in Slot : WF_pvars(SlotStep(s) /\ UNCHANGED pollerVars)
  /\ \A j \in Job :
       /\ WF_pvars(Start(j) /\ UNCHANGED pollerVars)
       /\ WF_pvars(RetryDelayElapsed(j) /\ UNCHANGED <<slotVars, dbVars, ghostVars, pollerVars>>)
       /\ WF_pvars(StalledCheck(j) /\ UNCHANGED <<slotVars, dbVars, ghostVars, pollerVars>>)
  /\ WF_pvars((\E c \in Cycle : Poller!StartScheduler(c)) /\ UNCHANGED wvars)
  /\ SF_pvars((\E c \in Cycle : Poller!TimerFires(c)) /\ UNCHANGED wvars)
  /\ \A c \in Cycle :
       /\ WF_pvars(Poller!CycleStep(c) /\ UNCHANGED wvars)
       /\ WF_pvars(PollerEnqueues(c))

PSpec == PInit /\ [][PNext]_pvars
PFairSpec == PSpec /\ PFairness

-----------------------------------------------------------------------------
JobsFor(e) == {j \in Job : jobState[j] # "none" /\ jobData[j] = e}

\* An e-mail that was marked as read is never forgotten while the database
\* answers: its payment is in the table, or a job for it is still to run, or the
\* job went to the dead letters, from where an administrator may have cleared it.
NothingIsForgotten ==
  \A e \in Parses : inbox[e] = "read" =>
    \/ row[PaymentOf[e]] # "absent"
    \/ \E j \in JobsFor(e) : jobState[j] # "completed"

\* Mailbox to notification, the payment is confirmed at most once.
EndToEndOnce == Abstract!Spec

\* Every payment e-mail is eventually enqueued and marked as read
\* (EmailPoller!EveryPaymentIsRead), whatever the worker is doing.
MailIsRead == Poller!EveryPaymentIsRead

\* Every payment e-mail is eventually recorded with a final status, although
\* replies of Redis and WhatsApp are lost and e-mails stay unread.
PaymentIsSettled ==
  \A e \in Parses : inbox[e] = "unread" ~> row[PaymentOf[e]] \in {"processed", "failed"}
=============================================================================
