------------------------------ MODULE JobQueue ------------------------------
(***************************************************************************)
(* The BullMQ queue "transactions" as this program configures and uses it  *)
(* (src/src/queues/transaction.queue.ts and the Worker options in          *)
(* src/src/queues/workers/transaction.worker.ts).  BullMQ itself is a      *)
(* library: the transitions below are its documented at-least-once         *)
(* contract for a job with a fixed number of attempts.                     *)
(*                                                                         *)
(* A job that a worker slot has taken is protected by a lock.  A slot      *)
(* whose lock expired keeps running: it does not know, and the verdict it  *)
(* reports at the end is ignored.  The order in which waiting jobs are     *)
(* taken is left open: delays, stalls and the priority option permute it.  *)
(***************************************************************************)
EXTENDS Naturals

CONSTANTS
  Email,            \* payloads: the parsed e-mail a job carries
  Job,              \* job identifiers (bounds the number of enqueues)
  Slot,             \* concurrent executions a worker may run (concurrency: 3)
  Attempts,         \* defaultJobOptions.attempts
  MaxStalledCount,  \* BullMQ's maxStalledCount
  NoEmail, NoSlot

ASSUME JobQueueAssumption ==
  /\ Attempts \in Nat \ {0}
  /\ MaxStalledCount \in Nat
  /\ NoEmail \notin Email
  /\ NoSlot \notin Slot

VARIABLES
  jobState,       \* the BullMQ set each job is in
  jobData,        \* data.parsedTransaction
  attemptsMade,   \* attempts that ended in a throw
  stalledCount,   \* how often the job was found stalled
  lockOwner       \* the slot whose lock on the job is still valid

queueVars == <<jobState, jobData, attemptsMade, stalledCount, lockOwner>>

JobStates ==
  {"none", "waiting", "active", "delayed", "completed", "failed", "removed"}

QueueTypeOK ==
  /\ jobState \in [Job -> JobStates]
  /\ jobData \in [Job -> Email \cup {NoEmail}]
  /\ attemptsMade \in [Job -> Nat]
  /\ stalledCount \in [Job -> Nat]
  /\ lockOwner \in [Job -> Slot \cup {NoSlot}]
  /\ \A j \in Job : jobState[j] # "none" => jobData[j] \in Email

QueueInit ==
  /\ jobState = [j \in Job |-> "none"]
  /\ jobData = [j \in Job |-> NoEmail]
  /\ attemptsMade = [j \in Job |-> 0]
  /\ stalledCount = [j \in Job |-> 0]
  /\ lockOwner = [j \in Job |-> NoSlot]

-----------------------------------------------------------------------------
\* Faulty variant: the job is added without its payload.
EnqueueWithoutData(j, e) ==
  /\ jobState[j] = "none"
  /\ jobState' = [jobState EXCEPT ![j] = "waiting"]
  /\ UNCHANGED <<jobData, attemptsMade, stalledCount, lockOwner>>

\* enqueueTransaction(data): a new job each time, no jobId is given, so the
\* queue itself never recognises that the same payment was enqueued before.
EnqueueTransaction(j, e) ==
  /\ jobState[j] = "none"
  /\ jobState' = [jobState EXCEPT ![j] = "waiting"]
  /\ jobData' = [jobData EXCEPT ![j] = e]
  /\ UNCHANGED <<attemptsMade, stalledCount, lockOwner>>

\* A slot takes a waiting job and locks it.
TakeJob(j, s) ==
  /\ jobState[j] = "waiting"
  /\ jobState' = [jobState EXCEPT ![j] = "active"]
  /\ lockOwner' = [lockOwner EXCEPT ![j] = s]
  /\ UNCHANGED <<jobData, attemptsMade, stalledCount>>

\* The processor returned.  Without the lock the verdict is dropped.
CompleteJob(j, s) ==
  IF lockOwner[j] = s
  THEN /\ jobState' = [jobState EXCEPT ![j] = "completed"]
       /\ lockOwner' = [lockOwner EXCEPT ![j] = NoSlot]
       /\ UNCHANGED <<jobData, attemptsMade, stalledCount>>
  ELSE UNCHANGED queueVars

\* The processor threw: back off while attempts are left, else dead letter.
FailJob(j, s) ==
  IF lockOwner[j] = s
  THEN /\ attemptsMade' = [attemptsMade EXCEPT ![j] = @ + 1]
       /\ jobState' = [jobState EXCEPT ![j] =
            IF attemptsMade[j] + 1 < Attempts THEN "delayed" ELSE "failed"]
       /\ lockOwner' = [lockOwner EXCEPT ![j] = NoSlot]
       /\ UNCHANGED <<jobData, stalledCount>>
  ELSE UNCHANGED queueVars

\* The delay chosen by getRetryDelay is over.
RetryDelayElapsed(j) ==
  /\ jobState[j] = "delayed"
  /\ jobState' = [jobState EXCEPT ![j] = "waiting"]
  /\ UNCHANGED <<jobData, attemptsMade, stalledCount, lockOwner>>

\* The slot could not renew its lock in time (event loop or Redis stalled).
LockExpires(j) ==
  /\ lockOwner[j] # NoSlot
  /\ lockOwner' = [lockOwner EXCEPT ![j] = NoSlot]
  /\ UNCHANGED <<jobState, jobData, attemptsMade, stalledCount>>

\* The process that held every lock is gone.
AllLocksExpire ==
  /\ lockOwner' = [j \in Job |-> NoSlot]
  /\ UNCHANGED <<jobState, jobData, attemptsMade, stalledCount>>

\* Faulty variant: no limit on how often a job may stall.
StalledForever(j) ==
  /\ jobState[j] = "active"
  /\ lockOwner[j] = NoSlot
  /\ jobState' = [jobState EXCEPT ![j] = "waiting"]
  /\ UNCHANGED <<jobData, attemptsMade, stalledCount, lockOwner>>

\* The stalled check (every stalledInterval) meets an active job without lock.
StalledCheck(j) ==
  /\ jobState[j] = "active"
  /\ lockOwner[j] = NoSlot
  /\ stalledCount' = [stalledCount EXCEPT ![j] = @ + 1]
  /\ jobState' = [jobState EXCEPT ![j] =
       IF stalledCount[j] + 1 > MaxStalledCount THEN "failed" ELSE "waiting"]
  /\ UNCHANGED <<jobData, attemptsMade, lockOwner>>

\* DELETE /api/queue/failed: clean(0, 1000, 'failed').
ClearFailedJobs ==
  /\ \E j \in Job : jobState[j] = "failed"
  /\ jobState' = [j \in Job |->
       IF jobState[j] = "failed" THEN "removed" ELSE jobState[j]]
  /\ UNCHANGED <<jobData, attemptsMade, stalledCount, lockOwner>>

Settled(j) == jobState[j] \in {"completed", "failed", "removed"}
=============================================================================
