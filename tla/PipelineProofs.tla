--------------------------- MODULE PipelineProofs ---------------------------
(***************************************************************************)
(* The composition keeps the guarantees of its parts: a behaviour of the   *)
(* pipeline is a behaviour of the worker and one of the poller.            *)
(***************************************************************************)
EXTENDS Pipeline, TransactionWorkerProofs

LEMMA StepIsWorkerStep ==
  ASSUME [PNext]_pvars, cur \in [Cycle -> Email \cup {NoMail}],
         \A c \in Cycle : cpc[c] = "enqueue" => cur[c] \in Email
  PROVE  [WNext]_wvars
<1>1. CASE WorkerSteps
  BY <1>1 DEF WorkerSteps, WNext, WorkerStep
<1>2. CASE UNCHANGED wvars
  BY <1>2
<1>3. ASSUME NEW c \in Cycle, PollerEnqueues(c) PROVE WNext
  <2>1. cur[c] \in Email
    BY <1>3 DEF PollerEnqueues, Poller!AddsJob, Poller!EnqueueAccepted,
                Poller!EnqueueUnacknowledged, Poller!AddJob
  <2> QED BY <1>3, <2>1 DEF PollerEnqueues, WNext
<1>4. CASE ProcessDies
  BY <1>4 DEF ProcessDies, WNext, WorkerStep
<1> QED BY <1>1, <1>2, <1>3, <1>4 DEF PNext, pvars

\* A step of the pipeline is a step of the poller, or leaves it alone.
LEMMA StepIsPollerStep ==
  ASSUME [PNext]_pvars
  PROVE  [Poller!PollNext]_pollerVars
  BY DEF PNext, pvars, PollerEnqueues, ProcessDies, Poller!PollNext

\* What the worker relies on: a cycle that enqueues has an e-mail to enqueue.
CycleHasMail ==
  /\ cur \in [Cycle -> Email \cup {NoMail}]
  /\ cpc \in [Cycle -> {"idle", "fetch", "next", "skip", "enqueue", "mark"}]
  /\ batch \in [Cycle -> SUBSET Email]
  /\ \A c \in Cycle : cpc[c] = "enqueue" => cur[c] \in Email

LEMMA CycleHasMailInit == PInit => CycleHasMail
<1> SUFFICES ASSUME PInit PROVE CycleHasMail
  OBVIOUS
<1>1. batch \in [Cycle -> SUBSET Email]
  BY DEF PInit, Poller!PollInit
<1> QED BY <1>1 DEF PInit, Poller!PollInit, CycleHasMail

LEMMA CycleHasMailStep == CycleHasMail /\ [PNext]_pvars => CycleHasMail'
<1> SUFFICES ASSUME CycleHasMail, [Poller!PollNext]_pollerVars PROVE CycleHasMail'
  BY StepIsPollerStep
<1> USE DEF CycleHasMail, Poller!cycleVars, Poller!EndCycle, Poller!CycleGoto
<1>1. CASE UNCHANGED <<cpc, batch, cur>>
  BY <1>1
<1>2. ASSUME NEW c \in Cycle, Poller!PollEmails(c) PROVE CycleHasMail'
  BY <1>2 DEF Poller!PollEmails
<1>3. ASSUME NEW c \in Cycle, Poller!FetchNewEmails(c) PROVE CycleHasMail'
  <2>1. batch' \in [Cycle -> SUBSET Email]
    BY <1>3 DEF Poller!FetchNewEmails, Poller!Unread
  <2> QED BY <1>3, <2>1 DEF Poller!FetchNewEmails
<1>4. ASSUME NEW c \in Cycle, Poller!NextEmail(c) PROVE CycleHasMail'
  <2>1. batch' \in [Cycle -> SUBSET Email]
    BY <1>4 DEF Poller!NextEmail
  <2>2. \A d \in Cycle : cpc'[d] = "enqueue" => cur'[d] \in Email
    BY <1>4 DEF Poller!NextEmail
  <2>3. /\ cpc' \in [Cycle -> {"idle", "fetch", "next", "skip", "enqueue", "mark"}]
        /\ cur' \in [Cycle -> Email \cup {NoMail}]
    BY <1>4 DEF Poller!NextEmail
  <2> QED BY <2>1, <2>2, <2>3
<1>5. ASSUME NEW c \in Cycle, NEW to \in {"next", "mark"}, Poller!CycleGoto(c, to)
      PROVE  CycleHasMail'
  BY <1>5
<1>6. CASE Poller!Restart
  <2>1. batch' \in [Cycle -> SUBSET Email]
    BY <1>6 DEF Poller!Restart
  <2> QED BY <1>6, <2>1 DEF Poller!Restart
<1> QED
  BY <1>1, <1>2, <1>3, <1>4, <1>5, <1>6
     DEF Poller!PollNext, Poller!PollerStep, Poller!ReceiveEmail,
         Poller!StartScheduler, Poller!TimerFires, Poller!CycleStep,
         Poller!EnqueueRefused, Poller!MarkAsRead, Poller!StopScheduler,
         Poller!AddsJob, Poller!EnqueueAccepted, Poller!EnqueueUnacknowledged,
         pollerVars

\* The pipeline drives the worker only in ways the worker's own specification
\* foresees.
THEOREM PipelineIsWorker == PSpec => WSpec
<1>1. CycleHasMail /\ [PNext]_pvars => [WNext]_wvars
  BY StepIsWorkerStep DEF CycleHasMail
<1>2. PInit => WInit
  BY DEF PInit
<1> QED BY <1>1, <1>2, CycleHasMailInit, CycleHasMailStep, PTL DEF PSpec, WSpec

\* From the mailbox to the phone, a payment is confirmed at most once.
THEOREM EndToEnd == PSpec => EndToEndOnce
  BY PipelineIsWorker, Refinement, PTL DEF EndToEndOnce, RefinesNotifyOnce

\* The pipeline drives the poll cycle only in ways its own specification foresees.
THEOREM PipelineIsPoller == PSpec => Poller!PollSpec
<1>1. [PNext]_pvars => [Poller!PollNext]_Poller!pollVars
  BY StepIsPollerStep DEF pollerVars, Poller!pollVars, Poller!cycleVars
<1>2. PInit => Poller!PollInit
  BY DEF PInit
<1> QED BY <1>1, <1>2, PTL DEF PSpec, Poller!PollSpec

-----------------------------------------------------------------------------
(***************************************************************************)
(* Nothing that was marked as read is forgotten                            *)
(***************************************************************************)

\* A job that completed, and an execution that is about to complete one, have seen
\* the row of the payment.
CompletedHasRow ==
  /\ \A j \in Job : jobState[j] = "completed" => row[PaymentOf[jobData[j]]] # "absent"
  /\ \A s \in Slot : pc[s] = "return" => row[paymentOf(s)] # "absent"

\* A row is never taken back.
LEMMA RowStays ==
  ASSUME WTypeOK, ClaimInv, [WNext]_wvars, NEW p \in Payment, row[p] # "absent"
  PROVE  row'[p] # "absent"
<1>1. row \in [Payment -> {"absent", "pending", "processed", "failed"}]
  BY DEF WTypeOK
<1> QED BY <1>1, RowStep

LEMMA CompletedStep ==
  ASSUME "db" \notin Faults, WTypeOK, ClaimInv, AttemptInv, CompletedHasRow, [WNext]_wvars
  PROVE  CompletedHasRow'
<1> USE DEF slotVars, dbVars, ghostVars, queueVars
<1>0. /\ pc \in [Slot -> PCs] /\ jobState \in [Job -> JobStates]
      /\ jobData \in [Job -> Email \cup {NoEmail}]
      /\ row \in [Payment -> {"absent", "pending", "processed", "failed"}]
      /\ \A j \in Job : jobState[j] # "none" => jobData[j] \in Email
      /\ \A s \in Slot : pc[s] # "idle" => jobOf[s] \in Job /\ mailOf[s] \in Email
      /\ \A e \in Email : PaymentOf[e] \in Payment
  BY WorkerAssumption DEF WTypeOK, QueueTypeOK
\* A step that completes no job and brings nobody to "return".
<1>1. ASSUME \A j \in Job : jobState'[j] = "completed" =>
               jobState[j] = "completed" /\ jobData'[j] = jobData[j],
             \A s \in Slot : pc'[s] = "return" => pc[s] = "return" /\ mailOf'[s] = mailOf[s]
      PROVE  CompletedHasRow'
  BY <1>0, <1>1, RowStays DEF CompletedHasRow, paymentOf, JobStates
<1>2. ASSUME NEW s \in Slot, UNCHANGED <<jobState, jobData, mailOf>>,
             \A t \in Slot : t # s => pc'[t] = pc[t],
             pc'[s] = "return" => row'[paymentOf(s)] # "absent"
      PROVE  CompletedHasRow'
  <2>1. \A j \in Job : jobState'[j] = "completed" => row'[PaymentOf[jobData'[j]]] # "absent"
    BY <1>0, <1>2, RowStays DEF CompletedHasRow, JobStates
  <2>2. \A t \in Slot : pc'[t] = "return" => row'[paymentOf(t)'] # "absent"
    BY <1>0, <1>2, RowStays DEF CompletedHasRow, paymentOf
  <2> QED BY <2>1, <2>2 DEF CompletedHasRow, paymentOf
<1>3. ASSUME NEW s \in Slot, SlotStep(s) PROVE CompletedHasRow'
  <2>1. CASE IsDuplicate(s)
    BY <1>0, <1>2, <2>1 DEF IsDuplicate, Goto, paymentOf
  <2>2. CASE CreateTransaction(s)
    <3>1. pc[s] = "persist" /\ paymentOf(s) \in Payment
      BY <1>0, <2>2 DEF CreateTransaction, paymentOf
    <3>2. row'[paymentOf(s)] # "absent"
      BY <1>0, <2>2, <3>1 DEF CreateTransaction
    <3> QED BY <1>0, <1>2, <2>2, <3>2 DEF CreateTransaction, Goto
  <2>3. CASE \/ MatchMember(s) \/ ResolveSender(s) \/ CloseWithoutPhone(s) \/ NotifyOwner(s)
             \/ CloseDismissed(s) \/ SendNotification(s) \/ LogNotification(s) \/ SetFinalStatus(s)
    <3>1. /\ UNCHANGED <<jobState, jobData, mailOf>> /\ pc[s] \in Claimed
          /\ \A t \in Slot : t # s => pc'[t] = pc[t]
      BY <1>0, <2>3 DEF MatchMember, ResolveSender, CloseWithoutPhone, NotifyOwner, CloseDismissed,
                       SendNotification, LogNotification, SetFinalStatus, Goto, Claimed, Undecided
    <3>2. row[paymentOf(s)] # "absent" /\ paymentOf(s) \in Payment
      BY <1>0, <3>1 DEF AttemptInv, Claimed, Undecided, paymentOf
    <3> QED BY <1>2, <3>1, <3>2, RowStays
  <2>4. CASE ReturnSuccess(s)
    <3>1. /\ pc[s] = "return" /\ jobOf[s] \in Job /\ mailOf[s] \in Email
          /\ mailOf[s] = jobData[jobOf[s]] /\ UNCHANGED <<row, jobData>>
          /\ row[PaymentOf[mailOf[s]]] # "absent"
      BY <1>0, <2>4 DEF ReturnSuccess, Leave, CompleteJob, AttemptInv, CompletedHasRow, paymentOf
    <3>2. \A j \in Job : jobState'[j] = "completed" => jobState[j] = "completed" \/ j = jobOf[s]
      BY <1>0, <2>4 DEF ReturnSuccess, CompleteJob
    <3>3. \A t \in Slot : pc'[t] = "return" => pc[t] = "return" /\ mailOf'[t] = mailOf[t]
      BY <1>0, <2>4 DEF ReturnSuccess, Leave, WTypeOK
    <3> QED BY <3>1, <3>2, <3>3 DEF CompletedHasRow, paymentOf
  <2>5. CASE ThrowError(s)
    <3>1. \A t \in Slot : pc'[t] = "return" => pc[t] = "return" /\ mailOf'[t] = mailOf[t]
      BY <1>0, <2>5 DEF ThrowError, Leave, WTypeOK
    <3>2. UNCHANGED jobData /\ \A j \in Job : jobState'[j] = "completed" => jobState[j] = "completed"
      BY <1>0, <2>5 DEF ThrowError, FailJob
    <3> QED BY <1>1, <3>1, <3>2
  <2> QED BY <1>3, <2>1, <2>2, <2>3, <2>4, <2>5 DEF SlotStep
<1>4. ASSUME NEW j \in Job, Start(j) PROVE CompletedHasRow'
  <2>1. PICK s \in Slot : StartJob(s, j)
    BY <1>4 DEF Start
  <2>2. \A t \in Slot : pc'[t] = "return" => pc[t] = "return" /\ mailOf'[t] = mailOf[t]
    BY <1>0, <2>1 DEF StartJob, WTypeOK
  <2> QED BY <1>0, <1>1, <2>1, <2>2 DEF StartJob, TakeJob
<1>5. ASSUME NEW j \in Job, QueueStep(j) PROVE CompletedHasRow'
  BY <1>0, <1>1, <1>5 DEF QueueStep, RetryDelayElapsed, StalledCheck, LockExpires
<1>6. ASSUME NEW j \in Job, NEW e \in Email, Enqueue(j, e) PROVE CompletedHasRow'
  BY <1>0, <1>1, <1>6 DEF Enqueue, EnqueueTransaction
<1>7. CASE AdminStep \/ ClearFailed \/ Crash \/ UNCHANGED wvars
  BY <1>0, <1>1, <1>7 DEF AdminStep, ClearFailed, ClearFailedJobs, Crash, AllLocksExpire, wvars
<1> QED BY <1>3, <1>4, <1>5, <1>6, <1>7 DEF WNext, WorkerStep

\* The e-mail a cycle is about to mark, and every payment that was marked, has a job.
MarkedHasJob ==
  /\ inbox \in [Email -> {"absent", "unread", "read"}]
  /\ \A e \in Parses : inbox[e] = "read" => JobsFor(e) # {}
  /\ \A c \in Cycle : cpc[c] = "mark" => JobsFor(cur[c]) # {}
  /\ \A c \in Cycle : cpc[c] = "skip" => cur[c] \notin Parses

\* A job keeps its e-mail, and no job ever leaves the queue without a trace.
LEMMA JobStays ==
  ASSUME WTypeOK, [WNext]_wvars, NEW j \in Job, jobState[j] # "none"
  PROVE  jobState'[j] # "none" /\ jobData'[j] = jobData[j]
<1>0. jobState \in [Job -> JobStates] /\ jobData \in [Job -> Email \cup {NoEmail}]
  BY DEF WTypeOK, QueueTypeOK
<1>1. ASSUME NEW k \in Job, Start(k) \/ QueueStep(k) \/ \E e \in Email : Enqueue(k, e)
      PROVE  jobState'[j] # "none" /\ jobData'[j] = jobData[j]
  BY <1>0, <1>1 DEF Start, StartJob, TakeJob, QueueStep, RetryDelayElapsed, StalledCheck,
                    LockExpires, Enqueue, EnqueueTransaction
<1>2. ASSUME NEW s \in Slot, SlotStep(s)
      PROVE  jobState'[j] # "none" /\ jobData'[j] = jobData[j]
  <2>1. CASE UNCHANGED queueVars
    BY <2>1 DEF queueVars
  <2>2. CASE CompleteJob(jobOf[s], s) \/ FailJob(jobOf[s], s)
    BY <1>0, <2>2 DEF CompleteJob, FailJob, queueVars
  <2> QED BY <1>2, <2>1, <2>2
          DEF SlotStep, IsDuplicate, CreateTransaction, MatchMember, ResolveSender,
              CloseWithoutPhone, NotifyOwner, CloseDismissed, SendNotification,
              LogNotification, SetFinalStatus, ReturnSuccess, ThrowError
<1>3. CASE AdminStep \/ ClearFailed \/ Crash \/ UNCHANGED wvars
  BY <1>0, <1>3 DEF AdminStep, ClearFailed, ClearFailedJobs, Crash, AllLocksExpire, wvars, queueVars
<1> QED BY <1>1, <1>2, <1>3 DEF WNext, WorkerStep

LEMMA MarkedStep ==
  ASSUME WTypeOK, CycleHasMail, MarkedHasJob, [PNext]_pvars
  PROVE  MarkedHasJob'
<1>0. \A e : JobsFor(e) # {} => JobsFor(e)' # {}
  BY StepIsWorkerStep, JobStays DEF CycleHasMail, JobsFor
<1> USE DEF Poller!cycleVars, Poller!EndCycle, Poller!CycleGoto
<1>1. ASSUME inbox' = inbox,
             \A c \in Cycle : cpc'[c] \in {"mark", "skip"} => cpc'[c] = cpc[c] /\ cur'[c] = cur[c]
      PROVE  MarkedHasJob'
  BY <1>0, <1>1 DEF MarkedHasJob
<1>2. ASSUME NEW e \in Email, Poller!ReceiveEmail(e) PROVE MarkedHasJob'
  <2>1. \A f : inbox'[f] = "read" => inbox[f] = "read"
    BY <1>2 DEF Poller!ReceiveEmail, MarkedHasJob
  <2>2. inbox' \in [Email -> {"absent", "unread", "read"}]
    BY <1>2 DEF Poller!ReceiveEmail, MarkedHasJob
  <2> QED BY <1>0, <1>2, <2>1, <2>2 DEF MarkedHasJob, Poller!ReceiveEmail
<1>3. ASSUME NEW c \in Cycle,
             Poller!PollEmails(c) \/ Poller!FetchNewEmails(c) \/ Poller!EnqueueRefused(c)
               \/ Poller!EnqueueUnacknowledged(c)
      PROVE  MarkedHasJob'
  BY <1>1, <1>3 DEF Poller!PollEmails, Poller!FetchNewEmails, Poller!EnqueueRefused,
                    Poller!EnqueueUnacknowledged, Poller!AddJob, CycleHasMail
<1>4. ASSUME NEW c \in Cycle, Poller!NextEmail(c) PROVE MarkedHasJob'
  <2>1. inbox' = inbox /\ \A d \in Cycle : d # c => cpc'[d] = cpc[d] /\ cur'[d] = cur[d]
    BY <1>4 DEF Poller!NextEmail, CycleHasMail
  <2>2. cpc'[c] # "mark" /\ (cpc'[c] = "skip" => cur'[c] \notin Parses)
    BY <1>4 DEF Poller!NextEmail, CycleHasMail
  <2>3. ASSUME NEW d \in Cycle, cpc'[d] = "mark" PROVE JobsFor(cur[d])' # {}
    <3>1. cpc[d] = "mark" /\ cur'[d] = cur[d]
      BY <2>1, <2>2, <2>3
    <3>2. JobsFor(cur[d]) # {}
      BY <3>1 DEF MarkedHasJob
    <3> QED BY <1>0, <3>1, <3>2 DEF JobsFor
  <2>4. \A d \in Cycle : cpc'[d] = "skip" => cur'[d] \notin Parses
    BY <2>1, <2>2 DEF MarkedHasJob
  <2>5. \A e \in Parses : inbox'[e] = "read" => JobsFor(e)' # {}
    BY <1>0, <2>1 DEF MarkedHasJob
  <2> QED BY <2>1, <2>3, <2>4, <2>5 DEF MarkedHasJob
<1>5. ASSUME NEW c \in Cycle, Poller!MarkAsRead(c) PROVE MarkedHasJob'
  <2>1. \A d \in Cycle : cpc'[d] \in {"mark", "skip"} => cpc'[d] = cpc[d] /\ cur'[d] = cur[d]
    BY <1>5 DEF Poller!MarkAsRead, CycleHasMail
  <2>2. \A e \in Parses : inbox'[e] = "read" =>
          inbox[e] = "read" \/ (e = cur[c] /\ cpc[c] \in {"mark", "skip"})
    BY <1>5, PipelineAssumption DEF Poller!MarkAsRead, MarkedHasJob
  <2>3. \A e \in Parses : inbox'[e] = "read" => JobsFor(e) # {}
    BY <2>2 DEF MarkedHasJob
  <2>4. ASSUME NEW d \in Cycle, cpc'[d] = "mark" PROVE JobsFor(cur[d])' # {}
    <3>1. cpc[d] = "mark" /\ cur'[d] = cur[d]
      BY <2>1, <2>4
    <3>2. JobsFor(cur[d]) # {}
      BY <3>1 DEF MarkedHasJob
    <3> QED BY <1>0, <3>1, <3>2 DEF JobsFor
  <2>5. \A d \in Cycle : cpc'[d] = "skip" => cur'[d] \notin Parses
    BY <2>1 DEF MarkedHasJob
  <2>6. \A e \in Parses : inbox'[e] = "read" => JobsFor(e)' # {}
    BY <1>0, <2>3
  <2>7. inbox' \in [Email -> {"absent", "unread", "read"}]
    BY <1>5 DEF Poller!MarkAsRead, MarkedHasJob
  <2> QED BY <2>4, <2>5, <2>6, <2>7 DEF MarkedHasJob
<1>6. ASSUME NEW c \in Cycle, PollerEnqueues(c), Poller!EnqueueAccepted(c) PROVE MarkedHasJob'
  <2>1. PICK j \in Job : Enqueue(j, cur[c])
    BY <1>6 DEF PollerEnqueues
  <2>2. /\ inbox' = inbox /\ cur' = cur
        /\ \A d \in Cycle : d # c => cpc'[d] = cpc[d]
        /\ cpc'[c] = "mark"
    BY <1>6 DEF Poller!EnqueueAccepted, Poller!AddJob, CycleHasMail
  <2>3. j \in JobsFor(cur[c])'
    BY <2>1, <2>2 DEF Enqueue, EnqueueTransaction, JobsFor, WTypeOK, QueueTypeOK
  <2> QED BY <1>0, <2>2, <2>3 DEF MarkedHasJob
<1>7. CASE Poller!Restart
  <2>1. inbox' = inbox /\ \A c \in Cycle : cpc'[c] = "idle"
    BY <1>7 DEF Poller!Restart
  <2> QED BY <1>1, <2>1
<1>8. CASE UNCHANGED <<inbox, cpc, cur>>
  BY <1>1, <1>8
<1>9. CASE Poller!PollerStep
  <2>1. ASSUME NEW c \in Cycle,
               Poller!StartScheduler(c) \/ Poller!TimerFires(c) \/ Poller!CycleStep(c)
        PROVE  MarkedHasJob'
    BY <1>3, <1>4, <1>5, <1>8, <2>1
       DEF Poller!StartScheduler, Poller!TimerFires, Poller!CycleStep
  <2> QED BY <1>2, <1>8, <1>9, <2>1 DEF Poller!PollerStep, Poller!StopScheduler
<1> QED BY <1>3, <1>6, <1>7, <1>8, <1>9
        DEF PNext, pvars, pollerVars, PollerEnqueues, Poller!AddsJob, ProcessDies

\* While the database answers, no payment whose e-mail was marked as read is
\* forgotten, through lost replies, retries, stalls and deaths of the process
\* (pollEmails, enqueueTransaction, processTransaction).
THEOREM NothingForgotten ==
  ASSUME "db" \notin Faults
  PROVE  PSpec => []NothingIsForgotten
<1>1. WSpec => [](WTypeOK /\ ClaimInv /\ AttemptInv)
  BY ClaimCorrect, AttemptedInit, AttemptedStep, PTL DEF WSpec, Attempted
<1>2. PInit => CompletedHasRow /\ MarkedHasJob
  <2> SUFFICES ASSUME PInit PROVE CompletedHasRow /\ MarkedHasJob
    OBVIOUS
  <2>1. CompletedHasRow
    BY DEF PInit, WInit, QueueInit, CompletedHasRow
  <2>2. Parses \subseteq Email
    BY PipelineAssumption
  <2>3. MarkedHasJob
    BY <2>2 DEF PInit, Poller!PollInit, MarkedHasJob
  <2> QED BY <2>1, <2>3
<1>3. CycleHasMail /\ [PNext]_pvars => [WNext]_wvars
  BY StepIsWorkerStep DEF CycleHasMail
<1>4. WTypeOK /\ ClaimInv /\ AttemptInv /\ CompletedHasRow /\ [WNext]_wvars => CompletedHasRow'
  BY CompletedStep
<1>5. WTypeOK /\ CycleHasMail /\ MarkedHasJob /\ [PNext]_pvars => MarkedHasJob'
  BY MarkedStep
<1>6. CompletedHasRow /\ MarkedHasJob => NothingIsForgotten
  BY DEF CompletedHasRow, MarkedHasJob, NothingIsForgotten, JobsFor
<1>7. PSpec => []CycleHasMail
  BY CycleHasMailInit, CycleHasMailStep, PTL DEF PSpec
<1>8. PSpec => []CompletedHasRow
  BY <1>1, <1>2, <1>3, <1>4, <1>7, PipelineIsWorker, PTL DEF PSpec
<1>9. PSpec => []MarkedHasJob
  BY <1>1, <1>2, <1>5, <1>7, PipelineIsWorker, PTL DEF PSpec
<1> QED BY <1>6, <1>8, <1>9, PTL
=============================================================================
