-------------------------- MODULE EmailPollerProofs --------------------------
(***************************************************************************)
(* Theorems about EmailPoller for every mailbox, every number of           *)
(* concurrent calls of pollEmails and every set of failures.               *)
(***************************************************************************)
EXTENDS EmailPoller, TLAPS

USE PollerAssumption

LEMMA PollTypeInit == PollInit => PollTypeOK
<1> SUFFICES ASSUME PollInit PROVE PollTypeOK
  OBVIOUS
<1>1. batch \in [Cycle -> SUBSET Email]
  BY DEF PollInit
<1> QED BY <1>1 DEF PollInit, PollTypeOK

LEMMA PollTypeStep == PollTypeOK /\ [PollNext]_pollVars => PollTypeOK'
<1> SUFFICES ASSUME PollTypeOK, [PollNext]_pollVars PROVE PollTypeOK'
  OBVIOUS
<1> USE DEF PollTypeOK, cycleVars, EndCycle, CycleGoto, AddJob, LeaveUnread, Unread
<1>1. CASE UNCHANGED pollVars
  BY <1>1 DEF pollVars
<1>2. ASSUME NEW e \in Email, ReceiveEmail(e) PROVE PollTypeOK'
  BY <1>2 DEF ReceiveEmail
<1>3. ASSUME NEW c \in Cycle, StartScheduler(c) \/ TimerFires(c) PROVE PollTypeOK'
  BY <1>3 DEF StartScheduler, TimerFires, PollEmails
<1>4. ASSUME NEW c \in Cycle, FetchNewEmails(c) PROVE PollTypeOK'
  <2>1. /\ batch' \in [Cycle -> SUBSET Email]
        /\ cpc' \in [Cycle -> {"idle", "fetch", "next", "skip", "enqueue", "mark"}]
        /\ cur' \in [Cycle -> Email \cup {NoMail}]
    BY <1>4 DEF FetchNewEmails
  <2>2. \A d \in Cycle : cpc'[d] \in {"skip", "enqueue", "mark"} => cur'[d] \in Email
    BY <1>4 DEF FetchNewEmails
  <2>3. isPolling' \in BOOLEAN
    BY <1>4 DEF FetchNewEmails
  <2> QED BY <1>4, <2>1, <2>2, <2>3 DEF FetchNewEmails
<1>5. ASSUME NEW c \in Cycle, NextEmail(c) PROVE PollTypeOK'
  <2>1. batch' \in [Cycle -> SUBSET Email]
    BY <1>5 DEF NextEmail
  <2>2. /\ cpc' \in [Cycle -> {"idle", "fetch", "next", "skip", "enqueue", "mark"}]
        /\ cur' \in [Cycle -> Email \cup {NoMail}]
    BY <1>5 DEF NextEmail
  <2>3. \A d \in Cycle : cpc'[d] \in {"skip", "enqueue", "mark"} => cur'[d] \in Email
    BY <1>5 DEF NextEmail
  <2>4. isPolling' \in BOOLEAN
    BY <1>5 DEF NextEmail
  <2> QED BY <1>5, <2>1, <2>2, <2>3, <2>4 DEF NextEmail
<1>6. ASSUME NEW c \in Cycle, EnqueueRefused(c) PROVE PollTypeOK'
  BY <1>6 DEF EnqueueRefused
<1>7. ASSUME NEW c \in Cycle, MarkAsRead(c) PROVE PollTypeOK'
  BY <1>7 DEF MarkAsRead
<1>8. ASSUME NEW c \in Cycle, AddsJob(c) PROVE PollTypeOK'
  BY <1>8 DEF AddsJob, EnqueueAccepted, EnqueueUnacknowledged
<1>9. CASE StopScheduler
  BY <1>9 DEF StopScheduler
<1>10. CASE Restart
  <2>1. batch' \in [Cycle -> SUBSET Email] /\ unmarked' \in [Email -> Nat]
    BY <1>10 DEF Restart
  <2> QED BY <1>10, <2>1 DEF Restart
<1> QED BY <1>1, <1>2, <1>3, <1>4, <1>5, <1>6, <1>7, <1>8, <1>9, <1>10
        DEF PollNext, PollerStep, CycleStep

THEOREM PollTypeCorrect == PollSpec => []PollTypeOK
  BY PollTypeInit, PollTypeStep, PTL DEF PollSpec

(***************************************************************************)
(* Single flight, and the count of enqueues                                *)
(***************************************************************************)
LEMMA RepeatInit == PollInit => RepeatInv
  BY DEF PollInit, RepeatInv, SingleFlight, NoPaymentLost, RepeatsAreExplained

\* Outside of the cycle in progress nothing happens to any cycle.
LEMMA OthersIdle ==
  ASSUME RepeatInv, NEW c \in Cycle, cpc[c] # "idle"
  PROVE  \A d \in Cycle : d # c => cpc[d] = "idle"
  BY DEF RepeatInv, SingleFlight

LEMMA RepeatCycleStep ==
  ASSUME PollTypeOK, RepeatInv, NEW c \in Cycle, CycleStep(c) \/ AddsJob(c)
  PROVE  RepeatInv'
<1> USE DEF RepeatInv, SingleFlight, NoPaymentLost, RepeatsAreExplained, PollTypeOK,
            CycleGoto, EndCycle
<1>0. cpc[c] # "idle" => \A d \in Cycle : d # c => cpc[d] = "idle"
  BY OthersIdle
<1>1. CASE FetchNewEmails(c)
  BY <1>0, <1>1 DEF FetchNewEmails, Unread
<1>2. CASE NextEmail(c)
  BY <1>0, <1>2 DEF NextEmail
<1>3. CASE EnqueueRefused(c)
  BY <1>0, <1>3 DEF EnqueueRefused
<1>4. CASE MarkAsRead(c)
  BY <1>0, <1>4 DEF MarkAsRead, LeaveUnread
<1>5. CASE EnqueueAccepted(c)
  BY <1>0, <1>5 DEF EnqueueAccepted, AddJob
<1>6. CASE EnqueueUnacknowledged(c)
  BY <1>0, <1>6 DEF EnqueueUnacknowledged, AddJob, LeaveUnread
<1> QED BY <1>1, <1>2, <1>3, <1>4, <1>5, <1>6 DEF CycleStep, AddsJob

LEMMA RepeatStep == PollTypeOK /\ RepeatInv /\ [PollNext]_pollVars => RepeatInv'
<1> SUFFICES ASSUME PollTypeOK, RepeatInv, [PollNext]_pollVars PROVE RepeatInv'
  OBVIOUS
<1> USE DEF RepeatInv, SingleFlight, NoPaymentLost, RepeatsAreExplained, PollTypeOK,
            cycleVars
<1>1. CASE UNCHANGED pollVars
  BY <1>1 DEF pollVars
<1>2. ASSUME NEW e \in Email, ReceiveEmail(e) PROVE RepeatInv'
  BY <1>2 DEF ReceiveEmail
<1>3. ASSUME NEW c \in Cycle, PollEmails(c) PROVE RepeatInv'
  BY <1>3 DEF PollEmails
<1>4. CASE UNCHANGED <<inbox, isPolling, cycleVars, enqueued, unmarked>>
  BY <1>4
<1>5. CASE Restart
  BY <1>5 DEF Restart
<1> QED BY <1>1, <1>2, <1>3, <1>4, <1>5, RepeatCycleStep
        DEF PollNext, PollerStep, StartScheduler, TimerFires, StopScheduler

\* One cycle at a time, no payment lost between the mailbox and the queue, and
\* no second enqueue without a failure.
THEOREM PollerCorrect ==
  PollSpec => [](SingleFlight /\ NoPaymentLost /\ RepeatsAreExplained)
<1>1. PollSpec => []RepeatInv
  BY PollTypeInit, PollTypeStep, RepeatInit, RepeatStep, PTL DEF PollSpec
<1> QED BY <1>1, PTL DEF RepeatInv

\* A payment e-mail is marked as read only after a job for it is in the queue,
\* whatever fails or restarts in between (pollEmails).
THEOREM PaymentKept == PollSpec => []NoPaymentLost
BY PollerCorrect, PTL
=============================================================================
