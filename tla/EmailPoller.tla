----------------------------- MODULE EmailPoller -----------------------------
(***************************************************************************)
(* The poll cycle of src/src/scheduler.ts over the Gmail mailbox of        *)
(* src/src/services/email-monitor.service.ts: fetch unread mail, parse it, *)
(* enqueue each payment, mark it as read.                                  *)
(*                                                                         *)
(* A cycle is a call of pollEmails; the timer starts one every 30 seconds  *)
(* whether or not the last has ended, so cycles are processes, one action  *)
(* per await.  Which unread e-mails a list call returns, and in which      *)
(* order, is left open.                                                    *)
(***************************************************************************)
EXTENDS Naturals, FiniteSets

CONSTANTS
  Email,
  Parses,       \* the e-mails for which parserFactory.parse is not null
  Cycle,        \* calls of pollEmails that may be in progress at once
  MaxResults,   \* MAX_RESULTS of a list call
  MaxRepeats,   \* bound: how often an enqueued e-mail may stay unread
  MailFaults,   \* which of the failures below may happen
  NoMail

MailFaultKinds ==
  { "list",      \* messages.list fails: fetchNewEmails throws
    "get",       \* messages.get fails: the e-mail is left out of the batch
    "mark",      \* messages.modify fails: markAsRead swallows the error
    "redis",     \* queue.add fails
    "redis_ack", \* queue.add succeeds and its reply is lost: it throws
    "restart" }  \* the process dies and is started again

ASSUME PollerAssumption ==
  /\ Parses \subseteq Email
  /\ MaxResults \in Nat \ {0}
  /\ MaxRepeats \in Nat
  /\ MailFaults \subseteq MailFaultKinds
  /\ NoMail \notin Email

VARIABLES
  inbox,       \* "absent" (not yet received), "unread", "read"
  running,     \* pollTimer is set
  isPolling,   \* the single-flight flag
  cpc,         \* the await each cycle is about to perform
  batch,       \* the fetched e-mails it has not looked at yet
  cur,         \* the e-mail it is working on
  enqueued,    \* jobs added for each e-mail (ghost)
  unmarked     \* of these, how many left their e-mail unread (ghost)

cycleVars == <<cpc, batch, cur>>
pollVars == <<inbox, running, isPolling, cycleVars, enqueued, unmarked>>

PollTypeOK ==
  /\ inbox \in [Email -> {"absent", "unread", "read"}]
  /\ running \in BOOLEAN
  /\ isPolling \in BOOLEAN
  /\ cpc \in [Cycle -> {"idle", "fetch", "next", "skip", "enqueue", "mark"}]
  /\ batch \in [Cycle -> SUBSET Email]
  /\ cur \in [Cycle -> Email \cup {NoMail}]
  /\ enqueued \in [Email -> Nat]
  /\ unmarked \in [Email -> Nat]
  /\ \A c \in Cycle : cpc[c] \in {"skip", "enqueue", "mark"} => cur[c] \in Email

PollInit ==
  /\ inbox = [e \in Email |-> "absent"]
  /\ running = FALSE
  /\ isPolling = FALSE
  /\ cpc = [c \in Cycle |-> "idle"]
  /\ batch = [c \in Cycle |-> {}]
  /\ cur = [c \in Cycle |-> NoMail]
  /\ enqueued = [e \in Email |-> 0]
  /\ unmarked = [e \in Email |-> 0]

Unread == {e \in Email : inbox[e] = "unread"}

-----------------------------------------------------------------------------
\* A bank sends an e-mail.
ReceiveEmail(e) ==
  /\ inbox[e] = "absent"
  /\ inbox' = [inbox EXCEPT ![e] = "unread"]
  /\ UNCHANGED <<running, isPolling, cycleVars, enqueued, unmarked>>

\* Faulty variants, each named for the mistake; no action uses them.
PollWithoutFlag(c) ==
  /\ cpc[c] = "idle"
  /\ isPolling' = TRUE
  /\ cpc' = [cpc EXCEPT ![c] = "fetch"]
  /\ UNCHANGED <<inbox, batch, cur, enqueued, unmarked>>

\* The entry of pollEmails: a call during another cycle returns at once.
PollEmails(c) ==
  /\ cpc[c] = "idle"
  /\ ~isPolling
  /\ isPolling' = TRUE
  /\ cpc' = [cpc EXCEPT ![c] = "fetch"]
  /\ UNCHANGED <<inbox, batch, cur, enqueued, unmarked>>

\* startScheduler polls at once; a second call is a no-op.
StartScheduler(c) ==
  /\ ~running
  /\ running' = TRUE
  /\ \/ PollEmails(c)
     \/ isPolling /\ UNCHANGED <<inbox, isPolling, cycleVars, enqueued, unmarked>>

TimerFires(c) ==
  /\ running
  /\ PollEmails(c)
  /\ UNCHANGED running

\* stopScheduler clears the timer; a cycle in progress goes on.
StopScheduler ==
  /\ running
  /\ running' = FALSE
  /\ UNCHANGED <<inbox, isPolling, cycleVars, enqueued, unmarked>>

\* Faulty: the early return forgets the flag (no finally block).
EndWithoutFinally(c) ==
  /\ cpc' = [cpc EXCEPT ![c] = "idle"]
  /\ batch' = [batch EXCEPT ![c] = {}]
  /\ cur' = [cur EXCEPT ![c] = NoMail]
  /\ UNCHANGED isPolling

\* The end of a cycle, by return, by exception or at the end of the batch: the
\* finally block.
EndCycle(c) ==
  /\ cpc' = [cpc EXCEPT ![c] = "idle"]
  /\ batch' = [batch EXCEPT ![c] = {}]
  /\ cur' = [cur EXCEPT ![c] = NoMail]
  /\ isPolling' = FALSE

\* fetchNewEmails: up to MaxResults unread e-mails, without those whose details
\* could not be read.
FetchNewEmails(c) ==
  /\ cpc[c] = "fetch"
  /\ \/ \E listed \in SUBSET Unread, got \in SUBSET Unread :
          /\ Cardinality(listed) <= MaxResults
          /\ Cardinality(listed) = MaxResults \/ listed = Unread
          /\ got \subseteq listed
          /\ "get" \in MailFaults \/ got = listed
          /\ IF got = {}
             THEN EndCycle(c)
             ELSE /\ batch' = [batch EXCEPT ![c] = got]
                  /\ cpc' = [cpc EXCEPT ![c] = "next"]
                  /\ UNCHANGED <<cur, isPolling>>
     \/ "list" \in MailFaults /\ EndCycle(c)
  /\ UNCHANGED <<inbox, running, enqueued, unmarked>>

\* Faulty: the current e-mail is not advanced.
NextWithoutCurrent(c) ==
  /\ cpc[c] = "next"
  /\ \/ batch[c] = {} /\ EndCycle(c)
     \/ \E e \in batch[c] :
          /\ batch' = [batch EXCEPT ![c] = @ \ {e}]
          /\ cpc' = [cpc EXCEPT ![c] = IF e \in Parses THEN "enqueue" ELSE "skip"]
          /\ UNCHANGED <<cur, isPolling>>
  /\ UNCHANGED <<inbox, running, enqueued, unmarked>>

\* The head of the loop: parse the next e-mail, or leave the loop.
NextEmail(c) ==
  /\ cpc[c] = "next"
  /\ \/ /\ batch[c] = {}
        /\ EndCycle(c)
     \/ \E e \in batch[c] :
          /\ batch' = [batch EXCEPT ![c] = @ \ {e}]
          /\ cur' = [cur EXCEPT ![c] = e]
          /\ cpc' = [cpc EXCEPT ![c] = IF e \in Parses THEN "enqueue" ELSE "skip"]
          /\ UNCHANGED isPolling
  /\ UNCHANGED <<inbox, running, enqueued, unmarked>>

CycleGoto(c, to) ==
  /\ cpc' = [cpc EXCEPT ![c] = to]
  /\ UNCHANGED <<batch, cur, isPolling, running>>

\* A failure that leaves an enqueued e-mail unread; MaxRepeats bounds them.
LeaveUnread(e) ==
  /\ unmarked[e] < MaxRepeats
  /\ unmarked' = [unmarked EXCEPT ![e] = @ + 1]

AddJob(c) ==
  /\ cpc[c] = "enqueue"
  /\ enqueued' = [enqueued EXCEPT ![cur[c]] = @ + 1]
  /\ UNCHANGED inbox

\* await enqueueTransaction resolves.
EnqueueAccepted(c) == AddJob(c) /\ CycleGoto(c, "mark") /\ UNCHANGED unmarked

\* It rejects although the job was added.
EnqueueUnacknowledged(c) ==
  /\ "redis_ack" \in MailFaults
  /\ AddJob(c)
  /\ LeaveUnread(cur[c])
  /\ CycleGoto(c, "next")

\* Faulty: the catch block marks the e-mail as read all the same.
RefusedButMarked(c) ==
  /\ cpc[c] = "enqueue"
  /\ "redis" \in MailFaults
  /\ inbox' = [inbox EXCEPT ![cur[c]] = "read"]
  /\ CycleGoto(c, "next")
  /\ UNCHANGED <<enqueued, unmarked>>

\* It rejects: the e-mail stays unread for the next cycle.
EnqueueRefused(c) ==
  /\ cpc[c] = "enqueue"
  /\ "redis" \in MailFaults
  /\ CycleGoto(c, "next")
  /\ UNCHANGED <<inbox, enqueued, unmarked>>

\* markAsRead after the enqueue, or for an e-mail no parser understands.
MarkAsRead(c) ==
  /\ cpc[c] \in {"mark", "skip"}
  /\ CycleGoto(c, "next")
  /\ \/ inbox' = [inbox EXCEPT ![cur[c]] = "read"] /\ UNCHANGED unmarked
     \/ /\ "mark" \in MailFaults
        /\ IF cpc[c] = "mark" THEN LeaveUnread(cur[c]) ELSE UNCHANGED unmarked
        /\ UNCHANGED inbox
  /\ UNCHANGED enqueued

\* The process dies: no cycle, no timer, a fresh isPolling.
Restart ==
  LET interrupted == {cur[c] : c \in {d \in Cycle : cpc[d] = "mark"}} IN
  /\ "restart" \in MailFaults
  /\ \A e \in interrupted : unmarked[e] < MaxRepeats
  /\ unmarked' = [e \in Email |->
       IF e \in interrupted THEN unmarked[e] + 1 ELSE unmarked[e]]
  /\ running' = FALSE
  /\ isPolling' = FALSE
  /\ cpc' = [c \in Cycle |-> "idle"]
  /\ batch' = [c \in Cycle |-> {}]
  /\ cur' = [c \in Cycle |-> NoMail]
  /\ UNCHANGED <<inbox, enqueued>>

\* The steps of a cycle that do not touch the queue.
CycleStep(c) ==
  FetchNewEmails(c) \/ NextEmail(c) \/ EnqueueRefused(c) \/ MarkAsRead(c)

AddsJob(c) == EnqueueAccepted(c) \/ EnqueueUnacknowledged(c)

PollerStep ==
  \/ \E e \in Email : ReceiveEmail(e)
  \/ \E c \in Cycle : StartScheduler(c) \/ TimerFires(c) \/ CycleStep(c)
  \/ StopScheduler

PollNext == PollerStep \/ Restart \/ \E c \in Cycle : AddsJob(c)

\* The timer keeps firing while it is set, the service is started, and a cycle
\* in progress is carried on by the event loop.
PollFairness ==
  /\ WF_pollVars(\E c \in Cycle : StartScheduler(c))
  /\ SF_pollVars(\E c \in Cycle : TimerFires(c))
  /\ \A c \in Cycle : WF_pollVars(CycleStep(c) \/ AddsJob(c))

PollSpec == PollInit /\ [][PollNext]_pollVars
PollFairSpec == PollSpec /\ PollFairness

-----------------------------------------------------------------------------
\* isPolling is set exactly while a cycle is in progress, and there is one.
SingleFlight ==
  /\ isPolling <=> \E c \in Cycle : cpc[c] # "idle"
  /\ \A c, d \in Cycle : cpc[c] # "idle" /\ cpc[d] # "idle" => c = d

\* An e-mail that announces a payment is marked as read only after a job for it
\* is in the queue: nothing is lost between the mailbox and Redis, whatever
\* fails or restarts in between (scheduler.ts, "Mark as read immediately after
\* enqueueing").
NoPaymentLost ==
  \A e \in Parses : inbox[e] = "read" => enqueued[e] > 0

\* A payment is enqueued a second time only when a failure left its e-mail
\* unread ("to avoid duplicate processing"): overlapping cycles never do it.
RepeatsAreExplained == \A e \in Email : enqueued[e] <= unmarked[e] + 1

\* The inductive invariant: how the count stands while a cycle is between the
\* enqueue and the mark, and that a batch only holds unread e-mails.
RepeatInv ==
  /\ SingleFlight
  /\ NoPaymentLost
  /\ RepeatsAreExplained
  /\ \A e \in Email :
       inbox[e] # "read" /\ (\A c \in Cycle : cpc[c] = "mark" => cur[c] # e)
         => enqueued[e] = unmarked[e]
  /\ \A c \in Cycle :
       /\ \A e \in batch[c] : inbox[e] = "unread"
       /\ cpc[c] \in {"skip", "enqueue", "mark"} =>
            /\ inbox[cur[c]] = "unread"
            /\ cur[c] \notin batch[c]
            /\ cpc[c] = "skip" <=> cur[c] \notin Parses
       /\ cpc[c] = "mark" => enqueued[cur[c]] = unmarked[cur[c]] + 1
       /\ cpc[c] \in {"idle", "fetch"} => batch[c] = {}

\* Every payment e-mail is eventually enqueued and marked as read, even if replies
\* are lost and marking fails (for a newsletter, forever), as long as Gmail
\* lists, Redis accepts, the scheduler is not left stopped and fewer e-mails than
\* MAX_RESULTS are stuck unread.
EveryPaymentIsRead == \A e \in Parses : inbox[e] = "unread" ~> inbox[e] = "read"
=============================================================================
