------------------------------ MODULE Reminders ------------------------------
(***************************************************************************)
(* sendPaymentReminders (src/src/scheduler.ts), the cron job of 09:00, over *)
(* the records of one month.  Each of its calls is an action: payments,    *)
(* an administrator's edits and the death of the process come between any  *)
(* two of them.  The records a query returned are a copy: the job does not *)
(* look at them again.                                                     *)
(***************************************************************************)
EXTENDS Naturals

CONSTANTS
  Member,
  LastDay,         \* days of the month
  LastDueDay,      \* the latest day a fee may be due (28)
  Ahead,           \* how many days ahead the job looks (3)
  ReminderFaults,  \* which of the failures below may happen
  NoMember

ReminderFaultKinds ==
  { "db",        \* a database call fails
    "whatsapp",  \* the message is not sent: sendNotification returns null
    "crash",     \* the process dies and restarts; the day's run is over
    "cron" }     \* the process is down at 09:00: no run on that day

ASSUME ReminderAssumption ==
  /\ LastDay \in Nat \ {0} /\ LastDueDay \in Nat /\ Ahead \in Nat \ {0}
  /\ ReminderFaults \subseteq ReminderFaultKinds
  /\ NoMember \notin Member

Day == 1 .. LastDay
NoDay == 0

VARIABLES
  today,        \* the clock of the server
  rpc,          \* the call today's run is about to make
  dueDay,       \* the due day its loop has reached
  list,         \* records it has read and not looked at yet, by member
  cur,          \* the member it is reminding
  memberDue,    \* members.due_day
  active,       \* members.is_active
  paidOn,       \* the day the month was paid, NoDay while it is pending
  marked,       \* members whose reminder_sent_at is set
  reminded,     \* reminders the member really received (ghost)
  unrecorded,   \* reminders whose UPDATE was not made (ghost)
  unsent,       \* members a reminder to whom was not sent (ghost)
  disturbed,    \* days whose run was missed or met a failure (ghost)
  edited        \* members an administrator has changed (ghost)

runVars == <<rpc, dueDay, list, cur>>
memberVars == <<memberDue, active, edited>>
remVars == <<today, runVars, memberVars, paidOn, marked, reminded, unrecorded, disturbed, unsent>>

RTypeOK ==
  /\ today \in Day
  /\ rpc \in {"due", "query", "next", "mark", "over"}
  /\ dueDay \in Nat
  /\ list \in SUBSET Member
  /\ cur \in Member \cup {NoMember}
  /\ memberDue \in [Member -> 1 .. LastDueDay]
  /\ active \in SUBSET Member
  /\ paidOn \in [Member -> Day \cup {NoDay}]
  /\ marked \in SUBSET Member
  /\ reminded \in [Member -> Nat]
  /\ unrecorded \in [Member -> Nat]
  /\ unsent \in SUBSET Member
  /\ disturbed \in SUBSET Day
  /\ edited \in SUBSET Member
  /\ rpc = "mark" => cur \in Member

\* generateForMonth has made the records, at 00:05 of the first.
RInit ==
  /\ today = 1
  /\ rpc = "due"
  /\ dueDay = 0
  /\ list = {}
  /\ cur = NoMember
  /\ memberDue \in [Member -> 1 .. LastDueDay]
  /\ active \in SUBSET Member
  /\ paidOn = [m \in Member |-> NoDay]
  /\ marked = {}
  /\ reminded = [m \in Member |-> 0]
  /\ unrecorded = [m \in Member |-> 0]
  /\ unsent = {}
  /\ disturbed = {}
  /\ edited = {}

DbFails == "db" \in ReminderFaults

-----------------------------------------------------------------------------
\* Faulty variants, each named for the mistake; no action uses them.  They show
\* which property would notice the mistake.
RemindersAhead ==
  /\ rpc = "due"
  /\ IF today + Ahead <= LastDueDay
     THEN rpc' = "query" /\ dueDay' = today + Ahead
     ELSE rpc' = "over" /\ UNCHANGED dueDay
  /\ UNCHANGED <<today, list, cur, memberVars, paidOn, marked, reminded, unrecorded, disturbed, unsent>>

\* The run starts with the members due today; there is none after LastDueDay.
SendPaymentReminders ==
  /\ rpc = "due"
  /\ IF today <= LastDueDay
     THEN rpc' = "query" /\ dueDay' = today
     ELSE rpc' = "over" /\ UNCHANGED dueDay
  /\ UNCHANGED <<today, list, cur, memberVars, paidOn, marked, reminded, unrecorded, disturbed, unsent>>

\* Faulty: the WHERE clause forgets reminder_sent_at IS NULL.
FindReminded ==
  /\ rpc = "query"
  /\ rpc' = "next"
  /\ list' = {m \in active : paidOn[m] = NoDay /\ memberDue[m] = dueDay}
  /\ UNCHANGED <<today, dueDay, cur, memberVars, paidOn, marked, reminded, unrecorded, disturbed, unsent>>

\* Faulty: the WHERE clause forgets status = 'pending'.
FindPaid ==
  /\ rpc = "query"
  /\ rpc' = "next"
  /\ list' = {m \in active : m \notin marked /\ memberDue[m] = dueDay}
  /\ UNCHANGED <<today, dueDay, cur, memberVars, paidOn, marked, reminded, unrecorded, disturbed, unsent>>

\* An error reads like an empty result.
FindPendingForReminder ==
  /\ rpc = "query"
  /\ rpc' = "next"
  /\ \/ /\ list' = {m \in active : paidOn[m] = NoDay /\ m \notin marked /\ memberDue[m] = dueDay}
        /\ UNCHANGED disturbed
     \/ /\ DbFails
        /\ list' = {}
        /\ disturbed' = disturbed \cup {today}
  /\ UNCHANGED <<today, dueDay, cur, memberVars, paidOn, marked, reminded, unrecorded, unsent>>

\* Faulty: the loop variable is not set.
SendToNobody(m) ==
  /\ rpc = "next"
  /\ m \in list
  /\ rpc' = "mark"
  /\ list' = list \ {m}
  /\ UNCHANGED <<today, dueDay, cur, memberVars, paidOn, marked, reminded, unrecorded, disturbed, unsent>>

\* sendNotification to the next member of the list, whose result is not looked
\* at.
SendReminder(m) ==
  /\ rpc = "next"
  /\ m \in list
  /\ rpc' = "mark"
  /\ list' = list \ {m}
  /\ cur' = m
  /\ \/ reminded' = [reminded EXCEPT ![m] = @ + 1] /\ UNCHANGED unsent
     \/ "whatsapp" \in ReminderFaults /\ unsent' = unsent \cup {m} /\ UNCHANGED reminded
  /\ UNCHANGED <<today, dueDay, memberVars, paidOn, marked, unrecorded, disturbed>>

\* markReminderSent; an error is caught and the loop goes on.
MarkReminderSent ==
  /\ rpc = "mark"
  /\ rpc' = "next"
  /\ cur' = NoMember
  /\ \/ /\ marked' = marked \cup {cur}
        /\ UNCHANGED <<unrecorded, disturbed>>
     \/ /\ DbFails
        /\ unrecorded' = [unrecorded EXCEPT ![cur] = @ + 1]
        /\ disturbed' = disturbed \cup {today}
        /\ UNCHANGED marked
  /\ UNCHANGED <<today, dueDay, list, memberVars, paidOn, reminded, unsent>>

\* The list is done: the members due in Ahead days come next, then nothing.
NextDueDay ==
  /\ rpc = "next"
  /\ list = {}
  /\ IF dueDay = today /\ today + Ahead <= LastDueDay
     THEN rpc' = "query" /\ dueDay' = today + Ahead
     ELSE rpc' = "over" /\ UNCHANGED dueDay
  /\ UNCHANGED <<today, list, cur, memberVars, paidOn, marked, reminded, unrecorded, disturbed, unsent>>

-----------------------------------------------------------------------------
\* markPaid, by a worker, a link request or a cash payment.
PayMonth(m) ==
  /\ paidOn[m] = NoDay
  /\ paidOn' = [paidOn EXCEPT ![m] = today]
  /\ UNCHANGED <<today, runVars, memberVars, marked, reminded, unrecorded, disturbed, unsent>>

\* PUT /api/members/:id with dueDay or isActive, and DELETE.
EditMember(m) ==
  /\ \/ /\ \E d \in 1 .. LastDueDay : memberDue' = [memberDue EXCEPT ![m] = d]
        /\ UNCHANGED active
     \/ /\ active' \in {active \cup {m}, active \ {m}}
        /\ UNCHANGED memberDue
  /\ edited' = edited \cup {m}
  /\ UNCHANGED <<today, runVars, paidOn, marked, reminded, unrecorded, disturbed, unsent>>

\* A run does not take a day.
NextDay ==
  /\ today < LastDay
  /\ \/ rpc = "over" /\ UNCHANGED disturbed
     \/ rpc = "due" /\ "cron" \in ReminderFaults /\ disturbed' = disturbed \cup {today}
  /\ rpc' = "due"
  /\ today' = today + 1
  /\ UNCHANGED <<dueDay, list, cur, memberVars, paidOn, marked, reminded, unrecorded, unsent>>

\* The process dies during the run, perhaps between the message and the UPDATE.
Crash ==
  /\ "crash" \in ReminderFaults
  /\ rpc \in {"query", "next", "mark"}
  /\ rpc' = "over"
  /\ list' = {}
  /\ cur' = NoMember
  /\ unrecorded' = IF rpc = "mark" THEN [unrecorded EXCEPT ![cur] = @ + 1] ELSE unrecorded
  /\ disturbed' = disturbed \cup {today}
  /\ UNCHANGED <<today, dueDay, memberVars, paidOn, marked, reminded, unsent>>

RNext ==
  \/ SendPaymentReminders \/ FindPendingForReminder \/ MarkReminderSent \/ NextDueDay
  \/ \E m \in Member : SendReminder(m) \/ PayMonth(m) \/ EditMember(m)
  \/ NextDay \/ Crash

RSpec == RInit /\ [][RNext]_remVars

-----------------------------------------------------------------------------
\* A member is reminded of a month a second time only when the UPDATE after an
\* earlier reminder was not made, although the job looks at most members on two
\* days and their due day may be moved between its two queries.
RemindersAreExplained == \A m \in Member : reminded[m] <= unrecorded[m] + 1

\* A member who has paid is not reminded any more, except by the run of the very
\* day of the payment, which may have read the record before.
NoLateReminder ==
  [][\A m \in Member :
       reminded'[m] # reminded[m] => paidOn[m] \in {NoDay, today}]_remVars

\* Nobody is forgotten: when the day a fee was due is over and its run met no
\* failure, the active member whose record is unpaid has been reminded ("members
\* whose due date is today or in 3 days"), unless somebody edited the member or a
\* message was not sent: the job does not look at the null that sendNotification
\* returns, marks the record all the same and never tries again.
EveryoneIsReminded ==
  \A m \in active \ edited :
    paidOn[m] = NoDay /\ memberDue[m] < today /\ memberDue[m] \notin disturbed
      => reminded[m] > 0 \/ m \in unsent

\* In terms of the job's own mark.
EveryoneIsMarked ==
  \A m \in active \ edited :
    paidOn[m] = NoDay /\ memberDue[m] < today /\ memberDue[m] \notin disturbed
      => m \in marked

\* The inductive invariant: the records of the list have no mark and were unpaid
\* this morning, the record at hand has no mark, each reminder is marked,
\* unrecorded or just being recorded, a marked member was sent a message or nearly,
\* and a member due today is marked or still ahead of the run.
RemindInv ==
  /\ \A m \in Member :
       /\ reminded[m] <= unrecorded[m] + 1
       /\ reminded[m] > unrecorded[m] => m \in marked \/ (rpc = "mark" /\ cur = m)
  /\ \A m \in list : m \notin marked /\ m # cur /\ paidOn[m] \in {NoDay, today}
  /\ \A m \in Member : m \in marked \/ (rpc = "mark" /\ cur = m) =>
       reminded[m] > 0 \/ m \in unsent
  /\ IF rpc = "mark" THEN cur \notin marked ELSE cur = NoMember
  /\ rpc \in {"due", "query", "over"} => list = {}
  /\ \A m \in active \ edited :
       rpc # "due" /\ paidOn[m] = NoDay /\ memberDue[m] = today /\ today \notin disturbed =>
         \/ m \in marked \/ m \in list
         \/ rpc = "query" /\ dueDay = today
         \/ rpc = "mark" /\ cur = m
=============================================================================
