--------------------------- MODULE MemberPayments ---------------------------
(***************************************************************************)
(* How a payment reaches the monthly record of a member: Step 2.6 of       *)
(* processTransaction, the administrator's requests on name mappings       *)
(* (api/routes/sinpe-mappings.routes.ts), cash payments                    *)
(* (api/routes/members.routes.ts) and the monthly cron job of scheduler.ts,*)
(* over the tables transactions, sinpe_name_mappings and monthly_records.  *)
(*                                                                         *)
(* A handler is the execution of one transaction or of one request; each   *)
(* of its database calls is an action.  A transaction is executed once:    *)
(* TransactionWorker shows that one execution ever gets past Step 2.  No   *)
(* handler holds a lock or a transaction across two of its statements.     *)
(***************************************************************************)
EXTENDS Naturals

CONSTANTS
  Tx,            \* payments
  Request,       \* administrator's requests that may be in progress at once
  Member, Name,
  NameOf,        \* the normalized senderName of each payment
  DueDay,        \* members.due_day
  LastMonth,     \* bound: the clock stops at the end of this month
  LastDay,       \* days of a month
  MemberFaults,  \* which of the failures below may happen
  Cash, Nobody   \* who pays a record besides a transaction

MemberFaultKinds ==
  { "db",     \* a database call fails; a write may have happened all the same
    "crash",  \* the process dies and restarts
    "cron" }  \* the process is down at 00:05 of the first: no cron run

Handler == Tx \cup Request
Month == 1 .. LastMonth
Date == [month : Month, day : 1 .. LastDay]
NoDate == [month |-> 0, day |-> 0]
NoTarget == [member |-> Nobody, on |-> NoDate]
Unlinked == {"absent", "pending", "ambiguous"}
Paid == {"paid_on_time", "paid_late"}

ASSUME MemberAssumption ==
  /\ NameOf \in [Tx -> Name]
  /\ DueDay \in [Member -> Nat]
  /\ LastMonth \in Nat \ {0} /\ LastDay \in Nat \ {0}
  /\ Tx \cap Request = {}
  /\ Cash \notin Tx /\ Nobody \notin Tx \cup Member /\ Cash # Nobody
  /\ Member \cap Unlinked = {}
  /\ MemberFaults \subseteq MemberFaultKinds

VARIABLES
  now,         \* the clock of the server
  cron,        \* the statement the monthly run is about to make
  paidOn,      \* transactions.transaction_date, NoDate without a row
  mapping,     \* sinpe_name_mappings: no row, unlinked, or the member linked
  active,      \* members.is_active
  status,      \* monthly_records.status by member and month
  paidBy,      \* monthly_records.transaction_id, Cash when paid without one
  hpc,         \* the call each handler is about to make
  target,      \* the member and the date it settles a record with
  current,     \* the transaction a request is working on, or Cash
  todo,        \* transactions the loop of a link request has not reached
  everLinked,  \* all links an administrator has ever made (ghost)
  dropped,     \* payments not credited since the link of their name (ghost)
  unclosed     \* pending records that nobody is going to close (ghost)

clockVars == <<now, cron>>
recordVars == <<status, paidBy>>
handlerVars == <<hpc, target, current, todo>>
adminVars == <<mapping, active, everLinked>>
failedVars == <<dropped, unclosed>>
mvars == <<clockVars, paidOn, recordVars, handlerVars, adminVars, failedVars>>

Calls == {"idle", "done", "lookup", "register", "member", "find", "insert", "pay", "scan", "next"}
Settling == {"find", "insert", "pay"}
Target == [member : Member \cup {Nobody}, on : Date \cup {NoDate}]

MTypeOK ==
  /\ now \in Date
  /\ cron \in {"idle", "overdue", "generate"}
  /\ paidOn \in [Tx -> Date \cup {NoDate}]
  /\ mapping \in [Name -> Member \cup Unlinked]
  /\ active \in SUBSET Member
  /\ status \in [Member \X Month -> {"none", "pending", "overdue"} \cup Paid]
  /\ paidBy \in [Member \X Month -> Tx \cup {Cash, Nobody}]
  /\ hpc \in [Handler -> Calls]
  /\ target \in [Handler -> Target]
  /\ current \in [Request -> Tx \cup {Cash, Nobody}]
  /\ todo \in [Request -> SUBSET Tx]
  /\ everLinked \in SUBSET (Name \X Member)
  /\ dropped \in SUBSET Tx
  /\ unclosed \in SUBSET (Member \X Month)
  /\ \A h \in Handler : hpc[h] \in Settling =>
       target[h] \in [member : Member, on : Date]

\* The month's run is over: members active at the time have a record.
MInit ==
  /\ now = [month |-> 1, day |-> 1]
  /\ cron = "idle"
  /\ paidOn = [t \in Tx |-> NoDate]
  /\ mapping = [n \in Name |-> "absent"]
  /\ active \in SUBSET Member
  /\ status = [r \in Member \X Month |->
                IF r[1] \in active /\ r[2] = 1 THEN "pending" ELSE "none"]
  /\ paidBy = [r \in Member \X Month |-> Nobody]
  /\ hpc = [h \in Handler |-> "idle"]
  /\ target = [h \in Handler |-> NoTarget]
  /\ current = [r \in Request |-> Nobody]
  /\ todo = [r \in Request |-> {}]
  /\ everLinked = {} /\ dropped = {} /\ unclosed = {}

NotAfter(a, b) == a.month < b.month \/ (a.month = b.month /\ a.day <= b.day)

\* isPaidOnTime ? 'paid_on_time' : 'paid_late'
PaidStatus(m, on) == IF on.day <= DueDay[m] THEN "paid_on_time" ELSE "paid_late"

DbFails == "db" \in MemberFaults

RecordOf(h) == <<target[h].member, target[h].on.month>>
PaymentOf(h) == IF h \in Tx THEN h ELSE current[h]

At(h, from) == hpc[h] = from
GoOn(h, to) == hpc' = [hpc EXCEPT ![h] = to] /\ UNCHANGED <<target, current, todo>>

\* A handler forgets its local variables at its end.
Finish(h) ==
  /\ hpc' = [hpc EXCEPT ![h] = IF h \in Tx THEN "done" ELSE "idle"]
  /\ target' = [target EXCEPT ![h] = NoTarget]
  /\ current' = IF h \in Tx THEN current ELSE [current EXCEPT ![h] = Nobody]
  /\ todo' = IF h \in Tx THEN todo ELSE [todo EXCEPT ![h] = {}]

\* What follows the attempt to settle one record: a worker is through with the
\* matching, a link request goes on with its loop, a cash request answers.
AfterRecord(h) ==
  IF h \in Tx \/ current[h] = Cash THEN Finish(h) ELSE GoOn(h, "next")

\* The attempt to credit some payments to m fails.  It matters while their name is
\* linked to m: whoever links it again tries again.
GiveUp(payments, m) ==
  dropped' = dropped \cup {t \in payments \cap Tx :
                              m \in Member /\ mapping[NameOf[t]] = m /\ paidOn[t] # NoDate}
Drop(h) == GiveUp({PaymentOf(h)}, target[h].member)

\* Nobody is going to close these records any more.
LeaveOpen(records) ==
  unclosed' = unclosed \cup {r \in Member \X Month : r \in records /\ status[r] = "pending"}

\* A handler works on payment t, or will get to it, for member m.
UnderWay(t, m) ==
  \/ hpc[t] = "lookup"
  \/ hpc[t] \in {"member"} \cup Settling /\ target[t].member = m
  \/ \E r \in Request :
       /\ target[r].member = m
       /\ t \in todo[r] \/ (current[r] = t /\ hpc[r] \in Settling)

-----------------------------------------------------------------------------
(***************************************************************************)
(* The worker: Steps 2 and 2.6 of processTransaction                       *)
(***************************************************************************)

\* Step 2 has inserted the row of a payment made today or earlier.
PersistTransaction(t) ==
  /\ At(t, "idle")
  /\ \E on \in Date : NotAfter(on, now) /\ paidOn' = [paidOn EXCEPT ![t] = on]
  /\ GoOn(t, "lookup")
  /\ UNCHANGED <<clockVars, recordVars, adminVars, failedVars>>

\* findByName; an error reads like a name that was never seen.
FindByName(t) ==
  LET found == mapping[NameOf[t]] IN
  /\ At(t, "lookup")
  /\ \/ /\ found = "absent" \/ DbFails
        /\ GoOn(t, "register")
        /\ GiveUp({t}, found)
     \/ /\ found \in {"pending", "ambiguous"}
        /\ Finish(t)
        /\ UNCHANGED dropped
     \/ /\ found \in Member
        /\ hpc' = [hpc EXCEPT ![t] = "member"]
        /\ target' = [target EXCEPT ![t].member = found]
        /\ UNCHANGED <<current, todo, dropped>>
  /\ UNCHANGED <<clockVars, paidOn, recordVars, adminVars, unclosed>>

\* Faulty variants, each named for the mistake; no action uses them.  They show
\* which property would notice the mistake.
AutoLinkName(t) ==
  LET n == NameOf[t] IN
  /\ At(t, "register")
  /\ Finish(t)
  /\ \E m \in Member : mapping' = [mapping EXCEPT ![n] = IF @ = "absent" THEN m ELSE @]
  /\ UNCHANGED <<clockVars, paidOn, recordVars, active, everLinked, failedVars>>

\* register: INSERT ... ON CONFLICT leaves the link of an existing row alone.
RegisterName(t) ==
  LET n == NameOf[t] IN
  /\ At(t, "register")
  /\ Finish(t)
  /\ \/ mapping' = [mapping EXCEPT ![n] = IF @ = "absent" THEN "pending" ELSE @]
     \/ DbFails /\ UNCHANGED mapping
  /\ UNCHANGED <<clockVars, paidOn, recordVars, active, everLinked, failedVars>>

\* Faulty: the month of the payment with the day of the clock.
MixedClocks(t) ==
  /\ At(t, "member")
  /\ hpc' = [hpc EXCEPT ![t] = "find"]
  /\ target' = [target EXCEPT ![t].on = [month |-> paidOn[t].month, day |-> now.day]]
  /\ UNCHANGED <<current, todo, clockVars, paidOn, recordVars, adminVars, failedVars>>

\* Faulty: the date is never set.
MemberWithoutDate(t) ==
  /\ At(t, "member")
  /\ GoOn(t, "find")
  /\ UNCHANGED <<clockVars, paidOn, recordVars, adminVars, failedVars>>

\* memberRepo.findById finds inactive members too.  The month settled is that of
\* the server's clock, not of the payment.
FindMember(t) ==
  /\ At(t, "member")
  /\ \/ /\ hpc' = [hpc EXCEPT ![t] = "find"]
        /\ target' = [target EXCEPT ![t].on = now]
        /\ UNCHANGED <<current, todo, dropped>>
     \/ DbFails /\ Finish(t) /\ Drop(t)
  /\ UNCHANGED <<clockVars, paidOn, recordVars, adminVars, unclosed>>

-----------------------------------------------------------------------------
(***************************************************************************)
(* Settling a record: findOrCreate, then markPaid (worker and link request)*)
(***************************************************************************)

\* findOrCreate, first half: findByMemberAndPeriod turns an error into null.
FindRecord(h) ==
  LET found == status[RecordOf(h)] IN
  /\ At(h, "find")
  /\ \/ /\ found = "none" \/ DbFails
        /\ GoOn(h, "insert")
     \/ /\ found = "pending"
        /\ GoOn(h, "pay")
     \/ /\ found \in Paid \cup {"overdue"}
        /\ AfterRecord(h)
  /\ UNCHANGED <<clockVars, paidOn, recordVars, adminVars, failedVars>>

\* findOrCreate, second half: the INSERT has no ON CONFLICT clause, and the
\* callers turn the unique violation into "no record".
InsertRecord(h) ==
  LET r == RecordOf(h) IN
  /\ At(h, "insert")
  /\ \/ /\ status[r] = "none"
        /\ status' = [status EXCEPT ![r] = "pending"]
        /\ \/ GoOn(h, "pay") /\ UNCHANGED failedVars
           \/ DbFails /\ AfterRecord(h) /\ Drop(h) /\ unclosed' = unclosed \cup {r}
     \/ /\ status[r] # "none" \/ DbFails
        /\ AfterRecord(h)
        /\ IF status[r] \in {"none", "pending"} THEN Drop(h) ELSE UNCHANGED dropped
        /\ UNCHANGED <<status, unclosed>>
  /\ UNCHANGED <<clockVars, paidOn, paidBy, adminVars>>

\* markPaid: the UPDATE does not look at the status it replaces.
MarkPaid(h) ==
  LET r == RecordOf(h) IN
  /\ At(h, "pay")
  /\ AfterRecord(h)
  /\ \/ /\ status' = [status EXCEPT ![r] = PaidStatus(target[h].member, target[h].on)]
        /\ paidBy' = [paidBy EXCEPT ![r] = PaymentOf(h)]
        /\ UNCHANGED dropped
        /\ unclosed' = unclosed \ {r}
     \/ DbFails /\ Drop(h) /\ LeaveOpen({r}) /\ UNCHANGED recordVars
  /\ UNCHANGED <<clockVars, paidOn, adminVars>>

SettleStep(h) == FindRecord(h) \/ InsertRecord(h) \/ MarkPaid(h)

WorkerStep(t) ==
  PersistTransaction(t) \/ FindByName(t) \/ RegisterName(t) \/ FindMember(t)

-----------------------------------------------------------------------------
(***************************************************************************)
(* The administrator's requests                                            *)
(***************************************************************************)

\* POST /:id/link, up to the UPDATE.  When the answer is lost, linkToMember
\* returns null and the request ends with 404.
LinkName(r, n, m) ==
  /\ At(r, "idle")
  /\ mapping[n] # "absent"
  /\ mapping' = [mapping EXCEPT ![n] = m]
  /\ everLinked' = everLinked \cup {<<n, m>>}
  /\ \/ /\ hpc' = [hpc EXCEPT ![r] = "scan"]
        /\ target' = [target EXCEPT ![r].member = m]
        /\ todo' = [todo EXCEPT ![r] = {t \in Tx : NameOf[t] = n}]
        /\ dropped' = {t \in dropped : NameOf[t] # n}
        /\ UNCHANGED current
     \/ /\ DbFails
        /\ dropped' = dropped \cup {t \in Tx : NameOf[t] = n /\ paidOn[t] # NoDate}
        /\ UNCHANGED handlerVars
  /\ UNCHANGED <<clockVars, paidOn, recordVars, active, unclosed>>

\* findBySenderName: of the transactions with the name, those with a row; an
\* error reads like an empty result.
FindBySenderName(r) ==
  /\ At(r, "scan")
  /\ hpc' = [hpc EXCEPT ![r] = "next"]
  /\ \/ todo' = [todo EXCEPT ![r] = {t \in @ : paidOn[t] # NoDate}] /\ UNCHANGED dropped
     \/ /\ DbFails
        /\ todo' = [todo EXCEPT ![r] = {}]
        /\ GiveUp(todo[r], target[r].member)
  /\ UNCHANGED <<clockVars, paidOn, recordVars, target, current, adminVars, unclosed>>

\* Faulty: the loop ends after its first transaction.
OnlyFirstTransaction(r) ==
  /\ At(r, "next")
  /\ \/ todo[r] = {} /\ Finish(r)
     \/ \E t \in todo[r] :
          /\ \A u \in todo[r] : NotAfter(paidOn[t], paidOn[u])
          /\ hpc' = [hpc EXCEPT ![r] = "find"]
          /\ target' = [target EXCEPT ![r].on = paidOn[t]]
          /\ current' = [current EXCEPT ![r] = t]
          /\ todo' = [todo EXCEPT ![r] = {}]
  /\ UNCHANGED <<clockVars, paidOn, recordVars, adminVars, failedVars>>

\* The loop over the transactions, the oldest first.  The month settled is that
\* of the payment.
NextTransaction(r) ==
  /\ At(r, "next")
  /\ \/ todo[r] = {} /\ Finish(r)
     \/ \E t \in todo[r] :
          /\ \A u \in todo[r] : NotAfter(paidOn[t], paidOn[u])
          /\ hpc' = [hpc EXCEPT ![r] = "find"]
          /\ target' = [target EXCEPT ![r].on = paidOn[t]]
          /\ current' = [current EXCEPT ![r] = t]
          /\ todo' = [todo EXCEPT ![r] = @ \ {t}]
  /\ UNCHANGED <<clockVars, paidOn, recordVars, adminVars, failedVars>>

\* POST /:id/records/:recordId/pay, up to the check of the status.  Only the day
\* of the month is compared with the due day, whatever month the record is for.
PayCash(r, m, p) ==
  /\ At(r, "idle")
  /\ status[<<m, p>>] \in {"pending", "overdue"}
  /\ hpc' = [hpc EXCEPT ![r] = "pay"]
  /\ target' = [target EXCEPT ![r] = [member |-> m, on |-> [month |-> p, day |-> now.day]]]
  /\ current' = [current EXCEPT ![r] = Cash]
  /\ UNCHANGED <<clockVars, paidOn, recordVars, todo, adminVars, failedVars>>

\* ambiguous, revert (which does not ask whether the name was ambiguous), delete.
ChangeMapping(n) ==
  /\ mapping[n] # "absent"
  /\ \E to \in Unlinked : mapping' = [mapping EXCEPT ![n] = to]
  /\ dropped' = {t \in dropped : NameOf[t] # n}
  /\ UNCHANGED <<clockVars, paidOn, recordVars, handlerVars, active, everLinked, unclosed>>

\* PUT /api/members/:id with isActive, and DELETE.
SetActive(m) ==
  /\ active' = IF m \in active THEN active \ {m} ELSE active \cup {m}
  /\ UNCHANGED <<clockVars, paidOn, recordVars, handlerVars, mapping, everLinked, failedVars>>

AdminStep ==
  \/ \E r \in Request :
       \/ FindBySenderName(r) \/ NextTransaction(r)
       \/ \E m \in Member :
            (\E n \in Name : LinkName(r, n, m)) \/ (\E p \in Month : PayCash(r, m, p))
  \/ \E n \in Name : ChangeMapping(n)
  \/ \E m \in Member : SetActive(m)

-----------------------------------------------------------------------------
(***************************************************************************)
(* The clock and the cron job generateMonthlyRecords                       *)
(***************************************************************************)

\* A run does not take a month.  Between midnight and 00:05 the new month has
\* begun and the run has not.
Tick ==
  /\ \/ /\ now.day < LastDay
        /\ now' = [now EXCEPT !.day = @ + 1]
        /\ UNCHANGED <<cron, unclosed>>
     \/ /\ now.day = LastDay /\ now.month < LastMonth
        /\ cron = "idle"
        /\ now' = [month |-> now.month + 1, day |-> 1]
        /\ \/ cron' = "overdue" /\ UNCHANGED unclosed
           \/ "cron" \in MemberFaults /\ LeaveOpen(Member \X {now.month}) /\ UNCHANGED cron
  /\ UNCHANGED <<paidOn, recordVars, handlerVars, adminVars, dropped>>

\* Faulty: the WHERE clause forgets status = 'pending'.
OverdueWhatever ==
  /\ cron = "overdue"
  /\ cron' = "generate"
  /\ status' = [r \in Member \X Month |->
       IF r[2] = now.month - 1 /\ status[r] # "none" THEN "overdue" ELSE status[r]]
  /\ UNCHANGED <<now, paidOn, paidBy, handlerVars, adminVars, failedVars>>

\* Faulty: the current month instead of the previous one.
OverdueThisMonth ==
  /\ cron = "overdue"
  /\ cron' = "generate"
  /\ status' = [r \in Member \X Month |->
       IF r[2] = now.month /\ status[r] = "pending" THEN "overdue" ELSE status[r]]
  /\ UNCHANGED <<now, paidOn, paidBy, handlerVars, adminVars, failedVars>>

\* markOverdue(prevMonth, prevYear).
MarkOverdue ==
  /\ cron = "overdue"
  /\ cron' = "generate"
  /\ \/ /\ status' = [r \in Member \X Month |->
             IF r[2] = now.month - 1 /\ status[r] = "pending" THEN "overdue" ELSE status[r]]
        /\ unclosed' = {r \in unclosed : r[2] # now.month - 1}
     \/ DbFails /\ LeaveOpen(Member \X {now.month - 1}) /\ UNCHANGED status
  /\ UNCHANGED <<now, paidOn, paidBy, handlerVars, adminVars, dropped>>

\* generateForMonth(month, year), ON CONFLICT DO NOTHING.
GenerateForMonth ==
  /\ cron = "generate"
  /\ cron' = "idle"
  /\ \/ status' = [r \in Member \X Month |->
          IF r[1] \in active /\ r[2] = now.month /\ status[r] = "none"
          THEN "pending" ELSE status[r]]
     \/ DbFails /\ UNCHANGED status
  /\ UNCHANGED <<now, paidOn, paidBy, handlerVars, adminVars, failedVars>>

\* The process dies.  The job of an interrupted transaction is retried, and ends
\* as a duplicate of its own row.
Crash ==
  /\ "crash" \in MemberFaults
  /\ cron' = "idle"
  /\ dropped' = dropped \cup {t \in Tx :
       mapping[NameOf[t]] \in Member /\ UnderWay(t, mapping[NameOf[t]]) /\ paidOn[t] # NoDate}
  /\ LeaveOpen({RecordOf(h) : h \in {g \in Handler : At(g, "pay")}}
               \cup (IF cron = "overdue" THEN Member \X {now.month - 1} ELSE {}))
  /\ hpc' = [h \in Handler |->
       IF h \in Request \/ hpc[h] = "idle" THEN "idle" ELSE "done"]
  /\ target' = [h \in Handler |-> NoTarget]
  /\ current' = [r \in Request |-> Nobody]
  /\ todo' = [r \in Request |-> {}]
  /\ UNCHANGED <<now, paidOn, recordVars, adminVars>>

MNext ==
  \/ \E t \in Tx : WorkerStep(t)
  \/ \E h \in Handler : SettleStep(h)
  \/ AdminStep
  \/ Tick \/ MarkOverdue \/ GenerateForMonth \/ Crash

MSpec == MInit /\ [][MNext]_mvars

-----------------------------------------------------------------------------
\* A paid month never becomes unpaid again, and a record never disappears:
\* neither the cron job (markOverdue, generateForMonth) nor a handler that works
\* with an old answer takes back what another one has settled.
PaidStaysPaid ==
  [][\A r \in Member \X Month :
       /\ status[r] \in Paid => status'[r] \in Paid
       /\ status[r] # "none" => status'[r] # "none"]_mvars

\* A transaction pays only for a member its sender's name was linked to by hand,
\* and never for a month before the payment was made (Step 2.6, "Only names that
\* have been manually linked by the admin auto-process").
CreditIsLegitimate ==
  \A m \in Member, p \in Month, t \in Tx :
    paidBy[<<m, p>>] = t =>
      /\ <<NameOf[t], m>> \in everLinked
      /\ paidOn[t] # NoDate /\ paidOn[t].month <= p

\* A month that a transaction has paid "on time" was paid by the due day of that
\* month, although the worker judges by its own clock and a link request by the
\* date of the payment.
OnTimeIsOnTime ==
  \A m \in Member, p \in Month, t \in Tx :
    paidBy[<<m, p>>] = t /\ status[<<m, p>>] = "paid_on_time" =>
      NotAfter(paidOn[t], [month |-> p, day |-> DueDay[m]])

\* No payment slips between the worker and a link request: the worker inserts the
\* row before it reads the mapping and the request writes the mapping before it
\* reads the rows.  Unless a call failed, the process died or another INSERT of
\* the record came first, a payment whose name is linked and on which nobody works
\* any more has paid a month of the member, its own or a later one, or found it
\* paid or overdue.  Linking the name once more makes up for what failed.
LinkedPaymentIsCredited ==
  \A t \in Tx, m \in Member :
    paidOn[t] # NoDate /\ mapping[NameOf[t]] = m =>
      \/ UnderWay(t, m)
      \/ t \in dropped
      \/ \E p \in Month : paidOn[t].month <= p /\ status[<<m, p>>] \in Paid \cup {"overdue"}

\* The cron job closes a month exactly once: no record of the running month is
\* overdue, and after the run no record of an earlier one is pending, unless a
\* handler is just about to pay it, the run was missed, or the call that should
\* have closed or paid it failed.
MonthsCloseOnTime ==
  \A m \in Member, p \in Month :
    /\ status[<<m, p>>] = "overdue" => p < now.month
    /\ status[<<m, p>>] = "pending" /\ p < now.month =>
         \/ cron = "overdue" /\ p = now.month - 1
         \/ \E h \in Handler : At(h, "pay") /\ RecordOf(h) = <<m, p>>
         \/ <<m, p>> \in unclosed

(***************************************************************************)
(* The inductive invariant behind CreditIsLegitimate and OnTimeIsOnTime    *)
(***************************************************************************)

\* Payment t may be credited to m as of a date: its name was linked to m at some
\* time, and it has been made by that date.
MayCredit(t, m, on) ==
  <<NameOf[t], m>> \in everLinked /\ paidOn[t] # NoDate /\ NotAfter(paidOn[t], on)

\* What a worker knows about its payment.
WorkerKnows(t) ==
  /\ hpc[t] = "idle" <=> paidOn[t] = NoDate
  /\ paidOn[t] # NoDate => NotAfter(paidOn[t], now)
  /\ hpc[t] = "member" => <<NameOf[t], target[t].member>> \in everLinked
  /\ hpc[t] \in Settling => MayCredit(t, target[t].member, target[t].on)

\* What a link request knows about the payments it has read and the one at hand.
RequestKnows(r) ==
  /\ hpc[r] = "idle" => todo[r] = {}
  /\ hpc[r] \in {"scan", "next"} => target[r].member \in Member
  /\ \A t \in todo[r] : <<NameOf[t], target[r].member>> \in everLinked
  /\ hpc[r] # "scan" => \A t \in todo[r] : paidOn[t] # NoDate
  /\ hpc[r] \in Settling /\ current[r] \in Tx =>
       MayCredit(current[r], target[r].member, target[r].on)
  /\ hpc[r] \in Settling /\ current[r] = Cash => todo[r] = {}

\* Whatever a handler has read, and however old it is, justifies what it is about
\* to write: a link that existed, a payment that exists (Step 2.6 and POST
\* /:id/link, which look at neither again before markPaid).
MatchInv ==
  /\ \A n \in Name : mapping[n] \in Member => <<n, mapping[n]>> \in everLinked
  /\ \A t \in Tx : WorkerKnows(t)
  /\ \A r \in Request : RequestKnows(r)
=============================================================================
