# Verification of payment-notifier

`payment-notifier` watches a mailbox for the e-mails with which Costa Rican
banks announce SINPE Móvil payments, records each payment once, confirms it to
its sender over WhatsApp, and credits it to the monthly fee of a member. This
directory holds TLA+ models of that program, their TLC runs and the TLAPS proofs
about them. Source paths below are relative to `src/` of the project directory,
e.g. `src/scheduler.ts` is `src/src/scheduler.ts` in the tree.

```
 banks ──► Gmail ──► poll cycle ──► BullMQ queue ──► worker slot ──► WhatsApp
                     (scheduler)    (Redis)          │   │
                                                     │   └─► transactions, users,
                                                     │       notification_logs
                          administrator's requests ──┼─► sinpe_name_mappings,
                          monthly cron run ──────────┘   monthly_records
```

## 1. Inventory

| Component | State it keeps | Operations | What makes it correct |
|---|---|---|---|
| **Transaction queue** (`queues/transaction.queue.ts`, BullMQ) | each job's set (waiting, active, delayed, completed, failed), its attempts, its lock | enqueue, take, complete, fail with back-off, stalled check, clear failed | every job ends; only what the configuration says reaches the dead letters |
| **Transaction worker** (`queues/workers/transaction.worker.ts`) | locals of up to three executions; rows of `transactions`, `notification_logs`, `users` | deduplicate, insert, match a member, resolve the sender, notify, log, set the status, throw for a retry | one confirmation per payment whatever is repeated; statuses and logs tell the truth; nothing stays half done |
| **Email poller** (`scheduler.ts`, `services/email-monitor.service.ts`) | `isPolling`, `pollTimer`, the batch; the read/unread labels | fetch, parse, enqueue, mark as read, start, stop | no payment lost between mailbox and queue, none enqueued twice without a cause, polling never stops for good |
| **Member payments** (Step 2.6 of the worker, `sinpe-mappings.routes.ts`, `members.routes.ts`, the monthly cron run) | `sinpe_name_mappings`, `monthly_records`, `members.is_active` | register and look up a name, link, mark ambiguous, revert, delete, find or create a record, pay, close the month, open the next | a payment credits only members it was linked to by hand, a paid month stays paid, no payment slips between worker and link request |
| **Payment reminders** (`scheduler.ts:112-157`) | `reminder_sent_at` | daily run: find pending records due today or in three days, send, mark as sent | each member is reminded once, and only of a month that is not paid |
| **SINPE senders** (`sinpe-senders.routes.ts`, `user.repository.ts`) | `users.status` | create, link, dismiss, revert | dismissed senders are not notified |
| **Dashboard** (`dashboard.routes.ts`) | what each open page shows, the requests its handler is at; `users.full_name` | open the page, submit the form, give a request up; `register-sender`: find, upsert the sender, send, log, answer | one message for each registration; a success on the screen is worth something; no name is replaced |
| **Notification log and webhooks** | delivery status of each message | entry of the worker, delivery events | the status follows the message's history |
| **WhatsApp service** | a rate limiter per instance | send a template | never throws; limits hold |
| **Bank parsers** (`parsers/`) | none | choose a parser; extract amount, currency, reference, date, phone, name | what the mailbox search finds is parsed by its bank's parser, and each value is the one the e-mail states |
| **Migrations** (`database/migrate.ts`) | `migration_history`, the schema | split the pending files into statements, apply and record them | what is recorded is applied; production does not run on half a schema |
| **Server life cycle** (`server.ts`) | connections, worker, queue, timer | start, shut down on a signal, end, start again | a shutdown interrupts no job and comes about; no end loses an e-mail |
| **User API** (`users.routes.ts`) | `users` | create, update, deactivate | it leaves the worker and the page their rows |
| **Reports, authentication, other utilities** | none of their own | reads, string functions | not modelled, see §5 |

How they interact: the poller and the worker live in one Node process and share
nothing but the queue (`enqueueTransaction`). The worker, the administrator's
requests and the cron job share PostgreSQL; **no handler ever opens a database
transaction**, so any two statements of one handler can be separated by those of
another. BullMQ delivers a job at least once: a lock that expires hands the job
to a second slot while the first carries on.

What is hard here: two e-mails of one payment processed at once; lost replies of
Redis, PostgreSQL and WhatsApp; a crash between two awaits; retries of what was
already done; a timer that outlives its interval; a link request that races the
worker; a change of month between two statements; a page that gives up a request
whose handler goes on. `PROJECT.json` lists each of
these hazards at its line, with the properties that watch it.

## 2. Modules and how they correspond to the code

| Module | Models | Composition |
|---|---|---|
| `JobQueue` | the BullMQ queue as configured (3 attempts, back-off, `maxStalledCount`), one action per transition | |
| `TransactionWorker` | `processTransaction`: **one action per await**, run by `Slot`s | extends `JobQueue` |
| `NotifyOnce` | what the pipeline promises for each payment: claimed, notified, settled, each at most once | refined by `TransactionWorker` and `Pipeline` |
| `EmailPoller` | `pollEmails`, `startScheduler`, `stopScheduler` over the mailbox; overlapping calls are processes (`Cycle`) | |
| `Pipeline` | mailbox → poller → queue → worker → WhatsApp, in one process that dies as a whole | extends `TransactionWorker`, instantiates `EmailPoller` |
| `MemberPayments` | Step 2.6 and the requests and cron run that share its tables: **one action per database call** | stands beside `TransactionWorker`, whose `MatchMember` is this module's worker collapsed to a step |
| `Dashboard` | the script of the dashboard's page, `register-sender` with **one action per await**, the user API's writes | extends `TransactionWorker`: pages, worker and queue in one process |
| `Reminders` | `sendPaymentReminders`, one action per call, over the records of one month; payments, edits of members and crashes come in between | |
| `BankEmails` | the parsers: a text is a sequence of labelled pieces about one payment, a pattern is the set of labels it knows | what it returns is a constant (`Parses`, `PaymentOf`, `PhoneOf`) of the modules above |
| `Migrations` | `runMigrations`: one action per statement and per row of the history | |
| `Server` | `startServer`, `gracefulShutdown`, ends and restarts of the process, over a poller and a worker no finer than starting and stopping needs | extends `Migrations` |
| `*Proofs` | the theorems | extend the modules they are about |
| `MC*` | constants, symmetry for TLC | extend the modules they instantiate |

State:

* A slot's position in `processTransaction` is `pc[s]`: `dedup` (Step 1,
  `isDuplicate`), `persist` (Step 2, `create`), `match` (Step 2.6), `resolve`,
  `no_phone`, `owner`, `dismissed` (Step 3), `send` (Step 4), `log` (Step 5),
  `status` (Step 6), `return` and `throw`. `messageId[s]` is
  `whatsappMessageId !== null`.
* A table is a function: `row` is `transactions.status` by `dedup_hash` (unique
  index, `002_create_transactions.sql`), `sender` is `users.status` by
  `phone_hash`, `rowPhone` is `transactions.sender_phone`, `mapping` is `sinpe_name_mappings` by name, `status` is
  `monthly_records.status` by member and month (unique).
* Two e-mails announce one payment when `PaymentOf` maps them to one hash. Whether
  an e-mail parses is `Parses`; its phone is `PhoneOf`. These constants are what
  the parsers return; the models quantify over all choices.
* `start` is the await `startServer` is at, `handler[s]` the await of the shutdown
  that signal `s` has started, `phase` and `todo` where `runMigrations` is. `Script` is the text of
  the migration files, reduced to what each piece between two semicolons begins with,
  creates and needs; `MCServer` gives it the eight files of `migrations/`. `todo` holds the places of the
  statements left of the first file of `pending`.
* `screen[b]` is what tab `b` shows, `rpc[r]` the await the handler of request `r` is
  about to perform, `given[r]` its `name ?? tx.senderName`. A request's answer reaches its
  tab only while that waits for this request; a tab told that the connection failed lets
  its user submit again while the old handler goes on.
* Ghost variables observe the world outside the program and are read by no
  action: `delivered`, `ownerNotices` (messages that arrived), `wasDismissed`,
  `enqueued`, `everLinked`, `dropped` and `unclosed` (calls of the member payments that
  failed for good), `unsent`, `sent`, `silent`, `swallowed`, `wasNamed`. `unmarked` is a ghost as well, but also carries the
  bound `MaxRepeats`.

The repositories of this program turn errors into values, and the models follow
them: `isDuplicate` answers `true` on error, `create`, `findByPhone`,
`findByName`, `findById` and `markPaid` answer `null`, `findBySenderName` the empty list,
`updateStatus` returns `false` unread, `sendNotification` returns `null` for
every failure. A fault of a call is a disjunct of its action, enabled by the
constant `Faults` (`MailFaults`, `MemberFaults`); a lost reply means that the effect
happened and the caller sees the error value.

Definitions introduced by "Faulty" are not used by any action. Each is one action
with one plausible mistake, kept to show which property notices the mistake.

## 3. Runs

| Run | Question | Instance |
|---|---|---|
| `worker_faults` | Is a payment claimed, confirmed and settled at most once, and do status and log tell the truth, under every fault? Also: the refinement of `NotifyOnce`. | one payment announced by two e-mails, one of them without a phone; 2 jobs, 2 slots, all six faults |
| `worker_live` | Does every job reach an end? | the same, lost WhatsApp replies, expiring locks and crashes, fairness |
| `worker_dead_letter` | Does a retry process its payment again, as `transaction.queue.ts:47-51` says? **No** | one e-mail, WhatsApp fails |
| `poller_faults` | Is a payment e-mail neither lost nor repeated without cause? | 2 payments, a newsletter, 2 overlapping cycles, lists of 2, all faults |
| `pipeline_faults` | Does this still hold end to end, through lost replies and process deaths? | one payment e-mail enqueued up to twice, 2 slots, every fault but `db` and `list` |
| `pipeline_live` | Does every payment e-mail get read, recorded and confirmed? | one payment and a newsletter, 2 cycles, lost replies and failing marks, fairness |
| `member_faults` | What do concurrent handlers keep, whatever fails? Does a payment slip between two of them, does a month close too early or not at all, other than by a call that failed? | 2 payments of one name, a request, 2 months of 2 days, database faults, crashes, missed runs |
| `reminders_faults` | Is nobody due forgotten, and nobody reminded twice or after paying, without a cause? | 2 members with any due days, 3 days, looking 1 day ahead, all faults |
| `dashboard_faults` | Does a page send one message for one registration, what is its success worth, do names survive? | one payment with its worker, one tab, 2 requests, 2 names; database faults, phones WhatsApp cannot be given, crashes |
| `server_faults` | Does production ever run on half a schema, does a shutdown end and spare the jobs in progress, does any end of the process lose an e-mail? | the eight migration files over a database prepared up to any of them, both signals, one e-mail, two starts, every fault |
| `bank_emails` | Do search, subjects and patterns fit together, and which values are read right? | every text of up to 4 pieces, from every bank and from others, as text and as HTML |
| `bank_phone` | Is the phone that is notified the sender's, as `transaction.worker.ts:142` says? **No** | the same |

### Bounds, and why they are enough

* *One payment, two e-mails, two jobs, two slots.* Payments never touch each
  other's rows; every conflict of the worker is between two executions about one
  `dedup_hash`. The invariants that are proved hold for any number.
* `Attempts = 3` is the configured value; `MaxStalledCount = 1` is BullMQ's
  default. Every job can throw, stall twice and be cleared.
* `MaxRepeats` (1 or 2) bounds how often an enqueued e-mail stays unread. Without
  it the same e-mail can be enqueued for ever, which the code allows.
  With `MaxRepeats = 1` there are two jobs for one e-mail, as many as the worker
  runs have.
* `MaxResults = 2` of three e-mails in `poller_faults`, so that a list call leaves something behind. In
  `pipeline_live` it is 2 with one newsletter whose mark may fail for ever: fewer than MAX_RESULTS
  such e-mails starve nobody. With `MaxResults = 1` TLC finds that as many do (§6).
* *Two months.* The cron run, the worker and a request only ever compare the
  current month, the month of a payment and the one before the current. Two days
  per month with a due day of 1 give a day on time and a late day.
  One member suffices for races about a record and a name; what several members change is proved.
* *Three days, of which the last is after the last due day*, looking one day ahead: a
  member due on the first (never seen ahead of time), one seen twice, and a day whose list is cut
  off. The proofs hold for 28, 31 and 3.
* *One tab, two requests.* Requests of different tabs share only the sender's row, and the
  run's two requests meet there as well; two are enough for one to overtake the other. Two names
  are needed to see one replaced. A message that is not sent is one to a phone that cannot be
  normalized, which ends for the page like a refusal of the API or a lost reply: `register-sender` does not
  look at the result. The proofs hold for any number of each, with every fault.
* *Four pieces of a text* are an amount, a reference and two of name, phone, date and a second
  amount: every property of `BankEmails` is about at most four. Of labels and
  subjects that all patterns treat alike the run has one, and one kind of date, which only matters as what
  follows a name. Names come in all four spellings.
* *One e-mail and two starts* for the server: a job waits, runs, is orphaned by one
  process and taken up by the next. `NoMailIsLost` and `GracefulExitDrains` are
  proved for any number.
* *A daily run takes less than a day, a monthly run less than a month* (`NextDay` and `Tick`
  wait for their end).
* `SYMMETRY` is used in safety runs only, over slots, jobs, cycles, payments,
  members and requests, which the modules never compare or order.
* `CHECK_DEADLOCK FALSE` where the bounded number of jobs makes the system stop
  legitimately: everything is enqueued and settled.

### Fairness

`WFairness`, `PollFairness` and `PFairness` assume weak fairness of each slot's
next step (the event loop runs every pending continuation, every network call
answers or times out), of fetching a waiting job, of the end of a delay and of
the stalled check (BullMQ does these on timers), of starting the service, and of
the steps of a poll cycle; and strong fairness of the timer, which fires
every 30 seconds while set and finds `isPolling` clear again and again without
finding it clear continuously. No fault and no request of an administrator is
ever assumed to happen or to stop happening, except through the bound
`MaxRepeats`: `StopScheduler` may stop the poller at any time, but a program that
is stopped is started again.

`SFairness` assumes that every await of the shutdown ends, and so does every job. No
start, no poll, no failure and no step that takes a job is fair: a shutdown does not
depend on them, and a failing `close` cannot be what rescues it.

`JobsSettle` is checked with process deaths as well. The liveness of payments (`pipeline_live`) is checked
without process deaths, failing database calls and rejected messages: with these a row may stay `pending` for ever, which is what the code
does (§6).

## 4. Proofs

All proofs hold for every value of the constants that satisfies the assumptions
`JobQueueAssumption`, `WorkerAssumption`, `PollerAssumption`, `PipelineAssumption`,
`DashboardAssumption`, `MemberAssumption`, `ReminderAssumption`, `ServerAssumption`, `MigrationAssumption`
and `BankEmailsAssumption`: the special values are not members of the sets they stand beside, the functions have
their domains, `Attempts` and `MaxResults` are positive. No set needs to be finite. `FilesAssumption` says more, and is
explained under `ServerProofs`.

The inductive invariants named below were found with TLC; the runs check what follows from them.

**`TransactionWorkerProofs`.** `TypeCorrect` first. The heart is `ClaimInv`:

* at most one execution is past Step 2 for each payment, because `CreateTransaction`
  leaves `persist` for `match` only when it inserts the row, and rows are never deleted;
* that execution finds the payment as it left it (`ClaimIntact`): still pending,
  not notified, not logged, until it does these things itself;
* a payment without a row is untouched.

`LogCorrect` is the part of it about the log. `AtMostOneNotice` alone is not inductive: a second execution standing before `send` in an
arbitrary state would break it. With `ClaimInv` each step of Steps 3 to 6 acts on
a payment nobody else acts on, which gives `OutcomesCorrect` (`AtMostOneNotice`,
`SenderOrOwner`, `LogAgreesWithStatus`), `ProcessedCorrect` (with `BranchInv`: which
branch was taken and why), `StatusFinal` (an action property) and `Refinement`: under
`claim` and `delivered` every step is `Claim`, `Notify`, `Settle` or a stutter of
`NotifyOnce`. `RetriesCorrect` needs `AttemptInv`: a job that threw has its row, so its
next attempt is a duplicate and cannot throw; an execution that may still throw
under a valid lock is the first of its job. Hence only the stalled limit leads to
the failed set, the fact behind the finding `worker_dead_letter`.

**`EmailPollerProofs`.** `PollTypeCorrect`, and `PollerCorrect`: `SingleFlight`,
`NoPaymentLost`, `RepeatsAreExplained` from `RepeatInv`, which says how the count of jobs
stands while a cycle is between the enqueue and the mark, and that a batch only
holds unread e-mails. `PaymentKept` is the part of it that no payment is lost.

**`PipelineProofs`.** `PipelineIsWorker`: every step of the pipeline is a step of the
worker's specification or leaves it alone, so the worker's theorems carry over;
`EndToEnd` applies this to the refinement. `PipelineIsPoller` says the same of the other half.
`NothingForgotten` needs both halves and two invariants of its own, under the assumption that `db`
is not among the faults: a job that is completed has a row for its payment (`CompletedHasRow`; the way
there is through an execution that either inserted the row or saw it), and an e-mail that is read,
or about to be marked, has a job (`MarkedHasJob`). With `db` the code does lose a payment (§6).

**`DashboardProofs`.** `DashboardIsWorker`: a step of the page adds a sender or leaves the worker
alone, so that `WorkerUndisturbed` follows from the refinement. `OneMessage` from `TabInv`: a request
that was not given up is the one its tab waits for, and once it has sent, the form is gone.
`SuccessCorrect` from `StepsInv`, which says what a handler has done, or failed to do unnoticed, by
the await it is at; it needs that nobody deletes a sender. `NamesCorrect` from `NameInv`: a request that
came in when there was a name never stands before the UPDATE, and its INSERT meets the unique phone.

**`MemberPaymentsProofs`.** `MatchCorrect`: the types and `MatchInv` together, as each needs the other
(a handler's target is a member because its name was linked). `MatchInv` says what each
handler *knows* (`WorkerKnows`, `RequestKnows`) from rows it read some calls ago. It stays true
because links and rows only grow and the clock does not go back (`Grows`), so a handler
that does not move keeps its knowledge whatever the others do (`OnlyOneMoves`). From it follow
`CreditCorrect` and `OnTimeCorrect`, one lemma about `markPaid` each (`MarkPaidWrites`, `WriterMayCredit`);
`PaidStays` needs only the types.
`LinkedCorrect` goes by what happens to a payment somebody cares for: whoever works on it settles
the record, finds it settled, hands the payment on to the loop it is part of, or drops it by a failed call
(`CaredFor`, `Does`, with `UnderWay` for "somebody works on it"); the one step that adds an obligation, a
new link, adds the request that meets it. `MonthsCorrect` by the reasons a record of an
earlier month may still be pending (`StillOpen`): the month turns only into the monthly run, and
that leaves only records it was not allowed to close.

**`RemindersProofs`.** `RTypeCorrect`; `RemindersCorrect`, `LateRemindersCorrect` and `EveryoneCorrect`
from `RemindInv`: the list holds unmarked records that were unpaid this morning, every reminder
is marked, unrecorded or at hand, and a member due today is marked or still ahead of the run. The
last part is what makes `EveryoneIsReminded` inductive over `NextDay`.

**`ServerProofs`.** `NothingLost` from `MailInv`: what a poll cycle holds in memory is also in the
mailbox, and the e-mail it is about to mark is in the queue. `ExitDrains` from `DrainInv`: a worker
that is closed has no job in progress, a handler past `closeWorker` has seen it close,
and a worker exists only once the start is through; the last part is needed because `startServer` goes on
while a shutdown runs.

`TypeCorrect`, `HistoryIsTrue` and `ProductionStartsComplete` from `SInv`. Its part `MigrationInv` says that
the statements of the file at hand that are no longer left were accepted (`Executed`: what they make and
need is there) and that files no longer pending are applied. A row is written when nothing of the file is left; by
`ExecutedIsApplied` its pieces that were left out are there too. That needs an assumption about the files, `FilesAssumption`:
whatever a piece that the splitting leaves out makes, some later statement of the file needs (an index, a
COMMENT ON), or prose is left that fails. It holds of the eight files, TLC evaluates it on them, and
a ninth file that only has a comment and a CREATE TABLE would break it: it would be recorded and never
created. The part `StartInv` is the order of the start in production: which services have answered
at each await (`Answered`), and that behind the migrations `phase` is `done`.

**`BankEmailsProofs`.** All four invariants of the parsers, for texts of any length with any labels, from
`BInv`: a text has at most one name, and what was parsed is what `Parse` makes of the text that
is still there (`SameText`). `FirstMatchFound` says what a search pattern by pattern returns, a match of the
first pattern that has one; `FormatIsParsed` then compares the documented labels with each bank's table,
`CurrencyCorrect` the order of `extractAmount` with that of `detectCurrency`. `PhoneCorrect`: the first of two sets
of places is the first of their union if it comes before the other. `NameCorrect`: the one
name of a text is what a pattern of its bank that knows its label makes of it, and is read if one of them reads it
(`OneName`); `Outcomes` says what each kind of pattern can make of a name.

Both modules need that a set of numbers has a least element (`LeastExists`). The library states it with
an operator parameter; here it follows from the well-foundedness of finite sets under inclusion, applied to the
intervals up to each element.

**Only model-checked.** Liveness (`JobsSettle`, `MailIsRead`, `PaymentIsSettled`, `SenderIsNotified`,
`ShutdownEnds`): fairness and ENABLED are beyond the prover. `RetryReprocesses` and `PhoneIsSenders` are refuted
by their runs. Every other property of a run is stated by a theorem.

## 5. Not modelled, and why

* **The characters of a text**: `BankEmails` knows labels and their order, not the spelling
  of amounts, codes and dates. Of a name it knows whether it has "tel" or a mark in it. Left out are
  names that begin with a mark, that have a " de " behind one (BAC's first pattern then takes what
  follows), and "tel" behind a mark, which no pattern reaches. **Encryption, validators**: string functions.
* **The CHECK on `bank_name`** (`002_create_transactions.sql:6`): the payments of the models come from the
  banks it admits. See §6 for TestBank.
* **Templates, dates and amounts as text**: formatting.
* **Rate limiters**: a library (Bottleneck) that acts in real time. That the program creates one limiter
  for each `WhatsAppService`, and so exceeds the rate it configures, can be read off
  `whatsapp.service.ts:27`; a model would only repeat it.
* **Delivery webhooks**: the handler logs events and writes nothing (a TODO in `webhooks.routes.ts`);
  `updateDeliveryStatus` is not called.
* **The dashboard's texts and errors of input**: a submission without a phone is answered with 400 and changes
  nothing; a transaction that does not exist gives no page. `transactions.routes.ts` and the reports
  only read. The model is of the page as written; `app.ts` uses `helmet()`, whose default
  content policy keeps browsers from running inline scripts.
* **What nothing reads**: `is_active`, e-mail, accounts and preferences of a user, joined lists and counters
  shown to administrators, `userId` of a transaction, the amount of a record,
  `updateLastSeen`, `addLabel` and `registerParser`, which nothing calls.
* **Members' due days and amounts, new members**, except in `Reminders`: what a record was created with stays.
* **Authentication, request limits, registration of routes, settings**: library configuration without state.

## 6. Where the code and its comments disagree

1. *Retries do not retry* (`worker_dead_letter`). Step 6 throws so that BullMQ
   retries the notification, but the second attempt meets the row the first one
   inserted: `isDuplicate` is true and the job completes as a duplicate. The
   transaction stays `failed`, and no job whose messages fail reaches the
   dead letters.
2. *A phone is made of a reference* (`bank_phone`). `extractPhone` takes the first eight digits of
   the text, and the references of BAC, BN and Scotiabank contain eight digits. An e-mail
   without a phone, like three of those in `tests/unit/parsers.test.ts`, gets the "phone" `+506` and digits of its
   reference, a WhatsApp message goes to that number, and the branch for payments
   without a phone, which notifies the owner, is not taken.

Further disagreements that the modules describe and no run is spent on:

* *A failed INSERT is a duplicate.* `create` returns `null` for any error and `isDuplicate` answers
  `true` for one, although the comment of `create` says that `null` means a duplicate: a job
  completes and its transaction does not exist. The e-mail is already marked as read.
* *A late link skips closed months.* The retroactive loop pays only `pending` records. If the
  monthly run has made the record `overdue`, the payment is skipped although the comment
  says pending transactions are processed.
* *A reminder that failed counts as sent.* `sendNotification` returns `null` instead of
  throwing, nobody looks, and `markReminderSent` runs: the member is never reminded of that month.
* *A fresh database cannot be migrated.* Every file begins with a comment, and the pieces
  that begin with a comment are left out, the `CREATE TABLE` below included; the index after it fails
  on the missing table. In `008` a semicolon inside the comment makes a syntax error, so this file
  fails on every database that does not know it yet. `all_migrations.sql`, run by hand, is the
  only way, not only "if this fails" (`migrate.ts:37`).
* *The forced exit never happens.* The timer of 30 seconds is set after the awaits it should cut off,
  just before `process.exit(0)`.
* *BN's "Dólares:" is recorded in colones*: the amount is found with its accent, the currency is looked for
  without. The word "colones" beside an amount in dollars has the same effect.
* *Names run on.* Where neither a parenthesis nor (for BCR) a line end marks the end of a name, it
  takes in the next label, as in Scotiabank's own example, whose name becomes "Ana López Tel".
* *Names are cut.* Every pattern for a name stops at a character outside of its letters, so that
  "De: Ana O'Hara" gives "Ana O" where the pattern needs nothing behind it and no name at all where it does; and
  BCR's `(?:\n|teléfono|tel|$)` stops at "tel" inside a name: "Estela Mora" becomes "Es". Before a phone in
  parentheses BCR and TestBank read no name. The comments promise the sender's name, the key by which members are
  matched; `NameIsExact` says for which names they keep it.
* *A payment of TestBank is never stored.* `parser-factory.ts` registers its parser, and the CHECK on
  `bank_name` refuses its rows; `create` answers `null`, which the worker takes for a duplicate.
* *A date without a two-digit hour is not read*, like the one in BN's example; the date of the
  e-mail takes its place in the hash, so that a second e-mail about that payment is a new payment.

* *The page reports what it did not do.* `sendNotification`, `upsertFromSinpe` and the log's `create` return
  `null` instead of throwing, and the handler answers success all the same: the page shows "Confirmación enviada por
  WhatsApp correctamente" for a message that was not sent. `SuccessIsExplained` says what such a success is still worth.
* *"Updates name only if currently empty"* (`user.repository.ts:251`): the name is read in one statement and
  written in another, so that two requests, or a request and an edit, may replace each other's.
* *"el correo no incluía el teléfono"*: the page says so of any transaction, and sends again for one that is
  `processed`, and to a sender who was dismissed. A transaction that failed stays `failed` after
  its confirmation was sent by hand.

Behaviour the models show that no comment contradicts: a process death after the INSERT
leaves the row `pending` and its payment unconfirmed for ever; `markPaid` replaces the
amount and the transaction of a record that was paid in the meantime; linking a
name again runs its old transactions again, for the new member too; `findOrCreate`
can lose the race against `generateForMonth` and drops the payment of the loser; a
sender dismissed between Step 3 and Step 4 is still notified; a monthly run
missed while the process is down is not made up for; cash payments compare only
the day of the month; `MAX_RESULTS` unread e-mails whose marks keep failing fill every
list call and keep the others from being read.

## 7. Plan

Done, in this order: `JobQueue` and `TransactionWorker` with `NotifyOnce` and
their proofs; `EmailPoller` and its proofs; `Pipeline`, which composes them, and its proofs, with nothing
forgotten on the whole way; `MemberPayments` and its proofs; `Reminders` and its proofs; `Migrations` and
`Server` with the proofs of `ServerProofs`; `BankEmails` and its proofs; `Dashboard` beside the worker and its proofs.

What would come next if the program changes:

1. Delivery events, once the webhook handler stores them: they arrive out of order and twice, and
   `updateDeliveryStatus` keeps the last one.
2. `BankEmails` in front of the worker: two e-mails of one payment and the hashes they get.
3. Due days and amounts that change while a record is open.
