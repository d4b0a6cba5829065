------------------------------- MODULE Server -------------------------------
(***************************************************************************)
(* The life of the process (server.ts): startServer, which tests the       *)
(* services, migrates and starts worker and poller; gracefulShutdown, once *)
(* per signal; and what they start or stop: the jobs of the worker         *)
(* (transaction.worker.ts) and the poll cycle (scheduler.ts), here no      *)
(* finer than starting and stopping needs.  A process that has ended may   *)
(* be started again.                                                       *)
(***************************************************************************)
EXTENDS Migrations

CONSTANTS
  Signal,        \* SIGTERM, SIGINT: each is delivered at most once to a process
  Mail,          \* payment e-mails; the job of an e-mail has its name
  NoMail,
  MaxStarts,     \* bound: how often the process is started
  ServerFaults   \* which services may be out of reach, and which calls may fail

Service == {"db", "redis", "gmail", "whatsapp"}
ServerFaultKinds == Service \cup {"close", "enqueue", "mark"}

ASSUME ServerAssumption ==
  /\ NoMail \notin Mail
  /\ MaxStarts \in Nat \ {0}
  /\ ServerFaults \subseteq ServerFaultKinds

VARIABLES
  production,   \* NODE_ENV === 'production'
  starts,       \* how often the process has been started
  start,        \* the await startServer is at
  connected,    \* services whose test has succeeded
  worker,       \* the BullMQ worker
  queue,        \* the queue's connection
  timer,        \* pollTimer !== null
  batch,        \* e-mails the poll cycle has fetched and not handled
  marking,      \* the e-mail it has enqueued and not marked as read
  handler,      \* the await of gracefulShutdown, for each signal
  exit,         \* the end of the process
  unread, waiting, active, orphans, ended   \* e-mails and their jobs

lifeVars == <<production, starts, exit>>
startVars == <<start, connected>>
pollVars == <<timer, batch, marking, unread>>
jobVars == <<waiting, active, orphans, ended>>
closeVars == <<worker, queue, handler>>
svars == <<databaseVars, migrationVars, lifeVars, startVars, pollVars, jobVars, closeVars>>

STypeOK ==
  /\ GTypeOK
  /\ production \in BOOLEAN
  /\ starts \in 1 .. MaxStarts
  /\ start \in Service \cup {"migrate", "ready", "aborted"}
  /\ connected \in SUBSET Service
  /\ worker \in {"none", "running", "closing", "closed"}
  /\ queue \in {"open", "closing", "closed"}
  /\ timer \in BOOLEAN
  /\ marking \in Mail \cup {NoMail}
  /\ handler \in [Signal -> {"none", "worker", "queue", "only_queue", "error"}]
  /\ exit \in {"no", "ok", "failed"}
  /\ \A mails \in {batch, unread, waiting, active, orphans, ended} : mails \subseteq Mail

Running == exit = "no"

SInit ==
  /\ DatabaseInit
  /\ MigrationInit
  /\ production \in BOOLEAN /\ starts = 1 /\ exit = "no"
  /\ start = "db" /\ connected = {}
  /\ worker = "none" /\ queue = "open" /\ handler = [s \in Signal |-> "none"]
  /\ timer = FALSE /\ batch = {} /\ marking = NoMail
  /\ unread = Mail /\ waiting = {} /\ active = {} /\ orphans = {} /\ ended = {}

\* process.exit: the jobs in progress stay where they are in Redis.
Exit(how) ==
  /\ exit' = how
  /\ orphans' = orphans \cup active
  /\ active' = {}
  /\ UNCHANGED <<production, starts, waiting, ended>>

-----------------------------------------------------------------------------
(***************************************************************************)
(* startServer                                                             *)
(***************************************************************************)

\* What follows the test of each service.
After == [db |-> "migrate", redis |-> "gmail", gmail |-> "whatsapp"]

\* A service that does not answer ends the start in production.
Unreachable(s, next) ==
  /\ s \in ServerFaults
  /\ \/ production /\ Exit("failed") /\ start' = "aborted"
     \/ ~production /\ start' = next /\ UNCHANGED <<lifeVars, jobVars>>
  /\ UNCHANGED connected

TestDatabase ==
  /\ start = "db"
  /\ \/ /\ start' = "migrate" /\ phase' = "read"
        /\ connected' = connected \cup {"db"}
        /\ UNCHANGED <<lifeVars, jobVars>>
     \/ Unreachable("db", "redis") /\ UNCHANGED phase
  /\ UNCHANGED <<databaseVars, pending, todo, pollVars, closeVars>>

\* Faulty: a failed migration is forgiven in production too.
MigrateLeniently ==
  /\ start = "migrate"
  /\ \/ MigrationStep /\ UNCHANGED startVars
     \/ /\ phase \in {"done", "failed"}
        /\ start' = "redis"
        /\ UNCHANGED <<databaseVars, migrationVars, connected>>
  /\ UNCHANGED <<lifeVars, jobVars, pollVars, closeVars>>

\* runMigrations and what startServer does with its outcome.
Migrate ==
  /\ start = "migrate"
  /\ \/ MigrationStep /\ UNCHANGED <<lifeVars, jobVars, startVars>>
     \/ /\ phase = "done" \/ (phase = "failed" /\ ~production)
        /\ start' = "redis"
        /\ UNCHANGED <<databaseVars, migrationVars, lifeVars, jobVars, connected>>
     \/ /\ phase = "failed" /\ production
        /\ Exit("failed")
        /\ start' = "aborted"
        /\ UNCHANGED <<databaseVars, migrationVars, connected>>
  /\ UNCHANGED <<pollVars, closeVars>>

TestService(s) ==
  /\ start = s
  /\ \/ /\ start' = After[s]
        /\ connected' = connected \cup {s}
        /\ UNCHANGED <<lifeVars, jobVars>>
     \/ Unreachable(s, After[s])
  /\ UNCHANGED <<databaseVars, migrationVars, pollVars, closeVars>>

\* From the last test to the end of startServer there is no await: worker and
\* scheduler start together, the scheduler with a first poll cycle.
Serve(reached) ==
  /\ start' = "ready"
  /\ connected' = reached
  /\ worker' = IF "redis" \in reached THEN "running" ELSE worker
  /\ timer' = ("gmail" \in reached)
  /\ batch' = IF "gmail" \in reached THEN unread ELSE {}
  /\ UNCHANGED <<lifeVars, jobVars, marking, unread, queue, handler>>

TestWhatsApp ==
  /\ start = "whatsapp"
  /\ \/ Serve(connected \cup {"whatsapp"})
     \/ "whatsapp" \in ServerFaults /\ ~production /\ Serve(connected)
     \/ /\ "whatsapp" \in ServerFaults /\ production
        /\ Exit("failed")
        /\ start' = "aborted"
        /\ UNCHANGED <<connected, pollVars, closeVars>>
  /\ UNCHANGED <<databaseVars, migrationVars>>

StartServer ==
  Running /\ (TestDatabase \/ Migrate \/ TestService("redis") \/ TestService("gmail") \/ TestWhatsApp)

-----------------------------------------------------------------------------
(***************************************************************************)
(* gracefulShutdown                                                        *)
(***************************************************************************)

\* A second signal runs the handler again; BullMQ joins a close in progress.
GracefulShutdown(s) ==
  /\ Running /\ handler[s] = "none"
  /\ timer' = FALSE
  /\ \/ /\ worker # "none"
        /\ worker' = IF worker = "running" THEN "closing" ELSE worker
        /\ handler' = [handler EXCEPT ![s] = "worker"]
        /\ UNCHANGED queue
     \/ /\ worker = "none"
        /\ queue' = IF queue = "open" THEN "closing" ELSE queue
        /\ handler' = [handler EXCEPT ![s] = "only_queue"]
        /\ UNCHANGED worker
  /\ UNCHANGED <<databaseVars, migrationVars, lifeVars, startVars, jobVars, batch, marking, unread>>

\* Faulty: closing waits until nothing is left to be done.
WorkerDrains ==
  /\ Running /\ worker = "closing" /\ active = {} /\ waiting = {}
  /\ worker' = "closed"
  /\ UNCHANGED <<databaseVars, migrationVars, lifeVars, startVars, pollVars, jobVars, queue, handler>>

\* Worker.close() waits for the jobs in progress and takes no new ones.
WorkerCloses ==
  /\ Running /\ worker = "closing" /\ active = {}
  /\ worker' = "closed"
  /\ UNCHANGED <<databaseVars, migrationVars, lifeVars, startVars, pollVars, jobVars, queue, handler>>

\* Faulty: closeWorker is not awaited.
CloseQueueAtOnce(s) ==
  /\ Running /\ handler[s] = "worker"
  /\ queue' = IF queue = "open" THEN "closing" ELSE queue
  /\ handler' = [handler EXCEPT ![s] = "queue"]
  /\ UNCHANGED <<databaseVars, migrationVars, lifeVars, startVars, pollVars, jobVars, worker>>

CloseQueue(s) ==
  /\ Running /\ handler[s] = "worker" /\ worker = "closed"
  /\ queue' = IF queue = "open" THEN "closing" ELSE queue
  /\ handler' = [handler EXCEPT ![s] = "queue"]
  /\ UNCHANGED <<databaseVars, migrationVars, lifeVars, startVars, pollVars, jobVars, worker>>

QueueCloses ==
  /\ Running /\ queue = "closing"
  /\ queue' = "closed"
  /\ UNCHANGED <<databaseVars, migrationVars, lifeVars, startVars, pollVars, jobVars, worker, handler>>

\* process.exit(0).  The timer of 30 seconds set just before never fires.
ExitGracefully(s) ==
  /\ Running
  /\ handler[s] \in {"queue", "only_queue"} /\ queue = "closed"
  /\ Exit("ok")
  /\ UNCHANGED <<databaseVars, migrationVars, startVars, pollVars, closeVars>>

\* What the awaits of the handler throw is logged; it exits all the same.
ExitAfterError(s) ==
  /\ "close" \in ServerFaults
  /\ Running
  /\ handler[s] \in {"worker", "queue", "only_queue"}
  /\ handler' = [handler EXCEPT ![s] = "error"]
  /\ Exit("ok")
  /\ UNCHANGED <<databaseVars, migrationVars, startVars, pollVars, worker, queue>>

Shutdown ==
  \/ \E s \in Signal : GracefulShutdown(s) \/ CloseQueue(s) \/ ExitGracefully(s) \/ ExitAfterError(s)
  \/ WorkerCloses \/ QueueCloses

-----------------------------------------------------------------------------
(***************************************************************************)
(* The jobs and the poll cycle                                             *)
(***************************************************************************)

TakeJob(m) ==
  /\ Running /\ worker = "running"
  /\ m \in waiting \ active
  /\ waiting' = waiting \ {m} /\ active' = active \cup {m}
  /\ UNCHANGED <<databaseVars, migrationVars, lifeVars, startVars, pollVars, closeVars, orphans, ended>>

\* A job that has failed waits for its next attempt, as long as it has one.
EndJob(m) ==
  /\ Running /\ m \in active
  /\ active' = active \ {m}
  /\ \/ ended' = ended \cup {m} /\ UNCHANGED waiting
     \/ waiting' = waiting \cup {m} /\ UNCHANGED ended
  /\ UNCHANGED <<databaseVars, migrationVars, lifeVars, startVars, pollVars, closeVars, orphans>>

\* A job of a process that has ended is stalled: run again, or failed when it
\* has stalled before.
StalledCheck(m) ==
  /\ Running /\ worker = "running"
  /\ m \in orphans /\ orphans' = orphans \ {m}
  /\ \/ waiting' = waiting \cup {m} /\ UNCHANGED ended
     \/ ended' = ended \cup {m} /\ UNCHANGED waiting
  /\ UNCHANGED <<databaseVars, migrationVars, lifeVars, startVars, pollVars, closeVars, active>>

\* The timer starts a cycle when none is running.
PollEmails ==
  /\ Running /\ timer /\ batch = {} /\ marking = NoMail
  /\ unread # {} /\ batch' = unread
  /\ UNCHANGED <<databaseVars, migrationVars, lifeVars, startVars, jobVars, closeVars, timer, marking, unread>>

\* Faulty: what could not be enqueued is marked as read all the same.
EnqueueOrMark(m) ==
  /\ Running /\ m \in batch /\ marking = NoMail
  /\ batch' = batch \ {m}
  /\ marking' = m
  /\ \/ queue # "closed" /\ waiting' = waiting \cup {m}
     \/ queue # "open" /\ UNCHANGED waiting
  /\ UNCHANGED <<databaseVars, migrationVars, lifeVars, startVars, closeVars, timer, unread, active, orphans, ended>>

\* A cycle goes on when the scheduler has been stopped, and fails to enqueue when
\* the queue has been closed.
EnqueueEmail(m) ==
  /\ Running /\ m \in batch /\ marking = NoMail
  /\ batch' = batch \ {m}
  /\ \/ /\ queue # "closed"
        /\ waiting' = waiting \cup {m} /\ marking' = m
     \/ /\ queue # "open" \/ "enqueue" \in ServerFaults
        /\ UNCHANGED <<waiting, marking>>
  /\ UNCHANGED <<databaseVars, migrationVars, lifeVars, startVars, closeVars, timer, unread, active, orphans, ended>>

MarkAsRead ==
  /\ Running /\ marking # NoMail
  /\ marking' = NoMail
  /\ \/ unread' = unread \ {marking}
     \/ "mark" \in ServerFaults /\ UNCHANGED unread
  /\ UNCHANGED <<databaseVars, migrationVars, lifeVars, startVars, jobVars, closeVars, timer, batch>>

Work ==
  \/ \E m \in Mail : TakeJob(m) \/ EndJob(m) \/ StalledCheck(m) \/ EnqueueEmail(m)
  \/ PollEmails \/ MarkAsRead

\* The platform restarts a process that has failed; a new version replaces one
\* that has ended well.
StartAgain ==
  /\ ~Running /\ starts < MaxStarts
  /\ starts' = starts + 1
  /\ exit' = "no"
  /\ start' = "db" /\ connected' = {}
  /\ phase' = "idle" /\ pending' = {} /\ todo' = {}
  /\ worker' = "none" /\ queue' = "open" /\ handler' = [s \in Signal |-> "none"]
  /\ timer' = FALSE /\ batch' = {} /\ marking' = NoMail
  /\ UNCHANGED <<databaseVars, production, unread, jobVars>>

SNext == StartServer \/ Shutdown \/ Work \/ StartAgain

SSpec == SInit /\ [][SNext]_svars

\* Every await of the shutdown ends, and so does every job.  No failure is
\* assumed to come and end what would otherwise hang.
SFairness ==
  /\ \A s \in Signal : WF_svars(CloseQueue(s)) /\ WF_svars(ExitGracefully(s))
  /\ WF_svars(WorkerCloses) /\ WF_svars(QueueCloses)
  /\ \A m \in Mail : WF_svars(EndJob(m))

SFairSpec == SSpec /\ SFairness

-----------------------------------------------------------------------------
\* In production nothing is processed before every service has answered and the
\* schema is complete (startServer; the files of migrations/).
ProductionIsComplete ==
  production /\ (worker # "none" \/ timer \/ batch # {}) =>
    /\ connected = Service
    /\ UNION {ObjectsOf(f) : f \in File} \subseteq objects

\* A graceful end interrupts no job ("Drain worker and close queue"), however many
\* signals arrive, unless the signal came before the worker was there, whose start
\* nothing stops, or closing failed.
GracefulExitDrains ==
  [][exit = "no" /\ exit' = "ok" =>
       \/ active = {}
       \/ \E s \in Signal : handler[s] = "only_queue" \/ handler'[s] = "error"]_svars

\* An end of the process, graceful or not, between any two calls of the poll cycle
\* or in the middle of a job leaves every payment somewhere: unread, in the queue,
\* stalled or ended.
NoMailIsLost == Mail = unread \cup waiting \cup active \cup orphans \cup ended

\* A process that has been told to end ends, as long as its jobs do.
ShutdownEnds ==
  \A s \in Signal : handler[s] # "none" ~> exit # "no"
=============================================================================
