---------------------------- MODULE ServerProofs ----------------------------
(***************************************************************************)
(* Proofs about Server, for any signals, e-mails, files and failures: no   *)
(* end of the process loses a payment, a graceful end interrupts no job,   *)
(* what is recorded as applied is in the database, and in production       *)
(* nothing starts before the schema is complete.                           *)
(***************************************************************************)
EXTENDS Server, FiniteSetTheorems, TLAPS

Somewhere == unread \cup waiting \cup active \cup orphans \cup ended

\* What the poll cycle holds in memory is also in the mailbox or the queue.
MailInv ==
  /\ Somewhere = Mail
  /\ batch \subseteq Mail
  /\ marking # NoMail => marking \in waiting \cup active \cup orphans \cup ended

\* Jobs are in progress only while there is a worker, which the end of the start
\* creates, and a handler that has come to the queue has seen it close.
DrainInv ==
  /\ handler \in [Signal -> {"none", "worker", "queue", "only_queue", "error"}]
  /\ worker \in {"none", "closed"} => active = {}
  /\ start # "ready" => worker = "none"
  /\ ~Running => active = {}
  /\ \A s \in Signal : handler[s] = "queue" => worker = "closed"

-----------------------------------------------------------------------------
LEMMA InitInv == SInit => MailInv /\ DrainInv
  BY DEF SInit, MailInv, DrainInv, Somewhere, Running

\* A process that ends leaves its jobs in progress in Redis.
LEMMA ExitKeeps ==
  ASSUME MailInv, NEW how \in {"ok", "failed"}, Exit(how), UNCHANGED <<unread, batch, marking>>
  PROVE  MailInv' /\ active' = {} /\ ~Running'
  BY DEF MailInv, Exit, Somewhere, Running

LEMMA StartServerKeeps ==
  ASSUME MailInv, DrainInv, StartServer
  PROVE  MailInv' /\ DrainInv'
<1> USE DEF Running
<1>1. CASE TestDatabase
  <2>1. CASE Unreachable("db", "redis")
    <3>1. CASE Exit("failed")
      BY <1>1, <3>1, ExitKeeps DEF TestDatabase, pollVars, closeVars, DrainInv
    <3>2. CASE UNCHANGED <<lifeVars, jobVars>>
      BY <1>1, <3>2 DEF TestDatabase, pollVars, closeVars, lifeVars, jobVars, DrainInv, MailInv, Somewhere
    <3> QED  BY <2>1, <3>1, <3>2 DEF Unreachable
  <2>2. CASE UNCHANGED <<lifeVars, jobVars>>
    BY <1>1, <2>2 DEF TestDatabase, pollVars, closeVars, lifeVars, jobVars, DrainInv, MailInv, Somewhere
  <2> QED  BY <1>1, <2>1, <2>2 DEF TestDatabase
<1>2. CASE Migrate
  <2>1. CASE Exit("failed")
    BY <1>2, <2>1, ExitKeeps DEF Migrate, pollVars, closeVars, DrainInv
  <2>2. CASE UNCHANGED <<lifeVars, jobVars>>
    BY <1>2, <2>2 DEF Migrate, pollVars, closeVars, lifeVars, jobVars, DrainInv, MailInv, Somewhere
  <2> QED  BY <1>2, <2>1, <2>2 DEF Migrate
<1>3. ASSUME NEW s \in Service, TestService(s)
      PROVE  MailInv' /\ DrainInv'
  <2>1. CASE Exit("failed")
    BY <1>3, <2>1, ExitKeeps DEF TestService, Service, pollVars, closeVars, DrainInv
  <2>2. CASE UNCHANGED <<lifeVars, jobVars>>
    BY <1>3, <2>2 DEF TestService, Service, pollVars, closeVars, lifeVars, jobVars, DrainInv, MailInv, Somewhere
  <2> QED  BY <1>3, <2>1, <2>2 DEF TestService, Unreachable
<1>4. CASE TestWhatsApp
  <2>1. CASE Exit("failed") /\ UNCHANGED <<connected, pollVars, closeVars>> /\ start' = "aborted"
    BY <1>4, <2>1, ExitKeeps DEF TestWhatsApp, pollVars, closeVars, DrainInv
  <2>2. ASSUME NEW reached, Serve(reached)
        PROVE  MailInv' /\ DrainInv'
    <3>1. MailInv'
      BY <2>2 DEF Serve, lifeVars, jobVars, MailInv, Somewhere
    <3>2. worker = "none" /\ active = {} /\ \A s \in Signal : handler[s] # "queue"
      BY <1>4 DEF DrainInv, TestWhatsApp
    <3>3. handler' = handler /\ active' = {} /\ exit' = exit
      BY <2>2, <3>2 DEF Serve, lifeVars, jobVars
    <3>4. start' = "ready" /\ worker' \in {"none", "running"}
      BY <2>2, <3>2 DEF Serve
    <3> QED  BY <3>1, <3>2, <3>3, <3>4 DEF DrainInv
  <2>3. \/ Exit("failed") /\ UNCHANGED <<connected, pollVars, closeVars>> /\ start' = "aborted"
        \/ Serve(connected)
        \/ Serve(connected \cup {"whatsapp"})
    BY <1>4 DEF TestWhatsApp
  <2> QED  BY <2>1, <2>2, <2>3
<1>5. {"redis", "gmail"} \subseteq Service
  BY DEF Service
<1> QED  BY <1>1, <1>2, <1>3, <1>4, <1>5 DEF StartServer

LEMMA ShutdownKeeps ==
  ASSUME MailInv, DrainInv, Shutdown
  PROVE  MailInv' /\ DrainInv'
<1> USE DEF Running
<1>1. ASSUME NEW s \in Signal, GracefulShutdown(s)
      PROVE  MailInv' /\ DrainInv'
  BY <1>1 DEF GracefulShutdown, lifeVars, startVars, jobVars, MailInv, Somewhere, DrainInv
<1>2. ASSUME NEW s \in Signal, CloseQueue(s)
      PROVE  MailInv' /\ DrainInv'
  BY <1>2 DEF CloseQueue, lifeVars, startVars, pollVars, jobVars, MailInv, Somewhere, DrainInv
<1>3. ASSUME NEW s \in Signal, ExitGracefully(s)
      PROVE  MailInv' /\ DrainInv'
  <2>1. MailInv' /\ active' = {} /\ ~Running'
    BY <1>3, ExitKeeps DEF ExitGracefully, pollVars
  <2> QED  BY <1>3, <2>1 DEF ExitGracefully, startVars, closeVars, DrainInv
<1>4. CASE WorkerCloses
  BY <1>4 DEF WorkerCloses, lifeVars, startVars, pollVars, jobVars, MailInv, Somewhere, DrainInv
<1>5. CASE QueueCloses
  BY <1>5 DEF QueueCloses, lifeVars, startVars, pollVars, jobVars, MailInv, Somewhere, DrainInv
<1>6. ASSUME NEW s \in Signal, ExitAfterError(s)
      PROVE  MailInv' /\ DrainInv'
  <2>1. MailInv' /\ active' = {} /\ ~Running'
    BY <1>6, ExitKeeps DEF ExitAfterError, pollVars
  <2> QED  BY <1>6, <2>1 DEF ExitAfterError, startVars, DrainInv
<1> QED  BY <1>1, <1>2, <1>3, <1>4, <1>5, <1>6 DEF Shutdown

LEMMA WorkKeeps ==
  ASSUME MailInv, DrainInv, Work
  PROVE  MailInv' /\ DrainInv'
<1> USE DEF Running
<1>1. ASSUME NEW m \in Mail, TakeJob(m)
      PROVE  MailInv' /\ DrainInv'
  BY <1>1 DEF TakeJob, lifeVars, startVars, pollVars, closeVars, MailInv, Somewhere, DrainInv
<1>2. ASSUME NEW m \in Mail, EndJob(m)
      PROVE  MailInv' /\ DrainInv'
  BY <1>2 DEF EndJob, lifeVars, startVars, pollVars, closeVars, MailInv, Somewhere, DrainInv
<1>3. ASSUME NEW m \in Mail, StalledCheck(m)
      PROVE  MailInv' /\ DrainInv'
  BY <1>3 DEF StalledCheck, lifeVars, startVars, pollVars, closeVars, MailInv, Somewhere, DrainInv
<1>4. ASSUME NEW m \in Mail, EnqueueEmail(m)
      PROVE  MailInv' /\ DrainInv'
  BY <1>4 DEF EnqueueEmail, lifeVars, startVars, closeVars, MailInv, Somewhere, DrainInv
<1>5. CASE PollEmails
  BY <1>5 DEF PollEmails, lifeVars, startVars, jobVars, closeVars, MailInv, Somewhere, DrainInv
<1>6. CASE MarkAsRead
  BY <1>6 DEF MarkAsRead, lifeVars, startVars, jobVars, closeVars, MailInv, Somewhere, DrainInv
<1> QED  BY <1>1, <1>2, <1>3, <1>4, <1>5, <1>6 DEF Work

LEMMA StepKeeps == MailInv /\ DrainInv /\ [SNext]_svars => MailInv' /\ DrainInv'
<1> SUFFICES ASSUME MailInv, DrainInv, [SNext]_svars
             PROVE  MailInv' /\ DrainInv'
  OBVIOUS
<1>1. CASE StartAgain
  BY <1>1 DEF StartAgain, jobVars, Running, MailInv, Somewhere, DrainInv
<1>2. CASE UNCHANGED svars
  BY <1>2 DEF svars, lifeVars, startVars, pollVars, jobVars, closeVars, Running, MailInv, Somewhere, DrainInv
<1> QED  BY <1>1, <1>2, StartServerKeeps, ShutdownKeeps, WorkKeeps DEF SNext

-----------------------------------------------------------------------------
\* Whatever ends the process, and between whichever two calls, every payment e-mail
\* is unread or has a job (pollEmails, gracefulShutdown, startServer).
THEOREM NothingLost == SSpec => []NoMailIsLost
<1>1. MailInv => NoMailIsLost
  BY DEF MailInv, Somewhere, NoMailIsLost
<1> QED  BY <1>1, InitInv, StepKeeps, PTL DEF SSpec

\* Jobs in progress are never cut off by a graceful end, unless the signal came
\* before the worker was created or closing failed (gracefulShutdown, closeWorker).
THEOREM ExitDrains == SSpec => GracefulExitDrains
<1> DEFINE Drains ==
      exit = "no" /\ exit' = "ok" =>
        \/ active = {}
        \/ \E s \in Signal : handler[s] = "only_queue" \/ handler'[s] = "error"
<1>1. ASSUME DrainInv, SNext
      PROVE  Drains
  <2> SUFFICES ASSUME exit = "no", exit' = "ok"
               PROVE  active = {} \/ \E s \in Signal : handler[s] = "only_queue" \/ handler'[s] = "error"
    OBVIOUS
  <2>1. ASSUME NEW s \in Signal, ExitGracefully(s)
        PROVE  active = {} \/ \E t \in Signal : handler[t] = "only_queue"
    BY <2>1, <1>1 DEF ExitGracefully, DrainInv
  <2>2. ASSUME NEW s \in Signal, ExitAfterError(s)
        PROVE  \E t \in Signal : handler'[t] = "error"
    BY <2>2, <1>1 DEF ExitAfterError, DrainInv
  <2>3. \E s \in Signal : ExitGracefully(s) \/ ExitAfterError(s)
    BY <1>1 DEF SNext, StartServer, TestDatabase, TestService, TestWhatsApp, Migrate, Unreachable, Serve, Exit,
      Shutdown, GracefulShutdown, CloseQueue, WorkerCloses, QueueCloses, Work, TakeJob, EndJob, StalledCheck,
      EnqueueEmail, PollEmails, MarkAsRead, StartAgain, Running, lifeVars
  <2> QED  BY <2>1, <2>2, <2>3
<1>2. DrainInv /\ [SNext]_svars => [Drains]_svars
  BY <1>1
<1> QED  BY <1>2, InitInv, StepKeeps, PTL DEF SSpec, GracefulExitDrains

-----------------------------------------------------------------------------
(***************************************************************************)
(* The migrations                                                          *)
(***************************************************************************)

\* A set of numbers has a least element: the intervals up to its elements are
\* finite sets, which strict inclusion orders well.
LEMMA LeastExists ==
  ASSUME NEW S \in SUBSET Nat, S # {}
  PROVE  \E m \in S : \A n \in S : m <= n
<1> DEFINE Below == {0 .. n : n \in S}
<1>1. Below \subseteq FiniteSubsetsOf(Nat) /\ Below # {}
  <2>1. ASSUME NEW n \in S
        PROVE  0 .. n \in FiniteSubsetsOf(Nat)
    <3>1. IsFiniteSet(0 .. n)
      BY FS_Interval
    <3> QED  BY <3>1 DEF FiniteSubsetsOf
  <2> QED  BY <2>1
<1>2. IsWellFoundedOn(StrictSubsetOrdering(Nat), FiniteSubsetsOf(Nat))
  BY FS_StrictSubsetOrderingWellFounded
<1>3. PICK low \in Below : \A b \in Below : <<b, low>> \notin StrictSubsetOrdering(Nat)
  <2> HIDE DEF Below
  <2> QED  BY <1>1, <1>2, WFMin, Zenon
<1>4. PICK m \in S : low = 0 .. m
  OBVIOUS
<1>5. ASSUME NEW n \in S, n < m
      PROVE  FALSE
  <2>1. 0 .. n \subseteq 0 .. m /\ 0 .. n # 0 .. m /\ 0 .. n \in SUBSET Nat /\ 0 .. m \in SUBSET Nat
    <3>1. m \in 0 .. m /\ m \notin 0 .. n
      BY <1>5
    <3> QED  BY <1>5, <3>1
  <2>2. <<0 .. n, 0 .. m>> \in StrictSubsetOrdering(Nat)
    BY <2>1, Zenon DEF StrictSubsetOrdering
  <2> QED  BY <1>3, <1>4, <2>2
<1> QED  BY <1>5

\* So Min is one of the files that are pending, or of the statements that are left.
LEMMA LeastOf ==
  ASSUME NEW S \in SUBSET Nat, S # {}
  PROVE  Min(S) \in S /\ \A n \in S : Min(S) <= n
  BY LeastExists DEF Min

Applied(f) == ObjectsOf(f) \subseteq objects

Executed(f, i) ==
  Script[f][i].leads = "sql" /\ Script[f][i].makes \cup Script[f][i].needs \subseteq objects

\* The statements of the file at hand that are no longer left have been accepted,
\* and files that are no longer pending have been applied, now or earlier.
MigrationInv ==
  /\ GTypeOK
  /\ RecordedIsApplied
  /\ phase = "apply" => \A i \in Statements(Min(pending)) \ todo : Executed(Min(pending), i)
  /\ phase \in {"apply", "done"} => \A f \in File \ pending : Applied(f)

\* What follows from the types of the files.
LEMMA FilesType ==
  ASSUME NEW f \in File
  PROVE  /\ Statements(f) \subseteq DOMAIN Script[f]
         /\ DOMAIN Script[f] \subseteq Nat
         /\ \A i \in DOMAIN Script[f] :
              Script[f][i].makes \subseteq Object /\ Script[f][i].needs \subseteq Object
         /\ ObjectsOf(f) \subseteq Object
<1>1. Script[f] \in Seq(Piece)
  BY MigrationAssumption DEF File
<1>2. DOMAIN Script[f] \subseteq Nat /\ \A i \in DOMAIN Script[f] : Script[f][i] \in Piece
  BY <1>1
<1> QED  BY <1>2 DEF Piece, Statements, ObjectsOf

\* A file whose statements have all been accepted has been applied, those that
\* were left out included.
LEMMA ExecutedIsApplied ==
  ASSUME NEW f \in File, \A i \in Statements(f) : Executed(f, i)
  PROVE  Applied(f)
<1>1. NoticesWhatIsLost(f)
  BY FilesAssumption
<1>2. ObjectsOf(f) \subseteq UNION {Script[f][i].makes \cup Script[f][i].needs : i \in Statements(f)}
  BY <1>1 DEF NoticesWhatIsLost, Executed
<1> QED  BY <1>2 DEF Executed, Applied

\* The file at hand is one of those that are pending.
LEMMA FirstPending ==
  ASSUME NEW files \in SUBSET File, files # {}
  PROVE  Min(files) \in files
<1>1. files \in SUBSET Nat
  BY MigrationAssumption DEF File
<1> QED  BY <1>1, LeastOf

LEMMA OpenKeeps ==
  ASSUME NEW files \in SUBSET File, Open(files), GTypeOK, history' \in SUBSET File, objects' = objects,
         \A f \in history' : Applied(f), \A f \in File \ files : Applied(f)
  PROVE  MigrationInv'
<1>1. CASE files = {}
  BY <1>1 DEF Open, GTypeOK, MigrationInv, RecordedIsApplied, Applied
<1>2. CASE files # {}
  BY <1>2 DEF Open, GTypeOK, MigrationInv, RecordedIsApplied, Applied
<1> QED  BY <1>1, <1>2

LEMMA ReadHistoryKeeps ==
  ASSUME MigrationInv, ReadHistory
  PROVE  MigrationInv'
<1>1. \A f \in history : Applied(f)
  BY DEF MigrationInv, RecordedIsApplied, Applied
<1>2. GTypeOK /\ history \in SUBSET File
  BY DEF MigrationInv, GTypeOK
<1>3. objects' = objects /\ history' = history
  BY DEF ReadHistory, databaseVars
<1>4. \/ Open(File)
      \/ Open(File \ history)
  BY DEF ReadHistory
<1> QED  BY <1>1, <1>2, <1>3, <1>4, OpenKeeps

LEMMA ApplyStatementKeeps ==
  ASSUME MigrationInv, ApplyStatement
  PROVE  MigrationInv'
<1> DEFINE f == Min(pending)
           i == Min(todo)
           accepted == AtHand.leads = "sql" /\ AtHand.needs \subseteq objects
<1>1. GTypeOK /\ phase = "apply" /\ todo # {} /\ history' = history
  BY DEF MigrationInv, ApplyStatement
<1>2. f \in File /\ todo \subseteq Statements(f)
  BY <1>1, FirstPending DEF GTypeOK
<1>3. i \in todo
  <2>1. todo \in SUBSET Nat
    BY <1>2, FilesType
  <2> QED  BY <1>1, <2>1, LeastOf
<1>4. AtHand = Script[f][i] /\ AtHand.makes \subseteq Object
  BY <1>2, <1>3, FilesType DEF AtHand
<1>5. objects' \in SUBSET Object /\ objects \subseteq objects'
  BY <1>1, <1>4 DEF ApplyStatement, GTypeOK
<1>6. RecordedIsApplied'
  BY <1>1, <1>5 DEF MigrationInv, RecordedIsApplied
<1>7. CASE accepted /\ objects' = objects \cup AtHand.makes /\ todo' = todo \ {i} /\ UNCHANGED <<phase, pending>>
  <2>1. GTypeOK'
    BY <1>1, <1>5, <1>7 DEF GTypeOK
  <2>2. \A j \in Statements(f) \ todo' : Executed(f, j)'
    BY <1>1, <1>2, <1>4, <1>5, <1>7 DEF MigrationInv, Executed
  <2>3. \A g \in File \ pending' : Applied(g)'
    BY <1>1, <1>5, <1>7 DEF MigrationInv, Applied
  <2> QED  BY <1>6, <1>7, <2>1, <2>2, <2>3 DEF MigrationInv
<1>8. CASE phase' = "failed" /\ pending' = {} /\ todo' = {}
  BY <1>1, <1>5, <1>6, <1>8 DEF MigrationInv, GTypeOK
<1> QED  BY <1>7, <1>8 DEF ApplyStatement

\* A file is recorded only when nothing of it is left.
LEMMA RecordMigrationKeeps ==
  ASSUME MigrationInv, RecordMigration
  PROVE  MigrationInv'
<1>1. GTypeOK /\ phase = "apply" /\ todo = {} /\ objects' = objects
  BY DEF MigrationInv, RecordMigration
<1>2. Min(pending) \in File
  BY <1>1, FirstPending DEF GTypeOK
<1>3. Applied(Min(pending))
  BY <1>1, <1>2, ExecutedIsApplied DEF MigrationInv
<1>4. history' \in SUBSET File /\ \A g \in history' : Applied(g)
  BY <1>1, <1>2, <1>3 DEF RecordMigration, MigrationInv, RecordedIsApplied, Applied, GTypeOK
<1>5. \A g \in File \ (pending \ {Min(pending)}) : Applied(g)
  BY <1>1, <1>3 DEF MigrationInv
<1>6. pending \ {Min(pending)} \in SUBSET File
  BY <1>1 DEF GTypeOK
<1> QED  BY <1>1, <1>4, <1>5, <1>6, OpenKeeps DEF RecordMigration

LEMMA MigrationStepKeeps ==
  ASSUME MigrationInv, MigrationStep
  PROVE  MigrationInv'
  BY ReadHistoryKeeps, ApplyStatementKeeps, RecordMigrationKeeps DEF MigrationStep

\* A database that was prepared by hand has all of what it records.
LEMMA MigrationInitInv ==
  ASSUME DatabaseInit, MigrationInit
  PROVE  MigrationInv
<1>1. PICK n \in {0} \cup File : history = 1 .. n /\ objects = UNION {ObjectsOf(f) : f \in 1 .. n}
  BY DEF DatabaseInit
<1>2. 1 .. n \subseteq File
  BY MigrationAssumption DEF File
<1>3. objects \in SUBSET Object /\ history \in SUBSET File /\ \A f \in history : Applied(f)
  BY <1>1, <1>2, FilesType DEF Applied
<1> QED  BY <1>3 DEF MigrationInit, MigrationInv, GTypeOK, RecordedIsApplied, Applied
-----------------------------------------------------------------------------
(***************************************************************************)
(* The start                                                               *)
(***************************************************************************)

\* The services that have answered when startServer is at an await.
Answered ==
  [db |-> {}, migrate |-> {"db"}, redis |-> {"db"}, gmail |-> {"db", "redis"},
   whatsapp |-> {"db", "redis", "gmail"}, ready |-> Service]

\* Nothing runs before startServer is at its end, where in production it comes only
\* when all services have answered and the migrations are done.
StartInv ==
  /\ start = "db" => phase = "idle"
  /\ start # "ready" => worker = "none" /\ ~timer /\ batch = {}
  /\ production /\ start # "aborted" => connected = Answered[start]
  /\ production /\ start \in {"redis", "gmail", "whatsapp", "ready"} => phase = "done"

SInv == MigrationInv /\ STypeOK /\ StartInv

LEMMA StartInitInv == SInit => SInv
<1> SUFFICES ASSUME SInit PROVE SInv
  OBVIOUS
<1>1. MigrationInv
  BY MigrationInitInv DEF SInit
<1>2. GTypeOK
  BY <1>1 DEF MigrationInv
<1>3. STypeOK
  <2>1. handler \in [Signal -> {"none", "worker", "queue", "only_queue", "error"}]
    BY DEF SInit
  <2>2. starts \in 1 .. MaxStarts
    BY ServerAssumption DEF SInit
  <2>3. \A mails \in {batch, unread, waiting, active, orphans, ended} : mails \subseteq Mail
    BY DEF SInit
  <2> QED  BY <1>2, <2>1, <2>2, <2>3 DEF SInit, STypeOK, Service
<1>4. StartInv
  BY DEF SInit, MigrationInit, StartInv, Answered
<1> QED  BY <1>1, <1>3, <1>4 DEF SInv

\* Most steps leave the database and the migrations alone.
LEMMA DatabaseStays ==
  ASSUME MigrationInv, UNCHANGED <<databaseVars, migrationVars>>
  PROVE  MigrationInv' /\ GTypeOK' /\ phase' = phase
<1>1. UNCHANGED <<objects, history, phase, pending, todo>>
  BY DEF databaseVars, migrationVars
<1>2. MigrationInv'
  BY <1>1 DEF MigrationInv, GTypeOK, RecordedIsApplied, Applied, Executed
<1> QED  BY <1>1, <1>2 DEF MigrationInv

\* Every step of the start either goes on or ends the process in production.
LEMMA StartServerLife ==
  ASSUME STypeOK, StartServer
  PROVE  /\ production' = production /\ starts' \in 1 .. MaxStarts /\ exit' \in {"no", "ok", "failed"}
         /\ \A mails \in {waiting', active', orphans', ended'} : mails \subseteq Mail
<1>1. \/ Exit("failed")
      \/ UNCHANGED <<lifeVars, jobVars>>
  BY DEF StartServer, TestDatabase, Migrate, TestService, TestWhatsApp, Unreachable, Serve
<1>2. CASE Exit("failed")
  BY <1>2 DEF Exit, STypeOK
<1>3. CASE UNCHANGED <<lifeVars, jobVars>>
  BY <1>3 DEF lifeVars, jobVars, STypeOK
<1> QED  BY <1>1, <1>2, <1>3

\* The steps of the start up to the test of WhatsApp start nothing.
LEMMA StartServerStarts ==
  ASSUME SInv, StartServer
  PROVE  SInv'
<1> USE DEF SInv
<1>1. /\ production' = production /\ starts' \in 1 .. MaxStarts /\ exit' \in {"no", "ok", "failed"}
      /\ \A mails \in {waiting', active', orphans', ended'} : mails \subseteq Mail
  BY StartServerLife
<1>2. ASSUME UNCHANGED <<pollVars, closeVars>>, GTypeOK', connected' \in SUBSET Service,
             start' \in Service \cup {"migrate", "ready", "aborted"}
      PROVE  STypeOK'
  BY <1>1, <1>2 DEF STypeOK, pollVars, closeVars
<1>3. CASE TestDatabase
  <2>1. start = "db" /\ phase = "idle" /\ UNCHANGED <<pollVars, closeVars>>
    BY <1>3 DEF TestDatabase, StartInv
  <2>2. MigrationInv'
    BY <1>3, <2>1 DEF TestDatabase, Unreachable, databaseVars, MigrationInv, GTypeOK, RecordedIsApplied
  <2>3. connected' \in SUBSET Service /\ start' \in {"migrate", "aborted", "redis"}
    BY <1>3 DEF TestDatabase, Unreachable, STypeOK, Service
  <2>4. STypeOK'
    BY <1>2, <2>1, <2>2, <2>3 DEF MigrationInv, Service
  <2>5. production => \/ start' = "migrate" /\ connected' = {"db"}
                      \/ start' = "aborted"
    BY <1>3, <2>1 DEF TestDatabase, Unreachable, StartInv, Answered
  <2>6. StartInv'
    BY <1>1, <2>1, <2>3, <2>5 DEF StartInv, pollVars, closeVars, Answered
  <2> QED  BY <2>2, <2>4, <2>6
<1>4. CASE Migrate
  <2>1. start = "migrate" /\ UNCHANGED <<pollVars, closeVars, connected>>
    BY <1>4 DEF Migrate, startVars
  <2>2. MigrationInv'
    BY <1>4, MigrationStepKeeps, DatabaseStays DEF Migrate
  <2>3. \/ start' \in {"migrate", "aborted"}
        \/ start' = "redis" /\ (production => phase' = "done")
    BY <1>4, <2>1 DEF Migrate, startVars, migrationVars
  <2>4. STypeOK'
    BY <1>2, <2>1, <2>2, <2>3 DEF MigrationInv, Service, STypeOK
  <2>5. StartInv'
    BY <1>1, <2>1, <2>3 DEF StartInv, pollVars, closeVars, Answered
  <2> QED  BY <2>2, <2>4, <2>5
<1>5. ASSUME NEW s \in {"redis", "gmail"}, TestService(s)
      PROVE  SInv'
  <2>1. start = s /\ UNCHANGED <<pollVars, closeVars>>
    BY <1>5 DEF TestService
  <2>2. MigrationInv' /\ GTypeOK' /\ phase' = phase
    BY <1>5, DatabaseStays DEF TestService
  <2>3. /\ start' \in {After[s], "aborted"}
        /\ connected' \in {connected, connected \cup {s}}
        /\ production /\ start' # "aborted" => connected' = connected \cup {s}
    BY <1>5 DEF TestService, Unreachable, After
  <2>4. After[s] \in {"gmail", "whatsapp"}
    BY DEF After
  <2>5. STypeOK'
    BY <1>2, <2>1, <2>2, <2>3, <2>4 DEF Service, STypeOK
  <2>6. Answered[After[s]] = Answered[s] \cup {s}
    BY DEF After, Answered
  <2>7. StartInv'
    BY <1>1, <2>1, <2>2, <2>3, <2>4, <2>6 DEF StartInv, pollVars, closeVars
  <2> QED  BY <2>2, <2>5, <2>7
<1>6. CASE TestWhatsApp
  <2>1. MigrationInv' /\ GTypeOK' /\ phase' = phase /\ start = "whatsapp"
    BY <1>6, DatabaseStays DEF TestWhatsApp
  <2>2. CASE start' = "aborted" /\ UNCHANGED <<connected, pollVars, closeVars>>
    <3>1. STypeOK'
      BY <1>2, <2>1, <2>2 DEF STypeOK
    <3>2. StartInv'
      BY <1>1, <2>1, <2>2 DEF StartInv, pollVars, closeVars
    <3> QED  BY <2>1, <3>1, <3>2
  <2>3. ASSUME NEW reached \in SUBSET Service, Serve(reached), production => reached = Service
        PROVE  SInv'
    <3>1. STypeOK'
      BY <1>1, <2>1, <2>3 DEF Serve, STypeOK
    <3>2. StartInv'
      BY <1>1, <2>1, <2>3 DEF Serve, StartInv, Answered
    <3> QED  BY <2>1, <3>1, <3>2
  <2>4. connected \in SUBSET Service /\ connected \cup {"whatsapp"} \in SUBSET Service
    BY DEF STypeOK, Service
  <2>5. production => connected \cup {"whatsapp"} = Service
    BY <2>1 DEF StartInv, Answered, Service
  <2>6. \/ start' = "aborted" /\ UNCHANGED <<connected, pollVars, closeVars>>
        \/ Serve(connected \cup {"whatsapp"})
        \/ Serve(connected) /\ ~production
    BY <1>6 DEF TestWhatsApp
  <2> QED  BY <2>2, <2>3, <2>4, <2>5, <2>6
<1> QED  BY <1>3, <1>4, <1>5, <1>6 DEF StartServer

\* Shutdown, jobs and poll cycle leave the start where it is and start nothing.
LEMMA ShutdownStarts ==
  ASSUME SInv, Shutdown
  PROVE  SInv'
<1> USE DEF SInv
<1>1. UNCHANGED <<databaseVars, migrationVars, startVars, batch, marking, unread>>
  BY DEF Shutdown, GracefulShutdown, CloseQueue, ExitGracefully, ExitAfterError, WorkerCloses, QueueCloses, pollVars
<1>2. MigrationInv' /\ GTypeOK' /\ phase' = phase
  BY <1>1, DatabaseStays
<1>3. /\ production' = production /\ starts' \in 1 .. MaxStarts /\ exit' \in {"no", "ok", "failed"}
      /\ \A mails \in {waiting', active', orphans', ended'} : mails \subseteq Mail
  <2>1. Exit("ok") \/ UNCHANGED <<lifeVars, jobVars>>
    BY DEF Shutdown, GracefulShutdown, CloseQueue, ExitGracefully, ExitAfterError, WorkerCloses, QueueCloses
  <2>2. CASE Exit("ok")
    BY <2>2 DEF Exit, STypeOK
  <2>3. CASE UNCHANGED <<lifeVars, jobVars>>
    BY <2>3 DEF lifeVars, jobVars, STypeOK
  <2> QED  BY <2>1, <2>2, <2>3
<1>4. /\ worker' \in {worker, "closing", "closed"} /\ (worker = "none" => worker' = "none")
      /\ queue' \in {queue, "closing", "closed"}
  BY DEF Shutdown, GracefulShutdown, CloseQueue, ExitGracefully, ExitAfterError, WorkerCloses, QueueCloses, closeVars
<1>5. handler' \in [Signal -> {"none", "worker", "queue", "only_queue", "error"}]
  BY DEF Shutdown, GracefulShutdown, CloseQueue, ExitGracefully, ExitAfterError, WorkerCloses, QueueCloses,
    closeVars, STypeOK
<1>6. timer' \in {timer, FALSE}
  BY DEF Shutdown, GracefulShutdown, CloseQueue, ExitGracefully, ExitAfterError, WorkerCloses, QueueCloses, pollVars
<1>7. STypeOK'
  <2>1. timer' \in BOOLEAN
    BY <1>6, Zenon DEF STypeOK
  <2>2. worker' \in {"none", "running", "closing", "closed"} /\ queue' \in {"open", "closing", "closed"}
    BY <1>4 DEF STypeOK
  <2> QED  BY <1>1, <1>2, <1>3, <1>5, <2>1, <2>2 DEF STypeOK, startVars
<1>8. StartInv'
  <2>1. ~timer => ~timer'
    BY <1>6, Zenon
  <2> QED  BY <1>1, <1>2, <1>3, <1>4, <2>1 DEF StartInv, startVars
<1> QED  BY <1>2, <1>7, <1>8

LEMMA WorkStarts ==
  ASSUME SInv, Work
  PROVE  SInv'
<1> USE DEF SInv
<1> USE DEF TakeJob, EndJob, StalledCheck, EnqueueEmail, PollEmails, MarkAsRead
<1>1. UNCHANGED <<databaseVars, migrationVars, lifeVars, startVars, closeVars, timer>>
  BY DEF Work, pollVars
<1>2. MigrationInv' /\ GTypeOK' /\ phase' = phase
  BY <1>1, DatabaseStays
<1>3. /\ \A mails \in {batch', unread', waiting', active', orphans', ended'} : mails \subseteq Mail
      /\ marking' \in Mail \cup {NoMail}
      /\ batch' \subseteq batch \/ timer
  <2>1. ASSUME NEW m \in Mail, TakeJob(m) \/ EndJob(m) \/ StalledCheck(m)
        PROVE  <1>3
    BY <2>1 DEF STypeOK, pollVars
  <2>2. ASSUME NEW m \in Mail, EnqueueEmail(m)
        PROVE  <1>3
    BY <2>2 DEF STypeOK
  <2>3. CASE PollEmails
    BY <2>3 DEF STypeOK, jobVars
  <2>4. CASE MarkAsRead
    BY <2>4 DEF STypeOK, jobVars
  <2> QED  BY <2>1, <2>2, <2>3, <2>4 DEF Work
<1>4. STypeOK'
  BY <1>1, <1>2, <1>3 DEF STypeOK, lifeVars, startVars, closeVars
<1>5. StartInv'
  BY <1>1, <1>2, <1>3 DEF StartInv, lifeVars, startVars, closeVars
<1> QED  BY <1>2, <1>4, <1>5

\* A process that starts again finds the database as the last one left it.
LEMMA StartAgainStarts ==
  ASSUME SInv, StartAgain
  PROVE  SInv'
<1>1. MigrationInv'
  BY DEF SInv, StartAgain, databaseVars, MigrationInv, GTypeOK, RecordedIsApplied
<1>2. handler' \in [Signal -> {"none", "worker", "queue", "only_queue", "error"}] /\ starts' \in 1 .. MaxStarts
  BY ServerAssumption DEF SInv, StartAgain, STypeOK
<1>3. STypeOK'
  BY <1>1, <1>2 DEF MigrationInv, SInv, StartAgain, STypeOK, Service, jobVars
<1>4. StartInv'
  BY DEF StartAgain, StartInv, Answered
<1> QED  BY <1>1, <1>3, <1>4 DEF SInv

LEMMA StepStarts == SInv /\ [SNext]_svars => SInv'
<1> SUFFICES ASSUME SInv, [SNext]_svars PROVE SInv'
  OBVIOUS
<1>1. CASE UNCHANGED svars
  <2>1. MigrationInv' /\ GTypeOK' /\ phase' = phase
    BY <1>1, DatabaseStays DEF SInv, svars
  <2>2. STypeOK' /\ StartInv'
    BY <1>1, <2>1 DEF SInv, svars, lifeVars, startVars, pollVars, jobVars, closeVars, STypeOK, StartInv
  <2> QED  BY <2>1, <2>2 DEF SInv
<1> QED  BY <1>1, StartServerStarts, ShutdownStarts, WorkStarts, StartAgainStarts DEF SNext

LEMMA AlwaysSInv == SSpec => []SInv
  BY StartInitInv, StepStarts, PTL DEF SSpec

\* Every variable keeps its type, and the migrations a file at hand and statements
\* of that file (startServer, runMigrations).
THEOREM TypeCorrect == SSpec => []STypeOK
<1>1. SInv => STypeOK
  BY DEF SInv
<1> QED  BY <1>1, AlwaysSInv, PTL

\* A row of migration_history means that all its file makes is there, whatever
\* failed, was left out, was applied twice or was prepared by hand (runMigrations).
THEOREM HistoryIsTrue == SSpec => []RecordedIsApplied
<1>1. SInv => RecordedIsApplied
  BY DEF SInv, MigrationInv
<1> QED  BY <1>1, AlwaysSInv, PTL

\* In production worker and scheduler run only on a complete schema, with all four
\* services reached (startServer, runMigrations).
THEOREM ProductionStartsComplete == SSpec => []ProductionIsComplete
<1>1. ASSUME SInv, production, worker # "none" \/ timer \/ batch # {}
      PROVE  connected = Service /\ UNION {ObjectsOf(f) : f \in File} \subseteq objects
  <2>1. start = "ready"
    BY <1>1 DEF SInv, StartInv
  <2>2. connected = Service /\ phase = "done"
    BY <1>1, <2>1 DEF SInv, StartInv, Answered
  <2>3. pending = {}
    BY <1>1, <2>2 DEF SInv, STypeOK, GTypeOK
  <2>4. \A f \in File : Applied(f)
    BY <1>1, <2>2, <2>3 DEF SInv, MigrationInv
  <2> QED  BY <2>2, <2>4 DEF Applied
<1>2. SInv => ProductionIsComplete
  BY <1>1 DEF ProductionIsComplete
<1> QED  BY <1>2, AlwaysSInv, PTL
=============================================================================
