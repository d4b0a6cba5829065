----------------------------- MODULE Migrations -----------------------------
(***************************************************************************)
(* database/migrate.ts: the SQL files of migrations/ are split at          *)
(* semicolons and applied, statement by statement and without a            *)
(* transaction, to a database that may have been prepared by hand with     *)
(* all_migrations.sql.  A file is known by its number.                     *)
(***************************************************************************)
EXTENDS Naturals, Sequences, FiniteSetsExt

CONSTANTS
  Object,           \* tables and column groups that the files create
  HistoryTable,     \* the object migration_history
  Script,           \* the text between the semicolons of each file, in order
  MigrationFaults   \* which of the failures below may happen

MigrationFaultKinds ==
  { "read",   \* the history cannot be read
    "ddl" }   \* a statement is refused, or its answer is lost

File == 1 .. Len(Script)

\* What a piece of text begins with decides its fate: SQL is executed, a piece
\* that begins with a comment is left out, prose (a comment cut in two by its
\* own semicolon) is a syntax error.
Piece == [leads : {"sql", "comment", "prose"}, makes : SUBSET Object, needs : SUBSET Object]

ObjectsOf(f) == UNION {Script[f][i].makes : i \in DOMAIN Script[f]}

\* raw.split(';').filter(...): the places of the pieces that are executed.  A
\* comment that precedes a statement takes the statement with it.
Statements(f) == {i \in DOMAIN Script[f] : Script[f][i].leads # "comment"}

\* What the filter takes from a file is missed by what it leaves: the file cannot be
\* executed at all, or its statements make or need each object the file is to make.
\* So it is with the eight files, whose last statements index or comment on what
\* they create.
NoticesWhatIsLost(f) ==
  \/ \E i \in Statements(f) : Script[f][i].leads # "sql"
  \/ ObjectsOf(f) \subseteq UNION {Script[f][i].makes \cup Script[f][i].needs : i \in Statements(f)}

ASSUME MigrationAssumption ==
  /\ Script \in Seq(Seq(Piece)) /\ File # {}
  /\ HistoryTable \in Object
  /\ MigrationFaults \subseteq MigrationFaultKinds

ASSUME FilesAssumption == \A f \in File : NoticesWhatIsLost(f)

VARIABLES
  objects,   \* what exists in the database
  history,   \* rows of migration_history
  phase,     \* where runMigrations is
  pending,   \* files it still has to apply, the first of them at hand
  todo       \* places of the statements left of the file at hand

databaseVars == <<objects, history>>
migrationVars == <<phase, pending, todo>>

GTypeOK ==
  /\ objects \in SUBSET Object
  /\ history \in SUBSET File
  /\ phase \in {"idle", "read", "apply", "done", "failed"}
  /\ pending \in SUBSET File
  /\ phase = "apply" <=> pending # {}
  /\ todo \subseteq IF phase = "apply" THEN Statements(Min(pending)) ELSE {}

\* Nothing, or what all_migrations.sql of some earlier day has made and recorded.
DatabaseInit ==
  \E n \in {0} \cup File :
    /\ history = 1 .. n
    /\ objects = UNION {ObjectsOf(f) : f \in 1 .. n}

MigrationInit == phase = "idle" /\ pending = {} /\ todo = {}

(***************************************************************************)
(* Definitions marked faulty are plausible mistakes; no action uses them.  *)
(***************************************************************************)

\* The file at hand is the first of those still pending.
Open(files) ==
  /\ pending' = files
  /\ phase' = IF files = {} THEN "done" ELSE "apply"
  /\ todo' = IF files = {} THEN {} ELSE Statements(Min(files))

\* The statement that is next.
AtHand == Script[Min(pending)][Min(todo)]

\* Faulty: the files include all_migrations.sql, which comes last.
ReadEveryFile ==
  /\ phase = "read"
  /\ pending' = (File \cup {Len(Script) + 1}) \ history
  /\ phase' = "apply" /\ todo' = {}
  /\ UNCHANGED databaseVars

\* getAppliedMigrations: without the table, or on an error, nothing is applied.
ReadHistory ==
  /\ phase = "read"
  /\ \/ Open(File \ IF HistoryTable \in objects THEN history ELSE {})
     \/ "read" \in MigrationFaults /\ Open(File)
  /\ UNCHANGED databaseVars

\* Faulty: the row is written before the statements are executed.
ApplyRecorded ==
  /\ phase = "apply" /\ todo # {}
  /\ history' = IF HistoryTable \in objects THEN history \cup {Min(pending)} ELSE history
  /\ \/ /\ AtHand.leads = "sql" /\ AtHand.needs \subseteq objects
        /\ objects' = objects \cup AtHand.makes
        /\ todo' = todo \ {Min(todo)}
        /\ UNCHANGED <<phase, pending>>
     \/ phase' = "failed" /\ pending' = {} /\ todo' = {} /\ UNCHANGED objects

\* Everything is created IF NOT EXISTS.  The first error ends the migrations.
ApplyStatement ==
  /\ phase = "apply" /\ todo # {}
  /\ LET accepted == AtHand.leads = "sql" /\ AtHand.needs \subseteq objects
     IN  \/ /\ accepted
            /\ objects' = objects \cup AtHand.makes
            /\ todo' = todo \ {Min(todo)}
            /\ UNCHANGED <<phase, pending>>
         \/ /\ ~accepted \/ "ddl" \in MigrationFaults
            /\ objects' = objects \/ (accepted /\ objects' = objects \cup AtHand.makes)
            /\ phase' = "failed" /\ pending' = {} /\ todo' = {}
  /\ UNCHANGED history

\* The row of a file that has been applied; any error of this INSERT is ignored.
RecordMigration ==
  /\ phase = "apply" /\ todo = {}
  /\ \/ HistoryTable \in objects /\ history' = history \cup {Min(pending)}
     \/ /\ HistoryTable \notin objects \/ "ddl" \in MigrationFaults
        /\ UNCHANGED history
  /\ Open(pending \ {Min(pending)})
  /\ UNCHANGED objects

MigrationStep == ReadHistory \/ ApplyStatement \/ RecordMigration

-----------------------------------------------------------------------------
\* What is recorded has been applied in full, although statements are left out,
\* a file is applied without a transaction, and the history may be unreadable when
\* what it records is applied again (runMigrations).
RecordedIsApplied == \A f \in history : ObjectsOf(f) \subseteq objects
=============================================================================
