------------------------------ MODULE MCServer ------------------------------
(***************************************************************************)
(* An instance of Server for TLC with the eight files of migrations/.      *)
(***************************************************************************)
EXTENDS Server

CONSTANT e1

Sql(makes, needs) == [leads |-> "sql", makes |-> makes, needs |-> needs]
Commented(makes, needs) == [leads |-> "comment", makes |-> makes, needs |-> needs]

Tables == {"users", "transactions", "notification_logs", "migration_history",
           "members", "monthly_records", "users.status", "sinpe_name_mappings"}

\* The indexes of a file are one statement.
Files ==
  << << Commented({"users"}, {}), Sql({}, {"users"}) >>,
     << Commented({"transactions"}, {"users"}), Sql({}, {"transactions"}) >>,
     << Commented({"notification_logs"}, {"transactions", "users"}), Sql({}, {"notification_logs"}) >>,
     << Commented({"migration_history"}, {}), Sql({}, {"migration_history"}) >>,
     << Commented({"members"}, {}), Sql({}, {"members"}) >>,
     << Commented({"monthly_records"}, {"members", "transactions"}), Sql({}, {"monthly_records"}) >>,
     << Commented({"users.status"}, {"users", "members", "transactions"}), Sql({}, {"users.status"}) >>,
     << Commented({}, {}),
        [leads |-> "prose", makes |-> {"sinpe_name_mappings"}, needs |-> {"members"}],
        Sql({}, {"sinpe_name_mappings"}) >> >>
=============================================================================
