----------------------------- MODULE MCBackupPhase -----------------------------
(***************************************************************************)
(* Labels and environments for TLC: each kind of container the resolver    *)
(* accepts, and one for each reason it has to reject or a provider has to  *)
(* refuse one.  The value of a key is named after the key, so that it      *)
(* tells where it was found.                                               *)
(***************************************************************************)
EXTENDS BackupPhase

TwoContainers == <<"shop", "wiki">>

Labels(more) == ("backup_agent.enabled" :> "true") @@ more
Type(tokens) == "backup_agent.type" :> tokens
Format(format) == "backup_agent.dump_format" :> format
Listed(directories) == "backup_agent.directories" :> directories

At(path, base) == [path |-> path, base |-> base, absolute |-> TRUE]
Uploads == At("/srv/uploads", "uploads")
Data == At("/srv/data", "data")
OldData == At("/old/data", "data")
Relative == [path |-> "data", base |-> "data", absolute |-> FALSE]

PostgresEnv == [key \in {"POSTGRES_USER", "POSTGRES_PASSWORD", "POSTGRES_HOST"} |-> key]
MySQLEnv == [key \in {"MYSQL_USER", "MYSQL_ROOT_PASSWORD"} |-> key]

DatabaseMetadata == {
  [labels |-> Labels(Type(<<"pg", Blank>>) @@ Format("both")),
   env    |-> PostgresEnv @@ ("POSTGRES_DB" :> <<"app", Blank, "stats">>)],
  [labels |-> Labels(Type(<<"postgresql">>) @@ Format("custom")),
   env    |-> PostgresEnv @@ ("POSTGRES_DB" :> <<"app">>)],
  [labels |-> Labels(Type(<<"mysql", "mariadb">>) @@ Format("binary")
                     @@ ("backup_agent.host" :> "backup_agent.host")
                     @@ ("backup_agent.user" :> Blank)
                     @@ ("backup_agent.mariadbuser" :> "backup_agent.mariadbuser")),
   env    |-> MySQLEnv @@ ("MYSQL_PORT" :> 3307)],
  [labels |-> Labels(Type(<<"postgres">>) @@ ("backup_agent.port" :> 0)), env |-> PostgresEnv],
  [labels |-> Labels(Type(<<"postgres">>) @@ ("backup_agent.pgport" :> NotANumber)),
   env    |-> PostgresEnv],
  [labels |-> Labels(Type(<<"mariadb">>) @@ ("backup_agent.host" :> "backup_agent.host")),
   env    |-> [key \in {"MARIADB_USER"} |-> key]],
  [labels |-> Labels(Type(<<"postgresql", "mariadb">>)), env |-> PostgresEnv @@ MySQLEnv],
  [labels |-> Labels(Type(<<"postgresql", "redis">>)), env |-> PostgresEnv],
  [labels |-> Labels(Type(<<"postgresql">>) @@ Listed(<<Data>>)), env |-> PostgresEnv]}

DirectoryMetadata == {
  [labels |-> Labels(Type(<<"postgresql", "files">>) @@ Listed(<<Uploads, Blank, Data>>)),
   env    |-> PostgresEnv],
  [labels |-> Labels(Type(<<"postgresql", "files">>) @@ Format("binary") @@ Listed(<<Data>>)),
   env    |-> PostgresEnv],
  [labels |-> Labels(Type(<<"archive">>) @@ Listed(<<Data, OldData, Data>>)), env |-> <<>>],
  [labels |-> Labels(Type(<<"filesystem">>) @@ Listed(<<Relative>>)), env |-> <<>>],
  [labels |-> Labels(Type(<<"directories">>) @@ Listed(<<Blank>>)), env |-> <<>>]}

MCMetadata ==
  DatabaseMetadata \cup DirectoryMetadata \cup {
    [labels |-> Labels(Type(Blank)), env |-> PostgresEnv],
    [labels |-> Type(<<"postgresql">>), env |-> PostgresEnv]}
===============================================================================
