--------------------------- MODULE MetadataResolver ---------------------------
(***************************************************************************)
(* ContainerMetadataResolver.resolve and _expand_target: the backup        *)
(* targets that the labels and the environment of a container ask for, or  *)
(* their rejection.                                                        *)
(*                                                                         *)
(* Labels and environment are functions from the keys the code looks up to *)
(* values.  A value is stripped and in lower case where the code makes it  *)
(* so; Blank is what is left of an empty one, and stands for an absent one *)
(* too.  A comma-separated value is the sequence of its parts, the value   *)
(* of a port the result of int(), NotANumber when that raises.             *)
(***************************************************************************)
EXTENDS Integers, SequencesExt

CONSTANTS Blank, NotANumber

ASSUME NotANumberAssumption == NotANumber \notin Int /\ Blank \notin Int

Engine == {"postgresql", "mariadb"}

\* The keys a field is looked up under, first match first.
LabelKeys ==
  [postgresql |-> [user     |-> <<"backup_agent.user", "backup_agent.pguser">>,
                   host     |-> <<"backup_agent.host", "backup_agent.pghost">>,
                   port     |-> <<"backup_agent.port", "backup_agent.pgport">>,
                   password |-> <<"backup_agent.password", "backup_agent.pgpassword">>,
                   database |-> <<"backup_agent.database", "backup_agent.pgdatabase">>],
   mariadb    |-> [user     |-> <<"backup_agent.user", "backup_agent.mariadbuser">>,
                   host     |-> <<"backup_agent.host", "backup_agent.mariadbhost">>,
                   port     |-> <<"backup_agent.port", "backup_agent.mariadbport">>,
                   password |-> <<"backup_agent.password", "backup_agent.mariadbpassword">>,
                   database |-> <<"backup_agent.database", "backup_agent.mariadbdatabase">>]]
EnvKeys ==
  [postgresql |-> [user     |-> <<"POSTGRES_USER">>,
                   host     |-> <<"POSTGRES_HOST">>,
                   port     |-> <<"POSTGRES_PORT">>,
                   password |-> <<"POSTGRES_PASSWORD">>,
                   database |-> <<"POSTGRES_DB", "POSTGRES_DATABASE">>],
   mariadb    |-> [user     |-> <<"MARIADB_USER", "MYSQL_USER">>,
                   host     |-> <<"MARIADB_HOST", "MYSQL_HOST">>,
                   port     |-> <<"MARIADB_PORT", "MYSQL_PORT">>,
                   password |-> <<"MARIADB_PASSWORD", "MARIADB_ROOT_PASSWORD",
                                  "MYSQL_PASSWORD", "MYSQL_ROOT_PASSWORD">>,
                   database |-> <<"MARIADB_DATABASE", "MYSQL_DATABASE">>]]
DefaultPort == [postgresql |-> 5432, mariadb |-> 3306]

-------------------------------------------------------------------------------
(***************************************************************************)
(* Looking values up.                                                      *)
(***************************************************************************)

Value(values, key) == IF key \in DOMAIN values THEN values[key] ELSE Blank

\* parse_database_list, parse_directory_list and the split of the type label.
Parts(value) ==
  IF value = Blank THEN <<>> ELSE SelectSeq(value, LAMBDA part : part # Blank)

\* _select_value: the first key of the labels, then of the environment, whose
\* value is not blank.
SelectValue(c, engine, field) ==
  LET Given(values, keys) ==
        SelectSeq([i \in 1..Len(keys) |-> Value(values, keys[i])], LAMBDA v : v # Blank)
      found == Given(c.labels, LabelKeys[engine][field]) \o Given(c.env, EnvKeys[engine][field])
  IN  IF found = <<>> THEN Blank ELSE Head(found)

IsEnabled(c) == Value(c.labels, "backup_agent.enabled") \in {"1", "true", "yes", "on"}

NormalizeBackupType(token) ==
  CASE token \in {"postgresql", "postgres", "pg"} -> "postgresql"
    [] token \in {"mariadb", "mysql"} -> "mariadb"
    [] token \in {"filesystem", "files", "directories", "archive"} -> "filesystem"
    [] OTHER -> "unsupported"

RequestedTypes(c) ==
  {NormalizeBackupType(token) : token \in ToSet(Parts(Value(c.labels, "backup_agent.type")))}

Directories(c) == Parts(Value(c.labels, "backup_agent.directories"))

-------------------------------------------------------------------------------
(***************************************************************************)
(* What a container is rejected for, and the targets it is otherwise       *)
(* resolved to.                                                            *)
(***************************************************************************)

\* Mutant of MissingFields: no password is needed.
MissingFieldsWithoutPassword(c, engine) ==
  {field \in {"user", "host"} : SelectValue(c, engine, field) = Blank}
    \cup {field \in {"port"} : SelectValue(c, engine, field) = NotANumber}

\* The list `missing` of _build_target.
MissingFields(c, engine) ==
  {field \in {"user", "host", "password"} : SelectValue(c, engine, field) = Blank}
    \cup {field \in {"port"} : SelectValue(c, engine, field) = NotANumber}

\* resolve raises MetadataResolutionError.
IsRejected(c) ==
  LET types == RequestedTypes(c)
  IN  \/ types = {} \/ "unsupported" \in types
      \/ Engine \subseteq types
      \/ ("filesystem" \in types) # (Directories(c) # <<>>)
      \/ \E engine \in types \cap Engine : MissingFields(c, engine) # {}

\* _build_target, for the container called name.
DatabaseTarget(c, name, engine) ==
  LET port == SelectValue(c, engine, "port")
      databases == Parts(SelectValue(c, engine, "database"))
  IN  [container |-> name,
       db_type |-> engine,
       host |-> SelectValue(c, engine, "host"),
       port |-> IF port = Blank THEN DefaultPort[engine] ELSE port,
       user |-> SelectValue(c, engine, "user"),
       password |-> SelectValue(c, engine, "password"),
       databases |-> databases,
       all_databases |-> databases = <<>>,
       dump_format |-> Value(c.labels, "backup_agent.dump_format"),
       directories |-> <<>>]

\* _resolve_filesystem; the target _expand_target adds to that of a database
\* differs in its credentials, which the provider does not use.
FilesystemTarget(c, name) ==
  [container |-> name,
   db_type |-> "filesystem",
   host |-> name,
   port |-> 0,
   user |-> Blank,
   password |-> Blank,
   databases |-> <<>>,
   all_databases |-> FALSE,
   dump_format |-> Blank,
   directories |-> Directories(c)]

\* The targets of a container that is not rejected: that of its database, if it
\* asks for one, before that of its directories.
Targets(c, name) ==
  LET engines == RequestedTypes(c) \cap Engine
      database == DatabaseTarget(c, name, CHOOSE engine \in engines : TRUE)
      archive == FilesystemTarget(c, name)
  IN  CASE engines = {} -> <<archive>>
        [] engines # {} /\ Directories(c) = <<>> -> <<database>>
        [] OTHER -> <<database, archive>>

\* validate of the provider a target belongs to does not raise.
IsValid(t) ==
  IF t.db_type = "filesystem"
  THEN t.directories # <<>> /\ \A directory \in ToSet(t.directories) : directory.absolute
  ELSE /\ t.host # Blank /\ t.user # Blank /\ t.password # Blank
       /\ t.port > 0
       /\ t.all_databases \/ t.databases # <<>>

\* _resolve_dump_formats of PostgreSQL returns an error.
IsFormatRefused(t) ==
  /\ t.db_type = "postgresql"
  /\ t.dump_format \notin {Blank, "sql_gzip"} \cup (IF t.all_databases THEN {} ELSE {"binary", "both"})
===============================================================================
