--------------------------- MODULE MCDatabaseBackup ---------------------------
(***************************************************************************)
(* Instances of DatabaseBackup for TLC.  "shop orders" and "shop-orders"   *)
(* are two databases of one server; _safe_name makes one file name of the  *)
(* two.                                                                    *)
(***************************************************************************)
EXTENDS DatabaseBackup

MCDatabase == {"app", "shop orders", "shop-orders"}
MCSafeName ==
  [s \in MCDatabase \cup {"all databases", "several databases"} |->
     IF s = "shop orders" THEN "shop-orders" ELSE s]

===============================================================================
