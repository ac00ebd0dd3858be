---------------------------- MODULE MCOrchestrator ----------------------------
(***************************************************************************)
(* The configurations of storage backends under which TLC checks the       *)
(* orchestrator; the order is that of build_storage_provider.              *)
(***************************************************************************)
EXTENDS Orchestrator

RsyncOnly == <<"rsync">>
FtpOnly == <<"ftp">>
LocalAndFtp == <<"local", "ftp">>
LocalAndRsync == <<"local", "rsync">>
===============================================================================
