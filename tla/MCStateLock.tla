---------------------------- MODULE MCStateLock -----------------------------
(***************************************************************************)
(* Instances of StateLock for TLC.                                          *)
(***************************************************************************)
EXTENDS StateLock

\* The timer's command, a recovery and a read verb.
Ingest == [command |-> "ingest", flag |-> "none"]
Rebuild == [command |-> "doctor", flag |-> "rebuild"]
Status == [command |-> "status", flag |-> "none"]

Commands == {Ingest, Rebuild, Status}
=============================================================================
