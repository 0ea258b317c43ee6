--------------------------- MODULE MCReportOutbox ---------------------------
(* Small instances of ReportOutbox for TLC, and where a process may die. *)
EXTENDS ReportOutbox, TLC

Anywhere == Procs \X (UpdaterPCs \cup SenderPCs)

Symmetric == Permutations(Refusals)
=============================================================================
