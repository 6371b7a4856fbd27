---------------------------- MODULE MCExportJobs ----------------------------
(* Finite instances of ExportJobs for TLC: every job is one user's. *)
EXTENDS ExportJobs, TLC

CONSTANT u1

OneUser == [j \in Jobs |-> u1]

=============================================================================
