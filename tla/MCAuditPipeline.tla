-------------------------- MODULE MCAuditPipeline --------------------------
(* Finite instances of AuditPipeline for TLC. *)
EXTENDS AuditPipeline

=============================================================================
