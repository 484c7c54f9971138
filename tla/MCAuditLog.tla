----------------------------- MODULE MCAuditLog -----------------------------
(* Small instances of AuditLog for TLC; the configurations fix the constants. *)
EXTENDS AuditLog

=============================================================================
