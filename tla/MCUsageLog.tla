----------------------------- MODULE MCUsageLog -----------------------------
(* Small instances of the log of tool calls. *)
EXTENDS UsageLog
=============================================================================
