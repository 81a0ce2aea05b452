--------------------------- MODULE MC_BBTraceModes ---------------------------
(* Both builds of every input of BBTraceInputs. *)
EXTENDS BBTraceModes, BBTraceInputs
=============================================================================
