--------------------------- MODULE MCBackendTasks ---------------------------
(* BackendTasks with two thread identities (a second one is used only if    *)
(* two media syncs ever overlap) and two queued operations.                 *)
EXTENDS BackendTasks

CONSTANTS t1, t2, none
=============================================================================
