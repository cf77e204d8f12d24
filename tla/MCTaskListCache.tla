--------------------------- MODULE MCTaskListCache ---------------------------
(***************************************************************************)
(* A small instance of TaskListCache.                                      *)
(***************************************************************************)
EXTENDS TaskListCache
=============================================================================
