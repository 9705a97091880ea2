---------------------------- MODULE MCTaskManager ----------------------------
(***************************************************************************)
(* An instance of TaskManager for TLC.                                     *)
(***************************************************************************)
EXTENDS TaskManager

AllKinds == {"task", "working", "completed", "artifact", "append"}
=============================================================================
