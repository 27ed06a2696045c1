----------------------------- MODULE MCExecutor -----------------------------
(* One function that clients may trigger and one only the panel executes, and *)
(* queues that the PELs and progress codes overflow.                          *)
EXTENDS Executor
=============================================================================
