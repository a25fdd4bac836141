---------------------------- MODULE MCRunExecution ----------------------------
(* A small instance of RunExecution. *)
EXTENDS RunExecution
=============================================================================
