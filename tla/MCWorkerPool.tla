----------------------------- MODULE MCWorkerPool -----------------------------
(***************************************************************************)
(* A small instance of WorkerPool for TLC: one job through three attempts  *)
(* and two processes.                                                      *)
(***************************************************************************)
EXTENDS WorkerPool

OneJob == {"j1"}
=============================================================================
