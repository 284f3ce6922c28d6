-------------------------- MODULE MCCollectorWorker --------------------------
(***************************************************************************)
(* CollectorWorker with main and two connections.                          *)
(***************************************************************************)
EXTENDS CollectorWorker

CONSTANTS main_task, c1, c2
=============================================================================
