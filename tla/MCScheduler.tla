----------------------------- MODULE MCScheduler -----------------------------
(* Model-checking instance of Scheduler: the boot's rotation, in which          *)
(* kernel_main and task A never block.                                          *)
EXTENDS Scheduler

MCPerpetual == {0, 1}
=============================================================================
