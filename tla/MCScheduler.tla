---------------------------- MODULE MCScheduler ----------------------------
(* A schedule that is changed three times, or two schedules left as they are. *)
EXTENDS Scheduler

CONSTANTS t1, t2, x1, l1, l2, l3

MCMaxRun == <<2, 1>>
MCMaxUpdate == <<3, 0>>
=============================================================================
