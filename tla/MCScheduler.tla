---------------------------- MODULE MCScheduler ----------------------------
(***************************************************************************)
(* Instances: two harts, where the boot hart starts the other and either   *)
(* may stop again, and three, where two running harts can race to start    *)
(* the third.                                                              *)
(***************************************************************************)
EXTENDS Scheduler
=============================================================================
