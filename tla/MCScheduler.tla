---------------------------- MODULE MCScheduler ----------------------------
(***************************************************************************)
(* Instances of Scheduler: two scheduled jobs, one of them with an oracle  *)
(* event, and one job that is not scheduled; as many tasks as scheduled    *)
(* jobs, so that a claimed job always finds a free one; two outcomes that  *)
(* the oracle lists and one that it does not.                              *)
(***************************************************************************)
EXTENDS Scheduler, TLC

CONSTANTS j1, j2, j3, t1, t2

mcRunDate == j1 :> 0 @@ j2 :> 0

Symmetric == Permutations({t1, t2})

=============================================================================
