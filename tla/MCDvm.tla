------------------------------- MODULE MCDvm -------------------------------
(***************************************************************************)
(* Instances of Dvm: a scheduled request with an oracle event and one      *)
(* without schedule; as many tasks as a claimed job can wait for.          *)
(***************************************************************************)
EXTENDS Dvm, TLC

CONSTANTS plain, s1, d1, t1, t2, yes

mcRunDate == [r \in Scheduled |-> 1]
mcEventName == [r \in WithEvent |-> "match"]

Symmetric == Permutations(Task)

=============================================================================
