------------------------------ MODULE MCIntake ------------------------------
(***************************************************************************)
(* Instances of Intake: a request without schedule and one that is         *)
(* refused, or two scheduled requests whose events have the same name;     *)
(* each can be delivered several times.                                    *)
(***************************************************************************)
EXTENDS Intake, TLC

CONSTANTS plain, s1, s2, bad, d1, d2

mcRunDate == [r \in Scheduled |-> 1]
mcEventName == [r \in WithEvent |-> "match"]

Symmetric == Permutations(Delivery) \cup Permutations(WithEvent)

=============================================================================
