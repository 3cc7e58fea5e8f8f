-------------------------------- MODULE Dvm --------------------------------
(***************************************************************************)
(* The process: the handlers of Intake and the loop and tasks of           *)
(* Scheduler, over the same tables jobs and events and the same clock, die *)
(* together in a crash (main.rs).  Each of the two stands for the other in *)
(* its own module by a few actions of the environment; here the steps of   *)
(* the one are checked to be steps the other allows.                       *)
(***************************************************************************)
EXTENDS Naturals, Sequences, FiniteSets

CONSTANTS Request, OutOfBounds, Scheduled, RunDate, WithEvent, EventName,
          Delivery, Paid, Task, Nobody, NoJob, Outcome, Expected, NoOutcome,
          MaxTime, MaxFailures, MaxFaults

VARIABLES now, jobs, event,
          byInvoice, seen, at, invoice, charges, answers, sent, failures,
          round, fetched, todo, active, lock, pc, job, outcome, replies,
          signed, attested, faults

intakeOnly == <<byInvoice, seen, at, invoice, charges, answers, sent, failures>>
schedulerOnly == <<round, fetched, todo, active, lock, pc, job, outcome,
                   replies, signed, attested, faults>>
vars == <<now, jobs, event, intakeOnly, schedulerOnly>>

Intake == INSTANCE Intake
Scheduler == INSTANCE Scheduler WITH Job <- Request

ASSUME DvmAssumption ==
    Intake!IntakeAssumption /\ Scheduler!SchedulerAssumption

Init == Intake!Init /\ Scheduler!Init

Crash == Intake!Crash /\ Scheduler!Crash

Next ==
    \/ Intake!IntakeNext /\ UNCHANGED schedulerOnly
    \/ Intake!Tick /\ UNCHANGED schedulerOnly
    \/ Scheduler!SchedulerNext /\ UNCHANGED intakeOnly
    \/ Crash

Spec == Init /\ [][Next]_vars

-----------------------------------------------------------------------------
(* Properties.                                                              *)

\* The handlers change the tables only as Scheduler assumes: a row is inserted
\* before its date, an unscheduled one is answered, an event advances.
ImplementsScheduler == Scheduler!Spec

\* The scheduler changes the tables only as Intake assumes: it answers a
\* scheduled row after its date.
ImplementsIntake == Intake!Spec

\* "Pay per time execution" (README.md): what is run is paid for.
RunsArePaid ==
    \A r \in Request : replies[r] # <<>> => Intake!Payments(r) > 0

-----------------------------------------------------------------------------
(* The promise of OracleService.                                            *)

Oracle == INSTANCE OracleService WITH
    paid <- {r \in Request : charges[r] > 0 \/ invoice[r] = "settled"},
    announced <- {r \in Request : event[r] = "announced"},
    shown <- [r \in Request |-> {replies[r][i] : i \in DOMAIN replies[r]}],
    answered <- {r \in Scheduled : jobs[r] = "done"}

\* Handlers and scheduler together implement the oracle of OracleService: the
\* announcement of an event is stored only after a payment, for one of those
\* with its name; results are shown after the date; and what is attested was
\* signed once, for an announced event, after its answer was stored and among
\* what runs showed, however deliveries, runs, failures and crashes interleave
\* (handle_job_request, run_scheduled_job).
ImplementsOracle == Oracle!Spec

=============================================================================
