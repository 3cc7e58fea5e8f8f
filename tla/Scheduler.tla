----------------------------- MODULE Scheduler -----------------------------
(***************************************************************************)
(* Scheduled execution.  Every ten seconds a loop (main.rs) runs           *)
(* process_schedule_jobs_round (job_listener.rs): it reads the jobs whose  *)
(* date has passed, claims those that are not in the set `active`, and     *)
(* spawns one run_scheduled_job task for each of them.  A task runs the    *)
(* wasm, publishes the reply, and then, holding the mutex of `active` to   *)
(* its end, removes its job from the set, stores the reply's id and, for a *)
(* job with an oracle event, signs and publishes the attestation.          *)
(*                                                                         *)
(* The tables jobs and events are shared with the handlers of requests and *)
(* of settled invoices, whose steps are the actions of Environment.        *)
(***************************************************************************)
EXTENDS Naturals, Sequences, FiniteSets

CONSTANTS
    Job,        \* rows of the table jobs
    Scheduled,  \* those with a scheduled_at
    RunDate,    \* [Scheduled -> Nat]: that date
    WithEvent,  \* scheduled jobs whose request lists expected outputs
    Task,       \* identities for spawned tasks; bounds how many are alive
    Nobody,     \* the holder of a free mutex
    NoJob,      \* the job of a free task
    Outcome,    \* contents a reply may have
    Expected,   \* those the oracle event lists
    NoOutcome,  \* of an event without signature, of a task without result
    MaxTime,    \* bound on the clock
    MaxFaults   \* bound on failures and crashes

ASSUME SchedulerAssumption ==
    /\ Scheduled \subseteq Job
    /\ RunDate \in [Scheduled -> Nat]
    /\ WithEvent \subseteq Scheduled
    /\ Nobody \notin Task
    /\ Expected \subseteq Outcome
    /\ NoOutcome \notin Outcome
    /\ NoJob \notin Job
    /\ MaxTime \in Nat
    /\ MaxFaults \in Nat

VARIABLES
    now,        \* the clock of the database
    jobs,       \* [Job -> ...]: no row, response_id null, response_id set
    event,      \* [Job -> ...]: how far the job's oracle event is written
    round,      \* where the loop is
    fetched,    \* the jobs the round read
    todo,       \* claimed jobs whose task is not spawned yet
    active,     \* the shared set of claimed jobs
    lock,       \* the holder of its mutex
    pc,         \* [Task -> ...]: where the task is
    job,        \* [Task -> Job \cup {NoJob}]: its job
    outcome,    \* [Task -> Outcome \cup {NoOutcome}]: the content of its reply
    replies,    \* [Job -> Seq(Outcome)]: replies on the relays
    signed,     \* [Job -> Outcome \cup {NoOutcome}]: the stored signature
    attested,   \* [Job -> SUBSET Outcome]: attestations on the relays
    faults      \* failures and crashes so far

tables == <<jobs, event>>
loop == <<round, fetched, todo>>
tasks == <<pc, job, outcome>>
relays == <<replies, attested>>
vars == <<now, tables, loop, active, lock, tasks, relays, signed, faults>>

-----------------------------------------------------------------------------
(* The handlers of requests and settled invoices, and the clock.            *)

\* Job::create and Job::create_scheduled; a trigger refuses a past date.
InsertJob(j) ==
    /\ jobs[j] = "none"
    /\ j \in Scheduled => RunDate[j] >= now
    /\ jobs' = [jobs EXCEPT ![j] = "open"]
    /\ UNCHANGED event

\* Job::create_completed, or set_response_id in handle_invoice.
AnswerJob(j) ==
    /\ j \notin Scheduled
    /\ jobs' = [jobs EXCEPT ![j] = "done"]
    /\ UNCHANGED event

\* create_enum_event, EventJob::create and add_announcement_event_id.
WriteEvent(j) ==
    /\ j \in WithEvent
    /\ \/ event[j] = "none" /\ event' = [event EXCEPT ![j] = "created"]
       \/ /\ event[j] = "created" /\ jobs[j] # "none"
          /\ event' = [event EXCEPT ![j] = "linked"]
       \/ event[j] = "linked" /\ event' = [event EXCEPT ![j] = "announced"]
    /\ UNCHANGED jobs

Tick ==
    /\ now < MaxTime
    /\ now' = now + 1
    /\ UNCHANGED tables

Environment ==
    /\ Tick \/ (UNCHANGED now /\ \E j \in Job : InsertJob(j) \/ AnswerJob(j)
                                               \/ WriteEvent(j))
    /\ UNCHANGED <<loop, active, lock, tasks, relays, signed, faults>>

-----------------------------------------------------------------------------
(* process_schedule_jobs_round.                                             *)

\* Variant: the filter on scheduled_at is gone.
ReadyAnyDate == {j \in Scheduled : jobs[j] = "open"}

Ready == {j \in Scheduled : jobs[j] = "open" /\ RunDate[j] < now}

\* Job::get_ready_to_run_jobs, before the mutex is taken.
RoundFetch ==
    /\ round = "sleep"
    /\ fetched' = Ready
    /\ round' = "claim"
    /\ UNCHANGED <<now, tables, todo, active, lock, tasks, relays, signed,
                   faults>>

\* Variant: jobs already claimed are claimed again.
ClaimAll ==
    /\ round = "claim"
    /\ lock = Nobody
    /\ todo' = fetched
    /\ active' = active \cup todo'
    /\ fetched' = {}
    /\ round' = "spawn"
    /\ UNCHANGED <<now, tables, lock, tasks, relays, signed, faults>>

RoundClaim ==
    /\ round = "claim"
    /\ lock = Nobody
    /\ todo' = fetched \ active
    /\ active' = active \cup todo'
    /\ fetched' = {}
    /\ round' = "spawn"
    /\ UNCHANGED <<now, tables, lock, tasks, relays, signed, faults>>

SpawnTask(t) ==
    /\ round = "spawn"
    /\ pc[t] = "free"
    /\ \E j \in todo :
         /\ todo' = todo \ {j}
         /\ job' = [job EXCEPT ![t] = j]
    /\ pc' = [pc EXCEPT ![t] = "running"]
    /\ UNCHANGED <<now, tables, round, fetched, active, lock, outcome, relays,
                   signed, faults>>

RoundEnd ==
    /\ round = "spawn"
    /\ todo = {}
    /\ round' = "sleep"
    /\ UNCHANGED <<now, tables, fetched, todo, active, lock, tasks, relays,
                   signed, faults>>

-----------------------------------------------------------------------------
(* run_scheduled_job.                                                       *)

Goto(t, label) == pc' = [pc EXCEPT ![t] = label]

\* Variant: the mutex stays locked.
FinishLocked(t) ==
    /\ Goto(t, "free")
    /\ job' = [job EXCEPT ![t] = NoJob]
    /\ outcome' = [outcome EXCEPT ![t] = NoOutcome]
    /\ lock' = lock

\* A task that ends drops what it holds, the mutex guard included.
Finish(t) ==
    /\ Goto(t, "free")
    /\ job' = [job EXCEPT ![t] = NoJob]
    /\ outcome' = [outcome EXCEPT ![t] = NoOutcome]
    /\ lock' = IF lock = t THEN Nobody ELSE lock

\* Variant: the task goes on without a result.
RunWithoutResult(t) ==
    /\ pc[t] = "running"
    /\ Goto(t, "built")
    /\ UNCHANGED <<now, tables, loop, active, lock, job, outcome, relays, signed,
                   faults>>

\* run_job_request: any content, an error message included.
RunWasm(t) ==
    /\ pc[t] = "running"
    /\ \E o \in Outcome : outcome' = [outcome EXCEPT ![t] = o]
    /\ Goto(t, "built")
    /\ UNCHANGED <<now, tables, loop, active, lock, job, relays, signed,
                   faults>>

SendReply(t) ==
    /\ pc[t] = "built"
    /\ replies' = [replies EXCEPT ![job[t]] = Append(@, outcome[t])]
    /\ Goto(t, "sent")
    /\ UNCHANGED <<now, tables, loop, active, lock, job, outcome, attested,
                   signed, faults>>

\* Variant: the claim is not given up.
TakeLockKeepClaim(t) ==
    /\ pc[t] = "sent"
    /\ lock = Nobody
    /\ lock' = t
    /\ Goto(t, "locked")
    /\ UNCHANGED <<now, tables, loop, active, job, outcome, relays, signed,
                   faults>>

TakeLock(t) ==
    /\ pc[t] = "sent"
    /\ lock = Nobody
    /\ lock' = t
    /\ active' = active \ {job[t]}
    /\ Goto(t, "locked")
    /\ UNCHANGED <<now, tables, loop, job, outcome, relays, signed, faults>>

\* Variant: the response is not stored.
ForgetResponse(t) ==
    /\ pc[t] = "locked"
    /\ Goto(t, "saved")
    /\ UNCHANGED <<now, tables, loop, active, lock, job, outcome, relays, signed,
                   faults>>

SaveResponse(t) ==
    /\ pc[t] = "locked"
    /\ jobs' = [jobs EXCEPT ![job[t]] = "done"]
    /\ Goto(t, "saved")
    /\ UNCHANGED <<now, event, loop, active, lock, job, outcome, relays,
                   signed, faults>>

\* Variant: the result is not compared with the outcomes of the event.
ReadEventAnyOutcome(t) ==
    /\ pc[t] = "saved"
    /\ IF event[job[t]] = "announced"
       THEN Goto(t, "signing") /\ UNCHANGED <<lock, job, outcome>>
       ELSE Finish(t)
    /\ UNCHANGED <<now, tables, loop, active, relays, signed, faults>>

\* EventJob::get_by_job_id, get_event, and the tests on what they return.
ReadEvent(t) ==
    /\ pc[t] = "saved"
    /\ IF event[job[t]] = "announced" /\ outcome[t] \in Expected
       THEN Goto(t, "signing") /\ UNCHANGED <<lock, job, outcome>>
       ELSE Finish(t)
    /\ UNCHANGED <<now, tables, loop, active, relays, signed, faults>>

\* sign_enum_event refuses an event that has a signature.
Sign(t) ==
    /\ pc[t] = "signing"
    /\ IF signed[job[t]] = NoOutcome
       THEN /\ signed' = [signed EXCEPT ![job[t]] = outcome[t]]
            /\ Goto(t, "signed")
            /\ UNCHANGED <<lock, job, outcome>>
       ELSE Finish(t) /\ UNCHANGED signed
    /\ UNCHANGED <<now, tables, loop, active, relays, faults>>

\* add_attestation_event_id, then the last send.
StoreAttestation(t) ==
    /\ pc[t] = "signed"
    /\ Goto(t, "stored")
    /\ UNCHANGED <<now, tables, loop, active, lock, job, outcome, relays,
                   signed, faults>>

PublishAttestation(t) ==
    /\ pc[t] = "stored"
    /\ attested' = [attested EXCEPT ![job[t]] = @ \cup {outcome[t]}]
    /\ Finish(t)
    /\ UNCHANGED <<now, tables, loop, active, replies, signed, faults>>

-----------------------------------------------------------------------------
(* Failures.                                                                *)

HoldsLock(t) == pc[t] \in {"locked", "saved", "signing", "signed", "stored"}

\* Every `?` ends the task; before the mutex is taken, its job stays active.
\* A send may reach a relay and still return an error.
Fail(t) ==
    /\ faults < MaxFaults
    /\ faults' = faults + 1
    /\ \/ (pc[t] \in {"running", "built"} \/ HoldsLock(t)) /\ UNCHANGED replies
       \/ pc[t] = "built"
          /\ replies' = [replies EXCEPT ![job[t]] = Append(@, outcome[t])]
    /\ Finish(t)
    /\ UNCHANGED <<now, tables, loop, active, attested, signed>>

\* The process dies and starts again with an empty set.
Crash ==
    /\ faults < MaxFaults
    /\ faults' = faults + 1
    /\ round' = "sleep"
    /\ fetched' = {}
    /\ todo' = {}
    /\ active' = {}
    /\ lock' = Nobody
    /\ pc' = [t \in Task |-> "free"]
    /\ job' = [t \in Task |-> NoJob]
    /\ outcome' = [t \in Task |-> NoOutcome]
    /\ UNCHANGED <<now, tables, relays, signed>>

-----------------------------------------------------------------------------

Init ==
    /\ now = 0
    /\ jobs = [j \in Job |-> "none"]
    /\ event = [j \in Job |-> "none"]
    /\ round = "sleep"
    /\ fetched = {}
    /\ todo = {}
    /\ active = {}
    /\ lock = Nobody
    /\ pc = [t \in Task |-> "free"]
    /\ job = [t \in Task |-> NoJob]
    /\ outcome = [t \in Task |-> NoOutcome]
    /\ replies = [j \in Job |-> <<>>]
    /\ signed = [j \in Job |-> NoOutcome]
    /\ attested = [j \in Job |-> {}]
    /\ faults = 0

RoundStep ==
    \/ RoundFetch \/ RoundClaim \/ RoundEnd
    \/ \E t \in Task : SpawnTask(t)

TaskStep(t) ==
    \/ RunWasm(t) \/ SendReply(t) \/ TakeLock(t) \/ SaveResponse(t)
    \/ ReadEvent(t) \/ Sign(t) \/ StoreAttestation(t) \/ PublishAttestation(t)

\* The steps of the loop and of its tasks.
SchedulerNext == RoundStep \/ \E t \in Task : TaskStep(t) \/ Fail(t)

Next == Environment \/ SchedulerNext \/ Crash

\* The loop and the tasks go on.  Nothing bounds the download inside RunWasm,
\* so it may never end.  The mutex of tokio is granted in the order of the
\* requests: who waits for it gets it if it is free again and again.
Fairness ==
    /\ WF_vars(RoundFetch \/ RoundEnd \/ \E t \in Task : SpawnTask(t))
    /\ SF_vars(RoundClaim)
    /\ \A t \in Task :
         /\ WF_vars(SendReply(t) \/ SaveResponse(t) \/ ReadEvent(t) \/ Sign(t)
                    \/ StoreAttestation(t) \/ PublishAttestation(t))
         /\ SF_vars(TakeLock(t))

Spec == Init /\ [][Next]_vars
FairSpec == Spec /\ Fairness

-----------------------------------------------------------------------------
(* Properties.                                                              *)

\* The type of every variable.
TypeOK ==
    /\ now \in Nat
    /\ jobs \in [Job -> {"none", "open", "done"}]
    /\ event \in [Job -> {"none", "created", "linked", "announced"}]
    /\ round \in {"sleep", "claim", "spawn"}
    /\ fetched \subseteq Job
    /\ todo \subseteq Job
    /\ active \subseteq Job
    /\ lock \in Task \cup {Nobody}
    /\ pc \in [Task -> {"free", "running", "built", "sent", "locked", "saved",
                        "signing", "signed", "stored"}]
    /\ job \in [Task -> Job \cup {NoJob}]
    /\ outcome \in [Task -> Outcome \cup {NoOutcome}]
    /\ replies \in [Job -> Seq(Outcome)]
    /\ signed \in [Job -> Outcome \cup {NoOutcome}]
    /\ attested \in [Job -> SUBSET Outcome]
    /\ faults \in Nat

\* Two tasks never have the same job at the same time, although a round claims
\* from a list it read before it waited for the mutex, and a task gives up its
\* claim before it has stored the response (active_jobs).
NoConcurrentRun ==
    \A t, u \in Task : pc[t] # "free" /\ pc[u] # "free" /\ job[t] = job[u] => t = u

\* The stale list costs at most one superfluous reply over the life of a job;
\* each failure or crash costs at most one more (set_response_id).
RepliesBounded == \A j \in Job : Len(replies[j]) <= 2 + faults

\* A stored response stands for a reply that is on the relays, to a job whose
\* date has passed: no crash or failure marks a job as done that was not run
\* in time (get_ready_to_run_jobs, set_response_id).
DoneWasReplied ==
    \A j \in Scheduled :
        /\ jobs[j] = "done" => replies[j] # <<>>
        /\ replies[j] # <<>> => RunDate[j] < now

\* However often a job runs, and with different results, the oracle attests
\* at most one outcome, which the event lists and a reply of the job showed,
\* and only after the response was stored.
AttestationSound ==
    \A j \in Job :
        /\ Cardinality(attested[j]) <= 1
        /\ attested[j] \subseteq Expected \cap {replies[j][i] : i \in DOMAIN replies[j]}
        /\ attested[j] # {} => jobs[j] = "done"

\* A claim outlives its task only after a failure: without one, every job in
\* the set is about to be spawned or has a task that has not taken the mutex.
ClaimsAreLive ==
    faults = 0 =>
        active = todo \cup {job[t] : t \in {u \in Task : pc[u] \in {"running", "built", "sent"}}}

\* A job whose date has passed gets its run, unless a task that failed left it
\* in the set for good (process_schedule_jobs_round): again and again an open job
\* that is due has a task, or is such a job.
DueJobStarts ==
    \A j \in Scheduled :
        []<>(jobs[j] = "open" /\ RunDate[j] < now =>
               \/ \E t \in Task : job[t] = j
               \/ faults > 0 /\ j \in active \ todo)

\* A task that has its result gives it up in the end: it stores the response
\* and releases the mutex, or it fails; the mutex is never waited for in vain.
RunEnds == \A t \in Task : []<>(pc[t] \in {"free", "running"})

\* "Create a lock on the active jobs we are running so we don't run the same
\* job twice" (main.rs): a job is run, and answered, once.
RunOnce == \A j \in Job : Len(replies[j]) <= 1

=============================================================================
