----------------------------- MODULE DvmProofs -----------------------------
(***************************************************************************)
(* Proofs about Dvm.  The invariants of Intake and of Scheduler hold of    *)
(* the process too, because each step of the one is a step the other       *)
(* allows; that in turn needs these invariants, and DateInv: what the      *)
(* scheduler has in hand is a scheduled row whose date has passed.  The    *)
(* lemmas proved about each component are cited through an instance of the *)
(* module of its proofs.                                                   *)
(*                                                                         *)
(*   HandlersFitScheduler ImplementsScheduler                              *)
(*   SchedulerFitsIntake  ImplementsIntake                                 *)
(*   OracleIsImplemented  ImplementsOracle, with AnnouncedInv and ReplyInv *)
(*   AttestationsRestInProcess, SchedulerIsSafeInProcess and               *)
(*   IntakeIsSafeInProcess: what the parts and the oracle promise holds    *)
(***************************************************************************)
EXTENDS Dvm, TLAPS

I == INSTANCE IntakeProofs
S == INSTANCE SchedulerProofs WITH Job <- Request

-----------------------------------------------------------------------------
(* The two instances of each component are the same.                        *)

LEMMA SameIntake ==
    /\ Intake!Init <=> I!Init
    /\ Intake!Next <=> I!Next
    /\ Intake!vars = I!vars /\ Intake!vars' = I!vars'
BY DEF I!Init, I!Next, I!IntakeNext, I!vars,
       Intake!Init, Intake!Next, Intake!IntakeNext, Intake!vars,
       I!Settle, I!Receive, I!Proceed, I!RunJob, I!Fail, I!Relisten, I!Crash,
       I!Tick, I!RunAtDate, I!Refuse, I!ReadBalance, I!Charge, I!CreateJob,
       I!CanInsert, I!SendOffer, I!Offer, I!FindJob, I!CheckDate,
       I!CreateEvent, I!CreateScheduled, I!LinkEvent, I!NoteAnnouncement,
       I!SendAnnouncement, I!OracleAnnouncement, I!SendReply, I!Answer,
       I!Record, I!Goto, I!tables, I!relays, I!Handler,
       Intake!Settle, Intake!Receive, Intake!Proceed, Intake!RunJob,
       Intake!Fail, Intake!Relisten, Intake!Crash, Intake!Tick,
       Intake!RunAtDate, Intake!Refuse, Intake!ReadBalance, Intake!Charge,
       Intake!CreateJob, Intake!CanInsert, Intake!SendOffer, Intake!Offer,
       Intake!FindJob, Intake!CheckDate, Intake!CreateEvent,
       Intake!CreateScheduled, Intake!LinkEvent, Intake!NoteAnnouncement,
       Intake!SendAnnouncement, Intake!OracleAnnouncement, Intake!SendReply,
       Intake!Answer, Intake!Record, Intake!Goto, Intake!tables,
       Intake!relays, Intake!Handler

LEMMA SameScheduler ==
    /\ Scheduler!Init <=> S!Init
    /\ Scheduler!Next <=> S!Next
    /\ Scheduler!vars = S!vars /\ Scheduler!vars' = S!vars'
BY DEF S!Init, S!Next, S!vars,
       Scheduler!Init, Scheduler!Next, Scheduler!vars,
       S!Environment, S!InsertJob, S!AnswerJob, S!WriteEvent, S!Tick,
       S!SchedulerNext, S!RoundStep, S!TaskStep, S!Crash, S!RoundFetch,
       S!Ready, S!RoundClaim, S!RoundEnd, S!SpawnTask, S!RunWasm,
       S!SendReply, S!TakeLock, S!SaveResponse, S!ReadEvent, S!Sign,
       S!StoreAttestation, S!PublishAttestation, S!Fail, S!HoldsLock,
       S!Finish, S!Goto, S!tables, S!loop, S!tasks, S!relays,
       Scheduler!Environment, Scheduler!InsertJob, Scheduler!AnswerJob,
       Scheduler!WriteEvent, Scheduler!Tick, Scheduler!SchedulerNext,
       Scheduler!RoundStep, Scheduler!TaskStep, Scheduler!Crash,
       Scheduler!RoundFetch, Scheduler!Ready, Scheduler!RoundClaim,
       Scheduler!RoundEnd, Scheduler!SpawnTask, Scheduler!RunWasm,
       Scheduler!SendReply, Scheduler!TakeLock, Scheduler!SaveResponse,
       Scheduler!ReadEvent, Scheduler!Sign, Scheduler!StoreAttestation,
       Scheduler!PublishAttestation, Scheduler!Fail, Scheduler!HoldsLock,
       Scheduler!Finish, Scheduler!Goto, Scheduler!tables, Scheduler!loop,
       Scheduler!tasks, Scheduler!relays

LEMMA SameAssumptions == I!IntakeAssumption /\ S!SchedulerAssumption
BY DvmAssumption
   DEF I!IntakeAssumption, S!SchedulerAssumption, Intake!IntakeAssumption,
       Scheduler!SchedulerAssumption

LEMMA Assumptions ==
    /\ Scheduled \subseteq Request /\ WithEvent \subseteq Scheduled
    /\ NoJob \notin Request
BY DvmAssumption
   DEF Intake!IntakeAssumption, Scheduler!SchedulerAssumption

-----------------------------------------------------------------------------
(* What the scheduler has in hand.                                          *)

\* A row whose date has passed.
Due(j) == j \in Scheduled /\ jobs[j] # "none" /\ RunDate[j] < now

Working(t) == pc[t] # "free"

DateInv ==
    /\ \A j \in fetched \cup todo : Due(j)
    /\ \A t \in Task : Working(t) => Due(job[t])

DvmInv == I!IntakeInv /\ S!TypeInv /\ DateInv

\* The parts of the invariants that are used, for the variables of Dvm.
LEMMA Types ==
    ASSUME DvmInv
    PROVE  /\ now \in Nat
           /\ jobs \in [Request -> {"none", "open", "done"}]
           /\ event \in [Request -> {"none", "created", "linked", "announced"}]
           /\ fetched \subseteq Request /\ todo \subseteq Request
           /\ job \in [Task -> Request \cup {NoJob}]
           /\ \A t \in Task : Working(t) => job[t] \in Request
BY DEF DvmInv, S!TypeInv, S!TypeOK, S!TaskOK, Working

LEMMA Paths ==
    ASSUME DvmInv, NEW r \in Request, NEW d \in Intake!Handler
    PROVE  /\ at[r][d] \in {"event", "link", "note"} => r \in WithEvent
           /\ at[r][d] \in {"link", "note"} => jobs[r] # "none"
           /\ at[r][d] = "record" => r \notin Scheduled
           /\ at[r][d] = "link" /\ r \in WithEvent => event[r] = "created"
           /\ at[r][d] = "note" /\ r \in WithEvent => event[r] = "linked"
BY DEF DvmInv, I!IntakeInv, I!SafeInv, I!PathInv, I!PathOK, I!EventInv,
       I!Handler, Intake!Handler

-----------------------------------------------------------------------------
(* A step of a handler, as the scheduler sees it.                           *)

\* The steps that Environment allows, on one row.
TablesMove ==
    \/ UNCHANGED <<jobs, event>>
    \/ \E j \in Request : \/ Scheduler!InsertJob(j)
                          \/ Scheduler!AnswerJob(j)
                          \/ Scheduler!WriteEvent(j)

LEMMA HandlerMovesTables ==
    ASSUME DvmInv, NEW r \in Request, NEW d \in Intake!Handler,
           \/ Intake!Receive(r, d) \/ Intake!Proceed(r, d)
           \/ Intake!RunJob(r, d) \/ Intake!Fail(r, d)
    PROVE  now' = now /\ TablesMove
<1> USE DEF TablesMove, Intake!tables, Intake!relays
<1>1. CASE \/ Intake!Receive(r, d) \/ Intake!RunJob(r, d) \/ Intake!Fail(r, d)
  BY <1>1 DEF Intake!Receive, Intake!RunJob, Intake!Fail
<1>2. CASE \/ Intake!Refuse(r, d) \/ Intake!ReadBalance(r, d)
           \/ Intake!Charge(r, d) \/ Intake!SendOffer(r, d)
           \/ (d = Paid /\ Intake!FindJob(r)) \/ Intake!CheckDate(r, d)
           \/ Intake!SendAnnouncement(r, d) \/ Intake!SendReply(r, d)
  BY <1>2 DEF Intake!Refuse, Intake!ReadBalance, Intake!Charge,
              Intake!SendOffer, Intake!FindJob, Intake!CheckDate,
              Intake!SendAnnouncement, Intake!SendReply
<1>3. CASE Intake!CreateJob(r, d) \/ Intake!CreateScheduled(r, d)
  BY <1>3 DEF Intake!CreateJob, Intake!CreateScheduled, Intake!CanInsert,
              Scheduler!InsertJob
<1>4. CASE Intake!Record(r, d)
  BY <1>4, Paths DEF Intake!Record, Scheduler!AnswerJob
<1>5. CASE Intake!CreateEvent(r, d)
  BY <1>5, Paths DEF Intake!CreateEvent, Scheduler!WriteEvent
<1>6. CASE Intake!LinkEvent(r, d) \/ Intake!NoteAnnouncement(r, d)
  BY <1>6, Paths
     DEF Intake!LinkEvent, Intake!NoteAnnouncement, Scheduler!WriteEvent
<1> QED
  BY <1>1, <1>2, <1>3, <1>4, <1>5, <1>6 DEF Intake!Proceed

LEMMA IntakeMovesTables ==
    ASSUME DvmInv, Intake!IntakeNext
    PROVE  now' = now /\ TablesMove
<1>1. ASSUME NEW r \in Request, Intake!Settle(r)
      PROVE  now' = now /\ TablesMove
  BY <1>1 DEF Intake!Settle, Intake!tables, TablesMove
<1>2. CASE Intake!Relisten
  BY <1>2 DEF Intake!Relisten, Intake!tables, TablesMove
<1> QED
  BY <1>1, <1>2, HandlerMovesTables DEF Intake!IntakeNext

LEMMA StepOfScheduler ==
    ASSUME DvmInv, [Next]_vars
    PROVE  [S!Next]_S!vars
<1> SUFFICES Scheduler!Next \/ UNCHANGED Scheduler!vars
  BY SameScheduler
<1>1. CASE Intake!IntakeNext /\ UNCHANGED schedulerOnly
  <2>1. now' = now /\ TablesMove
    BY <1>1, IntakeMovesTables
  <2> QED
    BY <1>1, <2>1
       DEF TablesMove, schedulerOnly, Scheduler!Next, Scheduler!Environment,
           Scheduler!vars, Scheduler!tables, Scheduler!loop, Scheduler!tasks,
           Scheduler!relays
<1>2. CASE Intake!Tick /\ UNCHANGED schedulerOnly
  BY <1>2 DEF Intake!Tick, Intake!tables, schedulerOnly, Scheduler!Next,
              Scheduler!Environment, Scheduler!Tick, Scheduler!tables,
              Scheduler!loop, Scheduler!tasks, Scheduler!relays
<1>3. CASE Scheduler!SchedulerNext \/ Crash
  BY <1>3 DEF Crash, Scheduler!Next
<1>4. CASE UNCHANGED vars
  BY <1>4 DEF vars, schedulerOnly, Scheduler!vars, Scheduler!tables,
              Scheduler!loop, Scheduler!tasks, Scheduler!relays
<1> QED
  BY <1>1, <1>2, <1>3, <1>4 DEF Next

-----------------------------------------------------------------------------
(* A step of the scheduler, as the handlers see it.                         *)

LEMMA SchedulerMovesTables ==
    ASSUME DvmInv, Scheduler!SchedulerNext
    PROVE  /\ UNCHANGED <<now, event>>
           /\ \/ UNCHANGED jobs
              \/ \E r \in Request : Due(r) /\ jobs' = [jobs EXCEPT ![r] = "done"]
<1>1. CASE Scheduler!RoundStep
  BY <1>1 DEF Scheduler!RoundStep, Scheduler!RoundFetch, Scheduler!RoundClaim,
              Scheduler!RoundEnd, Scheduler!SpawnTask, Scheduler!tables
<1>2. ASSUME NEW t \in Task, Scheduler!SaveResponse(t)
      PROVE  /\ UNCHANGED <<now, event>>
             /\ \E r \in Request :
                   Due(r) /\ jobs' = [jobs EXCEPT ![r] = "done"]
  <2>1. Due(job[t]) /\ job[t] \in Request
    BY <1>2, Types DEF Scheduler!SaveResponse, DvmInv, DateInv, Working
  <2> QED
    BY <1>2, <2>1 DEF Scheduler!SaveResponse
<1>3. ASSUME NEW t \in Task,
             \/ Scheduler!RunWasm(t) \/ Scheduler!SendReply(t)
             \/ Scheduler!TakeLock(t) \/ Scheduler!ReadEvent(t)
             \/ Scheduler!Sign(t) \/ Scheduler!StoreAttestation(t)
             \/ Scheduler!PublishAttestation(t) \/ Scheduler!Fail(t)
      PROVE  UNCHANGED <<now, event, jobs>>
  BY <1>3 DEF Scheduler!RunWasm, Scheduler!SendReply, Scheduler!TakeLock,
              Scheduler!ReadEvent, Scheduler!Sign, Scheduler!StoreAttestation,
              Scheduler!PublishAttestation, Scheduler!Fail, Scheduler!tables
<1> QED
  BY <1>1, <1>2, <1>3 DEF Scheduler!SchedulerNext, Scheduler!TaskStep

LEMMA StepOfIntake ==
    ASSUME DvmInv, [Next]_vars
    PROVE  [I!Next]_I!vars
<1> SUFFICES Intake!Next \/ UNCHANGED Intake!vars
  BY SameIntake
<1>1. CASE Intake!IntakeNext \/ Intake!Tick \/ Crash
  BY <1>1 DEF Intake!Next, Crash
<1>2. CASE Scheduler!SchedulerNext /\ UNCHANGED intakeOnly
  <2>1. CASE UNCHANGED <<now, event, jobs>>
    BY <1>2, <2>1
       DEF intakeOnly, Intake!vars, Intake!tables, Intake!relays
  <2>2. ASSUME NEW r \in Request, Due(r), UNCHANGED <<now, event>>,
               jobs' = [jobs EXCEPT ![r] = "done"]
        PROVE  Intake!RunAtDate(r)
    BY <1>2, <2>2 DEF Intake!RunAtDate, Due, intakeOnly, Intake!relays
  <2> QED
    BY <1>2, <2>1, <2>2, SchedulerMovesTables DEF Intake!Next
<1>3. CASE UNCHANGED vars
  BY <1>3 DEF vars, intakeOnly, Intake!vars, Intake!tables, Intake!relays
<1> QED
  BY <1>1, <1>2, <1>3 DEF Next

-----------------------------------------------------------------------------
(* The invariant.                                                           *)

\* Rows stay, and the clock does not go back.
LEMMA DueStays ==
    ASSUME DvmInv, [Next]_vars, NEW j \in Request, Due(j)
    PROVE  Due(j)'
<1> SUFFICES jobs'[j] # "none" /\ now' \in {now, now + 1}
  <2>1. RunDate[j] \in Nat /\ now \in Nat
    BY Types, DvmAssumption DEF Intake!IntakeAssumption, Due
  <2> QED
    BY <2>1 DEF Due
<1>1. CASE Intake!IntakeNext
  BY <1>1, IntakeMovesTables, Types
     DEF TablesMove, Due, Scheduler!InsertJob, Scheduler!AnswerJob,
         Scheduler!WriteEvent
<1>2. CASE Scheduler!SchedulerNext
  BY <1>2, SchedulerMovesTables, Types DEF Due
<1>3. CASE Intake!Tick \/ Crash \/ UNCHANGED vars
  BY <1>3 DEF Intake!Tick, Crash, Intake!Crash, Intake!tables, vars, Due
<1> QED
  BY <1>1, <1>2, <1>3 DEF Next

\* A task keeps its job until it ends.
LEMMA TaskMovesOn ==
    ASSUME DvmInv, NEW t \in Task, Scheduler!TaskStep(t) \/ Scheduler!Fail(t)
    PROVE  /\ UNCHANGED <<fetched, todo>>
           /\ \A u \in Task :
                 pc'[u] # "free" => pc[u] # "free" /\ job'[u] = job[u]
<1>0. /\ pc \in [Task -> {"free", "running", "built", "sent", "locked",
                          "saved", "signing", "signed", "stored"}]
      /\ job \in [Task -> Request \cup {NoJob}]
  BY DEF DvmInv, S!TypeInv, S!TypeOK
<1>1. pc[t] # "free"
  BY DEF Scheduler!TaskStep, Scheduler!RunWasm, Scheduler!SendReply,
         Scheduler!TakeLock, Scheduler!SaveResponse, Scheduler!ReadEvent,
         Scheduler!Sign, Scheduler!StoreAttestation,
         Scheduler!PublishAttestation, Scheduler!Fail, Scheduler!HoldsLock
<1>2. UNCHANGED <<fetched, todo>>
  BY DEF Scheduler!TaskStep, Scheduler!RunWasm, Scheduler!SendReply,
         Scheduler!TakeLock, Scheduler!SaveResponse, Scheduler!ReadEvent,
         Scheduler!Sign, Scheduler!StoreAttestation,
         Scheduler!PublishAttestation, Scheduler!Fail, Scheduler!loop
<1>3. \/ Scheduler!Finish(t)
      \/ UNCHANGED job /\ \E label : pc' = [pc EXCEPT ![t] = label]
  BY DEF Scheduler!TaskStep, Scheduler!RunWasm, Scheduler!SendReply,
         Scheduler!TakeLock, Scheduler!SaveResponse, Scheduler!ReadEvent,
         Scheduler!Sign, Scheduler!StoreAttestation,
         Scheduler!PublishAttestation, Scheduler!Fail, Scheduler!Goto
<1> QED
  BY <1>0, <1>1, <1>2, <1>3 DEF Scheduler!Finish, Scheduler!Goto

\* A round reads rows whose date has passed; it claims what it read, and a
\* task gets what was claimed.
LEMMA InHand ==
    ASSUME DvmInv, [Next]_vars
    PROVE  /\ \A j \in fetched' \cup todo' : j \in Request /\ Due(j)
           /\ \A t \in Task : Working(t)' =>
                 job'[t] \in Request /\ Due(job'[t])
<1>0. /\ \A j \in fetched \cup todo : j \in Request /\ Due(j)
      /\ \A t \in Task : Working(t) => job[t] \in Request /\ Due(job[t])
  BY Types DEF DvmInv, DateInv
<1>1. CASE UNCHANGED <<fetched, todo, pc, job>>
  BY <1>0, <1>1 DEF Working
<1>2. CASE Scheduler!RoundFetch
  <2>1. \A j \in Scheduler!Ready : j \in Request /\ Due(j)
    BY Assumptions DEF Scheduler!Ready, Due
  <2> QED
    BY <1>0, <1>2, <2>1 DEF Scheduler!RoundFetch, Scheduler!tasks, Working
<1>3. CASE Scheduler!RoundClaim
  BY <1>0, <1>3 DEF Scheduler!RoundClaim, Scheduler!tasks, Working
<1>4. ASSUME NEW t \in Task, Scheduler!SpawnTask(t)
      PROVE  /\ \A j \in fetched' \cup todo' : j \in Request /\ Due(j)
             /\ \A u \in Task : Working(u)' =>
                   job'[u] \in Request /\ Due(job'[u])
  <2>1. job'[t] \in todo /\ todo' \subseteq todo /\ fetched' = fetched
    BY <1>4, Types DEF Scheduler!SpawnTask
  <2>2. ASSUME NEW u \in Task \ {t}
        PROVE  job'[u] = job[u] /\ pc'[u] = pc[u]
    <3>1. pc \in [Task -> {"free", "running", "built", "sent", "locked",
                           "saved", "signing", "signed", "stored"}]
      BY DEF DvmInv, S!TypeInv, S!TypeOK
    <3> QED
      BY <1>4, <3>1, Types DEF Scheduler!SpawnTask
  <2> QED
    BY <1>0, <2>1, <2>2 DEF Working, Due
<1>5. ASSUME NEW t \in Task, Scheduler!TaskStep(t) \/ Scheduler!Fail(t)
      PROVE  /\ \A j \in fetched' \cup todo' : j \in Request /\ Due(j)
             /\ \A u \in Task : Working(u)' =>
                   job'[u] \in Request /\ Due(job'[u])
  <2>1. /\ UNCHANGED <<fetched, todo>>
        /\ \A u \in Task : pc'[u] # "free" => pc[u] # "free" /\ job'[u] = job[u]
    BY <1>5, TaskMovesOn
  <2> QED
    BY <1>0, <2>1 DEF Working, Due
<1>6. CASE Crash
  BY <1>6 DEF Crash, Scheduler!Crash, Working
<1>7. CASE \/ Intake!IntakeNext /\ UNCHANGED schedulerOnly
           \/ Intake!Tick /\ UNCHANGED schedulerOnly
           \/ Scheduler!RoundEnd \/ UNCHANGED vars
  BY <1>1, <1>7 DEF schedulerOnly, vars, Scheduler!RoundEnd, Scheduler!tasks
<1> QED
  BY <1>2, <1>3, <1>4, <1>5, <1>6, <1>7
     DEF Next, Scheduler!SchedulerNext, Scheduler!RoundStep

LEMMA DateStep == ASSUME DvmInv, [Next]_vars PROVE DateInv'
<1>1. /\ \A j \in fetched' \cup todo' : j \in Request /\ Due(j)
      /\ \A t \in Task : Working(t)' => job'[t] \in Request /\ Due(job'[t])
  BY InHand
<1>2. \A j \in Request : Due(j) => j \in Scheduled /\ jobs'[j] # "none"
                                   /\ RunDate[j] < now'
  BY DueStays DEF Due
<1> QED
  BY <1>1, <1>2 DEF DateInv, Due

LEMMA DvmInit == Init => DvmInv
<1> SUFFICES ASSUME Init PROVE DvmInv
  OBVIOUS
<1>1. I!IntakeInv
  BY I!IntakeInit, SameAssumptions, SameIntake DEF Init
<1>2. S!TypeInv
  BY S!TypeInit, SameAssumptions, SameScheduler DEF Init
<1>3. DateInv
  BY DEF Init, Scheduler!Init, DateInv, Working
<1> QED
  BY <1>1, <1>2, <1>3 DEF DvmInv

LEMMA DvmStep == DvmInv /\ [Next]_vars => DvmInv'
<1> SUFFICES ASSUME DvmInv, [Next]_vars PROVE DvmInv'
  OBVIOUS
<1>1. I!IntakeInv'
  BY I!IntakeStep, SameAssumptions, StepOfIntake DEF DvmInv
<1>2. S!TypeInv'
  BY S!TypeStep, SameAssumptions, StepOfScheduler DEF DvmInv
<1> QED
  BY <1>1, <1>2, DateStep DEF DvmInv

LEMMA DvmInvariant == Spec => []DvmInv
BY DvmInit, DvmStep, PTL DEF Spec

-----------------------------------------------------------------------------
(* The refinements.                                                         *)

\* Every behaviour of the process is one of the scheduler in the environment
\* it assumes: the handlers insert a row before its date, answer only the
\* unscheduled ones, and advance an event step by step.
THEOREM HandlersFitScheduler == Spec => ImplementsScheduler
<1>1. Init => Scheduler!Init
  BY DEF Init
<1>2. DvmInv /\ [Next]_vars => [Scheduler!Next]_(Scheduler!vars)
  BY StepOfScheduler, SameScheduler
<1> QED
  BY <1>1, <1>2, DvmInvariant, PTL DEF Spec, ImplementsScheduler, Scheduler!Spec

\* Every behaviour of the process is one of the handlers in the environment
\* they assume: the scheduler answers a scheduled row after its date, and
\* writes nothing else that they read.
THEOREM SchedulerFitsIntake == Spec => ImplementsIntake
<1>1. Init => Intake!Init
  BY DEF Init
<1>2. DvmInv /\ [Next]_vars => [Intake!Next]_(Intake!vars)
  BY StepOfIntake, SameIntake
<1> QED
  BY <1>1, <1>2, DvmInvariant, PTL DEF Spec, ImplementsIntake, Intake!Spec

-----------------------------------------------------------------------------
(* What is attested was announced for that job, and paid for.               *)

Attesting(t) == pc[t] \in {"signing", "signed", "stored"}

AnnouncedInv ==
    /\ \A r \in Request : event[r] # "none" => r \in WithEvent
    /\ \A t \in Task : Attesting(t) => event[job[t]] = "announced"
    /\ \A r \in Request : attested[r] # {} => event[r] = "announced"

\* An event of a job is not taken back.
LEMMA AnnouncedStays ==
    ASSUME DvmInv, [Next]_vars, NEW r \in Request
    PROVE  /\ event[r] = "announced" => event'[r] = "announced"
           /\ event'[r] # "none" => event[r] # "none" \/ r \in WithEvent
<1>1. CASE Intake!IntakeNext
  BY <1>1, IntakeMovesTables, Types
     DEF TablesMove, Scheduler!InsertJob, Scheduler!AnswerJob,
         Scheduler!WriteEvent
<1>2. CASE Scheduler!SchedulerNext
  BY <1>2, SchedulerMovesTables
<1>3. CASE Intake!Tick \/ Crash \/ UNCHANGED vars
  BY <1>3 DEF Intake!Tick, Crash, Intake!Crash, Intake!tables, vars
<1> QED
  BY <1>1, <1>2, <1>3 DEF Next

\* A task comes to sign only an announced event, and an attestation comes from
\* a task that has signed.
LEMMA AttestationSources ==
    ASSUME DvmInv, [Next]_vars
    PROVE  /\ \A t \in Task : Attesting(t)' =>
                 /\ job'[t] = job[t]
                 /\ Attesting(t) \/ event[job[t]] = "announced"
           /\ \A r \in Request : attested'[r] # {} =>
                 \/ attested[r] # {}
                 \/ \E t \in Task : Attesting(t) /\ job[t] = r
<1> DEFINE Goal ==
             /\ \A t \in Task : Attesting(t)' =>
                   /\ job'[t] = job[t]
                   /\ Attesting(t) \/ event[job[t]] = "announced"
             /\ \A r \in Request : attested'[r] # {} =>
                   \/ attested[r] # {}
                   \/ \E t \in Task : Attesting(t) /\ job[t] = r
<1>0. /\ pc \in [Task -> {"free", "running", "built", "sent", "locked",
                          "saved", "signing", "signed", "stored"}]
      /\ job \in [Task -> Request \cup {NoJob}]
      /\ attested \in [Request -> SUBSET Outcome]
  BY DEF DvmInv, S!TypeInv, S!TypeOK
<1>1. CASE UNCHANGED <<pc, job, attested>>
  BY <1>1 DEF Attesting
<1>2. ASSUME NEW t \in Task, Scheduler!SpawnTask(t) PROVE Goal
  BY <1>0, <1>2 DEF Scheduler!SpawnTask, Scheduler!relays, Attesting
<1>3. ASSUME NEW t \in Task, Scheduler!TaskStep(t) PROVE Goal
  <2> USE DEF Attesting, Scheduler!Goto, Scheduler!Finish, Scheduler!relays
  <2>1. CASE \/ Scheduler!RunWasm(t) \/ Scheduler!SendReply(t)
             \/ Scheduler!TakeLock(t) \/ Scheduler!SaveResponse(t)
    BY <1>0, <2>1 DEF Scheduler!RunWasm, Scheduler!SendReply,
                      Scheduler!TakeLock, Scheduler!SaveResponse
  <2>2. CASE Scheduler!ReadEvent(t)
    BY <1>0, <2>2 DEF Scheduler!ReadEvent
  <2>3. CASE Scheduler!Sign(t) \/ Scheduler!StoreAttestation(t)
    BY <1>0, <2>3 DEF Scheduler!Sign, Scheduler!StoreAttestation
  <2>4. CASE Scheduler!PublishAttestation(t)
    <3>1. job[t] \in Request
      BY <2>4, Types DEF Scheduler!PublishAttestation, Working
    <3> QED
      BY <1>0, <2>4, <3>1 DEF Scheduler!PublishAttestation
  <2> QED
    BY <1>3, <2>1, <2>2, <2>3, <2>4 DEF Scheduler!TaskStep
<1>4. ASSUME NEW t \in Task, Scheduler!Fail(t) PROVE Goal
  BY <1>0, <1>4 DEF Scheduler!Fail, Scheduler!Finish, Scheduler!Goto, Attesting
<1>5. CASE Crash
  BY <1>5 DEF Crash, Scheduler!Crash, Scheduler!relays, Attesting
<1>6. CASE \/ Intake!IntakeNext /\ UNCHANGED schedulerOnly
           \/ Intake!Tick /\ UNCHANGED schedulerOnly
           \/ UNCHANGED vars
  BY <1>1, <1>6 DEF schedulerOnly, vars
<1>7. CASE Scheduler!RoundFetch \/ Scheduler!RoundClaim \/ Scheduler!RoundEnd
  BY <1>1, <1>7 DEF Scheduler!RoundFetch, Scheduler!RoundClaim,
                    Scheduler!RoundEnd, Scheduler!tasks, Scheduler!relays
<1> QED
  BY <1>2, <1>3, <1>4, <1>5, <1>6, <1>7
     DEF Next, Scheduler!SchedulerNext, Scheduler!RoundStep

LEMMA AnnouncedInit == Init => AnnouncedInv
BY DEF Init, Intake!Init, Scheduler!Init, AnnouncedInv, Attesting

LEMMA AnnouncedStep == DvmInv /\ AnnouncedInv /\ [Next]_vars => AnnouncedInv'
<1> SUFFICES ASSUME DvmInv, AnnouncedInv, [Next]_vars PROVE AnnouncedInv'
  OBVIOUS
<1>1. \A t \in Task : Attesting(t)' => event'[job'[t]] = "announced"
  <2> SUFFICES ASSUME NEW t \in Task, Attesting(t)'
               PROVE  event'[job'[t]] = "announced"
    OBVIOUS
  <2>1. job'[t] = job[t] /\ event[job[t]] = "announced"
    BY AttestationSources DEF AnnouncedInv
  <2>2. job[t] \in Request
    BY <2>1, InHand DEF Attesting, Working
  <2> QED
    BY <2>1, <2>2, AnnouncedStays
<1>2. \A r \in Request : attested'[r] # {} => event'[r] = "announced"
  BY AttestationSources, AnnouncedStays DEF AnnouncedInv
<1>3. \A r \in Request : event'[r] # "none" => r \in WithEvent
  BY AnnouncedStays DEF AnnouncedInv
<1> QED
  BY <1>1, <1>2, <1>3 DEF AnnouncedInv

LEMMA AnnouncedInvariant == Spec => []AnnouncedInv
BY AnnouncedInit, AnnouncedStep, DvmInvariant, PTL DEF Spec

-----------------------------------------------------------------------------
(* The oracle of OracleService.  Its variables, as functions of the state:  *)

PaidFor == {r \in Request : charges[r] > 0 \/ invoice[r] = "settled"}
Announced == {r \in Request : event[r] = "announced"}
Contents == [r \in Request |-> {replies[r][i] : i \in DOMAIN replies[r]}]
Answered == {r \in Scheduled : jobs[r] = "done"}

LEMMA OracleStutters ==
    UNCHANGED <<now, PaidFor, Announced, Contents, Answered, signed, attested>>
      => UNCHANGED Oracle!vars
BY DEF Oracle!vars, PaidFor, Announced, Contents, Answered

\* What was paid for stays so, and a step that pays writes no table.
LEMMA IntakePays ==
    ASSUME DvmInv, Intake!IntakeNext
    PROVE  \/ UNCHANGED PaidFor
           \/ \E r \in Request : /\ PaidFor' = PaidFor \cup {r}
                                 /\ UNCHANGED <<now, jobs, event>>
<1>1. /\ charges \in [Request -> Nat]
      /\ invoice \in [Request -> {"none", "made", "offered", "settled"}]
      /\ \A r \in Request : jobs[r] = "none" => invoice[r] = "none"
      /\ \A r \in Request, d \in Intake!Handler :
            at[r][d] = "offer" => invoice[r] = "made"
  BY DEF DvmInv, I!IntakeInv, I!SafeInv, I!DataOK, I!RowInv, I!PathInv,
         I!PathOK, I!Handler, Intake!Handler
<1>2. ASSUME NEW r \in Request, Intake!Settle(r)
      PROVE  PaidFor' = PaidFor \cup {r} /\ UNCHANGED <<now, jobs, event>>
  BY <1>1, <1>2 DEF Intake!Settle, Intake!tables, PaidFor
<1>3. CASE Intake!Relisten
  BY <1>3 DEF Intake!Relisten, Intake!relays, PaidFor
<1>4. ASSUME NEW r \in Request, NEW d \in Intake!Handler,
             Intake!Receive(r, d) \/ Intake!RunJob(r, d)
      PROVE  UNCHANGED PaidFor
  BY <1>4 DEF Intake!Receive, Intake!RunJob, Intake!relays, PaidFor
<1>5. ASSUME NEW r \in Request, NEW d \in Intake!Handler, Intake!Charge(r, d)
      PROVE  PaidFor' = PaidFor \cup {r} /\ UNCHANGED <<now, jobs, event>>
  BY <1>1, <1>5 DEF Intake!Charge, Intake!tables, Intake!relays, PaidFor
<1>6. ASSUME NEW r \in Request, NEW d \in Intake!Handler,
             \/ Intake!CreateJob(r, d) \/ Intake!SendOffer(r, d)
             \/ Intake!Fail(r, d)
      PROVE  UNCHANGED PaidFor
  BY <1>1, <1>6
     DEF Intake!CreateJob, Intake!CanInsert, Intake!SendOffer, Intake!Fail,
         Intake!Offer, PaidFor
<1>7. ASSUME NEW r \in Request, NEW d \in Intake!Handler,
             Intake!Proceed(r, d), ~Intake!Charge(r, d),
             ~Intake!CreateJob(r, d), ~Intake!SendOffer(r, d)
      PROVE  UNCHANGED PaidFor
  <2>1. UNCHANGED <<charges, invoice>>
    BY <1>7
       DEF Intake!Proceed, Intake!Refuse, Intake!ReadBalance, Intake!FindJob,
           Intake!CheckDate, Intake!CreateEvent, Intake!CreateScheduled,
           Intake!LinkEvent, Intake!NoteAnnouncement, Intake!SendAnnouncement,
           Intake!SendReply, Intake!Record, Intake!relays
  <2> QED
    BY <2>1 DEF PaidFor
<1> QED
  BY <1>2, <1>3, <1>4, <1>5, <1>6, <1>7 DEF Intake!IntakeNext

\* A handler pays for a request, announces its event, or does nothing that the
\* oracle's clients can see.
LEMMA IntakeServes ==
    ASSUME DvmInv, AnnouncedInv, Intake!IntakeNext, UNCHANGED schedulerOnly
    PROVE  [Oracle!Next]_(Oracle!vars)
<1>1. /\ now' = now /\ TablesMove
      /\ UNCHANGED <<Contents, signed, attested>>
  BY IntakeMovesTables DEF schedulerOnly, Contents
<1>2. /\ charges \in [Request -> Nat]
      /\ jobs \in [Request -> {"none", "open", "done"}]
      /\ event \in [Request -> {"none", "created", "linked", "announced"}]
  BY Types DEF DvmInv, I!IntakeInv, I!SafeInv, I!DataOK
<1>3. ASSUME NEW r \in Request, PaidFor' = PaidFor \cup {r},
             UNCHANGED <<now, jobs, event>>
      PROVE  [Oracle!Next]_(Oracle!vars)
  <2>1. UNCHANGED <<Announced, Answered>>
    BY <1>3 DEF Announced, Answered
  <2>2. Oracle!Pay(r)
    BY <1>1, <1>3, <2>1 DEF Oracle!Pay, PaidFor, Announced, Contents, Answered
  <2> QED
    BY <2>2 DEF Oracle!Next
<1>4. ASSUME UNCHANGED PaidFor, UNCHANGED <<jobs, event>>
      PROVE  UNCHANGED Oracle!vars
  BY <1>1, <1>4, OracleStutters DEF Announced, Answered
<1>5. ASSUME UNCHANGED PaidFor, NEW j \in Request,
             Scheduler!InsertJob(j) \/ Scheduler!AnswerJob(j)
      PROVE  UNCHANGED Oracle!vars
  <2>1. Answered' = Answered
    BY <1>2, <1>5, Assumptions
       DEF Scheduler!InsertJob, Scheduler!AnswerJob, Answered
  <2> QED
    BY <1>1, <1>5, <2>1, OracleStutters
       DEF Scheduler!InsertJob, Scheduler!AnswerJob, Announced
<1>6. ASSUME UNCHANGED PaidFor, NEW j \in Request, Scheduler!WriteEvent(j)
      PROVE  [Oracle!Next]_(Oracle!vars)
  <2>1. UNCHANGED <<PaidFor, Answered>> /\ j \in WithEvent
    BY <1>6 DEF Scheduler!WriteEvent, Answered
  <2>2. CASE event[j] # "linked"
    <3>1. Announced' = Announced
      BY <1>2, <1>6, <2>2 DEF Scheduler!WriteEvent, Announced
    <3> QED
      BY <1>1, <2>1, <3>1, OracleStutters
  <2>3. CASE event[j] = "linked"
    <3>1. Announced' = Announced \cup {j}
      BY <1>2, <1>6, <2>3 DEF Scheduler!WriteEvent, Announced
    <3>2. /\ charges[j] > 0
          /\ \A q \in WithEvent \ {j} :
                EventName[q] = EventName[j] => event[q] = "none"
      BY <2>1, <2>3 DEF DvmInv, I!IntakeInv, I!SafeInv, I!EventInv
    <3>3. \A q \in Announced \ {j} : q \in WithEvent
      BY DEF AnnouncedInv, Announced
    <3>4. /\ j \in WithEvent \cap PaidFor
          /\ \A q \in Announced \ {j} : EventName[q] # EventName[j]
      BY <2>1, <3>2, <3>3 DEF Announced, PaidFor
    <3>5. Oracle!Announce(j)
      BY <1>1, <2>1, <3>1, <3>4
         DEF Oracle!Announce, PaidFor, Announced, Contents, Answered
    <3> QED
      BY <3>5 DEF Oracle!Next
  <2> QED
    BY <2>2, <2>3
<1> QED
  BY <1>1, <1>3, <1>4, <1>5, <1>6, IntakePays DEF TablesMove

\* The contents of a list of replies with one more.
LEMMA AppendedContent ==
    ASSUME NEW s \in Seq(Outcome), NEW o \in Outcome
    PROVE  {Append(s, o)[i] : i \in DOMAIN Append(s, o)}
             = {s[i] : i \in DOMAIN s} \cup {o}
<1> DEFINE all == Append(s, o)
<1>1. /\ DOMAIN s = 1 .. Len(s) /\ Len(s) \in Nat
      /\ DOMAIN all = 1 .. (Len(s) + 1)
      /\ \A i \in 1 .. Len(s) : all[i] = s[i]
      /\ all[Len(s) + 1] = o
  OBVIOUS
<1> HIDE DEF all
<1>2. {all[i] : i \in DOMAIN all} \subseteq {s[i] : i \in DOMAIN s} \cup {o}
  BY <1>1
<1>3. {s[i] : i \in DOMAIN s} \subseteq {all[i] : i \in DOMAIN all}
  BY <1>1
<1>4. o \in {all[i] : i \in DOMAIN all}
  BY <1>1
<1>5. {all[i] : i \in DOMAIN all} = {s[i] : i \in DOMAIN s} \cup {o}
  BY <1>2, <1>3, <1>4
<1> QED
  BY <1>5 DEF all

\* A published reply shows the content of one outcome more.
LEMMA ReplyShows ==
    ASSUME DvmInv, NEW t \in Task, pc[t] = "built",
           replies' = [replies EXCEPT ![job[t]] = Append(@, outcome[t])],
           UNCHANGED <<now, charges, invoice, event, jobs, signed, attested>>
    PROVE  [Oracle!Next]_(Oracle!vars)
<1>1. /\ job[t] \in Request /\ outcome[t] \in Outcome
      /\ replies \in [Request -> Seq(Outcome)]
      /\ job[t] \in Scheduled /\ RunDate[job[t]] < now
  BY DEF DvmInv, DateInv, Due, Working, S!TypeInv, S!TypeOK, S!TaskOK,
         S!HasResult
<1> PICK r \in Request, o \in Outcome : r = job[t] /\ o = outcome[t]
  BY <1>1
<1>2. {Append(replies[r], o)[i] : i \in DOMAIN Append(replies[r], o)}
        = {replies[r][i] : i \in DOMAIN replies[r]} \cup {o}
  <2>1. replies[r] \in Seq(Outcome)
    BY <1>1
  <2> QED
    BY <2>1, AppendedContent
<1>3. /\ replies'[r] = Append(replies[r], o)
      /\ \A q \in Request \ {r} : replies'[q] = replies[q]
  BY <1>1
<1>4. Contents' = [Contents EXCEPT ![r] = @ \cup {o}]
  <2>1. Contents'[r] = Contents[r] \cup {o}
    BY <1>2, <1>3 DEF Contents
  <2>2. \A q \in Request \ {r} : Contents'[q] = Contents[q]
    BY <1>3 DEF Contents
  <2> QED
    BY <2>1, <2>2 DEF Contents
<1>5. UNCHANGED <<PaidFor, Announced, Answered>>
  BY DEF PaidFor, Announced, Answered
<1>6. Oracle!Show(r, o)
  BY <1>1, <1>4, <1>5
     DEF Oracle!Show, PaidFor, Announced, Contents, Answered
<1> QED
  BY <1>6 DEF Oracle!Next

\* What a task knows when it stores, signs and attests.
LEMMA TaskKnows ==
    ASSUME DvmInv, S!ReplyInv, AnnouncedInv, NEW t \in Task,
           Scheduler!HoldsLock(t)
    PROVE  /\ job[t] \in Request /\ job[t] \in Scheduled
           /\ outcome[t] \in Outcome /\ outcome[t] # NoOutcome
           /\ outcome[t] \in Contents[job[t]]
           /\ Attesting(t) => /\ job[t] \in Announced \cap Answered
                              /\ outcome[t] \in Expected
           /\ pc[t] \in {"signed", "stored"} => signed[job[t]] = outcome[t]
<1>1. /\ job[t] \in Request /\ outcome[t] \in Outcome /\ job[t] \in Scheduled
  BY DEF DvmInv, DateInv, Due, Working, S!TypeInv, S!TypeOK, S!TaskOK,
         S!HasResult, Scheduler!HoldsLock
<1>2. outcome[t] # NoOutcome
  BY <1>1, SameAssumptions DEF S!SchedulerAssumption
<1>3. outcome[t] \in Contents[job[t]]
  BY <1>1 DEF S!ReplyInv, S!TaskHasReplied, S!HoldsLock, Scheduler!HoldsLock,
              S!Shown, Contents
<1>4. /\ pc[t] \in {"saved", "signing", "signed", "stored"} =>
            jobs[job[t]] = "done"
      /\ pc[t] \in {"signing", "signed", "stored"} => outcome[t] \in Expected
      /\ pc[t] \in {"signed", "stored"} => signed[job[t]] = outcome[t]
  BY DEF S!ReplyInv, S!TaskHasSaved
<1>5. Attesting(t) => job[t] \in Announced \cap Answered
  BY <1>1, <1>4 DEF AnnouncedInv, Attesting, Announced, Answered
<1> QED
  BY <1>1, <1>2, <1>3, <1>4, <1>5 DEF Attesting

\* The scheduler shows, stores, signs and attests, one at a time.
LEMMA SchedulerServes ==
    ASSUME DvmInv, S!ReplyInv, AnnouncedInv, Scheduler!SchedulerNext,
           UNCHANGED intakeOnly
    PROVE  [Oracle!Next]_(Oracle!vars)
<1>1. /\ UNCHANGED <<now, event, charges, invoice>>
      /\ UNCHANGED <<PaidFor, Announced>>
  BY SchedulerMovesTables DEF intakeOnly, PaidFor, Announced
<1>2. /\ jobs \in [Request -> {"none", "open", "done"}]
      /\ attested \in [Request -> SUBSET Outcome]
      /\ signed \in [Request -> Outcome \cup {NoOutcome}]
  BY Types DEF DvmInv, S!TypeInv, S!TypeOK
<1>3. ASSUME UNCHANGED <<jobs, replies, signed, attested>>
      PROVE  UNCHANGED Oracle!vars
  BY <1>1, <1>3, OracleStutters DEF Contents, Answered
<1>4. CASE Scheduler!RoundStep
  BY <1>3, <1>4
     DEF Scheduler!RoundStep, Scheduler!RoundFetch, Scheduler!RoundClaim,
         Scheduler!RoundEnd, Scheduler!SpawnTask, Scheduler!tables,
         Scheduler!relays
<1>5. ASSUME NEW t \in Task,
             \/ Scheduler!RunWasm(t) \/ Scheduler!TakeLock(t)
             \/ Scheduler!ReadEvent(t) \/ Scheduler!StoreAttestation(t)
      PROVE  UNCHANGED Oracle!vars
  BY <1>3, <1>5
     DEF Scheduler!RunWasm, Scheduler!TakeLock, Scheduler!ReadEvent,
         Scheduler!StoreAttestation, Scheduler!tables, Scheduler!relays
<1>6. ASSUME NEW t \in Task, Scheduler!SendReply(t) \/ Scheduler!Fail(t)
      PROVE  [Oracle!Next]_(Oracle!vars)
  <2>1. /\ UNCHANGED <<jobs, signed, attested>>
        /\ \/ UNCHANGED replies
           \/ /\ pc[t] = "built"
              /\ replies' = [replies EXCEPT ![job[t]] = Append(@, outcome[t])]
    BY <1>6 DEF Scheduler!SendReply, Scheduler!Fail, Scheduler!tables
  <2> QED
    BY <1>1, <1>3, <2>1, ReplyShows
<1>7. ASSUME NEW t \in Task, Scheduler!SaveResponse(t)
      PROVE  [Oracle!Next]_(Oracle!vars)
  <2>1. Scheduler!HoldsLock(t)
    BY <1>7 DEF Scheduler!SaveResponse, Scheduler!HoldsLock
  <2> PICK r \in Request : r = job[t]
    BY <2>1, TaskKnows
  <2>2. r \in Scheduled /\ Contents[r] # {}
    BY <2>1, TaskKnows
  <2>3. Answered' = Answered \cup {r}
    BY <1>2, <1>7, <2>2, Assumptions DEF Scheduler!SaveResponse, Answered
  <2>4. UNCHANGED <<Contents, signed, attested>>
    BY <1>7 DEF Scheduler!SaveResponse, Scheduler!relays, Contents
  <2>5. Oracle!Store(r)
    BY <1>1, <2>2, <2>3, <2>4
       DEF Oracle!Store, PaidFor, Announced, Contents, Answered
  <2> QED
    BY <2>5 DEF Oracle!Next
<1>8. ASSUME NEW t \in Task, Scheduler!Sign(t)
      PROVE  [Oracle!Next]_(Oracle!vars)
  <2>1. Scheduler!HoldsLock(t) /\ Attesting(t)
    BY <1>8 DEF Scheduler!Sign, Scheduler!HoldsLock, Attesting
  <2> PICK r \in Request, o \in Outcome : r = job[t] /\ o = outcome[t]
    BY <2>1, TaskKnows
  <2>2. r \in Announced \cap Answered /\ o \in Expected \cap Contents[r]
    BY <2>1, TaskKnows
  <2>3. UNCHANGED <<jobs, replies, attested>>
    BY <1>8 DEF Scheduler!Sign, Scheduler!tables, Scheduler!relays
  <2>4. UNCHANGED <<Contents, Answered>>
    BY <2>3 DEF Contents, Answered
  <2>5. CASE signed[r] = NoOutcome
    <3>1. signed' = [signed EXCEPT ![r] = o]
      BY <1>8, <2>5 DEF Scheduler!Sign
    <3>2. Oracle!Sign(r, o)
      BY <1>1, <2>2, <2>3, <2>4, <2>5, <3>1
         DEF Oracle!Sign, PaidFor, Announced, Contents, Answered
    <3> QED
      BY <3>2 DEF Oracle!Next
  <2>6. CASE signed[r] # NoOutcome
    BY <1>3, <1>8, <2>3, <2>6 DEF Scheduler!Sign
  <2> QED
    BY <2>5, <2>6
<1>9. ASSUME NEW t \in Task, Scheduler!PublishAttestation(t)
      PROVE  [Oracle!Next]_(Oracle!vars)
  <2>1. Scheduler!HoldsLock(t) /\ pc[t] = "stored"
    BY <1>9 DEF Scheduler!PublishAttestation, Scheduler!HoldsLock
  <2> PICK r \in Request, o \in Outcome : r = job[t] /\ o = outcome[t]
    BY <2>1, TaskKnows
  <2>2. signed[r] = o /\ o # NoOutcome
    BY <2>1, TaskKnows
  <2>3. attested[r] \subseteq {o}
    BY <2>2 DEF S!ReplyInv, S!AttestationIsSigned
  <2>4. attested' = [attested EXCEPT ![r] = {signed[r]}]
    BY <1>2, <1>9, <2>2, <2>3 DEF Scheduler!PublishAttestation
  <2>5. UNCHANGED <<jobs, replies, signed>>
    BY <1>9 DEF Scheduler!PublishAttestation, Scheduler!tables
  <2>6. Oracle!Attest(r)
    BY <1>1, <2>2, <2>4, <2>5
       DEF Oracle!Attest, PaidFor, Announced
  <2> QED
    BY <2>6 DEF Oracle!Next
<1> QED
  BY <1>4, <1>5, <1>6, <1>7, <1>8, <1>9
     DEF Scheduler!SchedulerNext, Scheduler!TaskStep

LEMMA OracleInit == Init => Oracle!Init
<1> SUFFICES ASSUME Init PROVE Oracle!Init
  OBVIOUS
<1>1. /\ now = 0 /\ charges = [r \in Request |-> 0]
      /\ invoice = [r \in Request |-> "none"]
      /\ event = [r \in Request |-> "none"] /\ jobs = [r \in Request |-> "none"]
      /\ replies = [r \in Request |-> <<>>]
      /\ signed = [r \in Request |-> NoOutcome]
      /\ attested = [r \in Request |-> {}]
  BY DEF Init, Intake!Init, Scheduler!Init
<1>2. PaidFor = {} /\ Announced = {} /\ Answered = {}
  BY <1>1, Assumptions DEF PaidFor, Announced, Answered
<1>3. Contents = [r \in Request |-> {}]
  BY <1>1 DEF Contents
<1> QED
  BY <1>1, <1>2, <1>3 DEF Oracle!Init, PaidFor, Announced, Answered, Contents

LEMMA OracleStep ==
    DvmInv /\ S!ReplyInv /\ AnnouncedInv /\ [Next]_vars
      => [Oracle!Next]_(Oracle!vars)
<1> SUFFICES ASSUME DvmInv, S!ReplyInv, AnnouncedInv, [Next]_vars
             PROVE  [Oracle!Next]_(Oracle!vars)
  OBVIOUS
<1>1. CASE Intake!Tick /\ UNCHANGED schedulerOnly
  <2>1. /\ now' = now + 1
        /\ UNCHANGED <<charges, invoice, event, jobs, replies, signed, attested>>
    BY <1>1 DEF Intake!Tick, Intake!tables, Intake!relays, schedulerOnly
  <2>2. Oracle!Tick
    BY <2>1 DEF Oracle!Tick
  <2> QED
    BY <2>2 DEF Oracle!Next
<1>2. CASE Crash \/ UNCHANGED vars
  <2>1. UNCHANGED <<now, charges, invoice, event, jobs, replies, signed,
                    attested>>
    BY <1>2 DEF Crash, Intake!Crash, Intake!tables, Intake!relays, Scheduler!Crash,
                Scheduler!relays, vars, intakeOnly, schedulerOnly
  <2> QED
    BY <2>1, OracleStutters DEF PaidFor, Announced, Contents, Answered
<1> QED
  BY <1>1, <1>2, IntakeServes, SchedulerServes DEF Next

LEMMA ReplyInvariant == Spec => []S!ReplyInv
<1>1. Init => S!ReplyInv
  BY S!ReplyInit, SameAssumptions, SameScheduler DEF Init
<1>2. DvmInv /\ DvmInv' /\ S!ReplyInv /\ [Next]_vars => S!ReplyInv'
  BY S!ReplyStep, SameAssumptions, StepOfScheduler DEF DvmInv
<1> QED
  BY <1>1, <1>2, DvmInvariant, PTL DEF Spec

\* Handlers and scheduler together implement the oracle of OracleService:
\* payment, announcement, runs, the stored answer, the one signature and the
\* attestation come in its order, for any number of requests, deliveries,
\* tasks, failures and crashes (handle_job_request, run_scheduled_job).
THEOREM OracleIsImplemented == Spec => ImplementsOracle
BY OracleInit, OracleStep, DvmInvariant, AnnouncedInvariant, ReplyInvariant, PTL
   DEF Spec, ImplementsOracle, Oracle!Spec

\* So an attestation of the process rests on a payment, on an announcement
\* under a name of its own, on a stored answer and on a reply published after
\* the date, and no other outcome of the job is ever attested: what a client
\* of the oracle may rely on, whatever fails in between.
THEOREM AttestationsRestInProcess == Spec => []Oracle!AttestationRests
<1>1. RunDate \in [Scheduled -> Nat]
  BY DvmAssumption DEF Scheduler!SchedulerAssumption
<1>2. Oracle!Spec => []Oracle!AttestationRests
  BY <1>1, Oracle!AttestationsRest
<1> QED
  BY <1>2, OracleIsImplemented, PTL DEF ImplementsOracle

-----------------------------------------------------------------------------
(* What was proved of each component alone holds in the process.            *)

\* The guarantees of the scheduler to the client of a job hold while the
\* handlers write the same tables: no two tasks at once, a bounded number of
\* replies, nothing stored that was not published, attestations that rest on
\* a published result.
THEOREM SchedulerIsSafeInProcess ==
    Spec => [](/\ S!NoConcurrentRun /\ S!RepliesBounded /\ S!DoneWasReplied
               /\ S!AttestationSound /\ S!ClaimsAreLive)
<1>1. Spec => S!Spec
  <2>1. Init => S!Init
    BY SameScheduler DEF Init
  <2>2. DvmInv /\ [Next]_vars => [S!Next]_(S!vars)
    BY StepOfScheduler
  <2> QED
    BY <2>1, <2>2, DvmInvariant, PTL DEF Spec, S!Spec
<1> QED
  BY <1>1, S!NeverConcurrent, S!RepliesAreBounded, S!DoneIsReplied,
     S!AttestationIsSound, S!ClaimsLive, SameAssumptions, PTL

\* The guarantees of the handlers to who pays hold while the scheduler answers
\* rows: no answer without payment, no payment without a row, no event of a
\* job that nobody paid for.
THEOREM IntakeIsSafeInProcess ==
    Spec => [](I!AnswersArePaid /\ I!InvoiceFindsJob /\ I!LinkedIsPaid)
<1>1. Spec => I!Spec
  <2>1. Init => I!Init
    BY SameIntake DEF Init
  <2>2. DvmInv /\ [Next]_vars => [I!Next]_(I!vars)
    BY StepOfIntake
  <2> QED
    BY <2>1, <2>2, DvmInvariant, PTL DEF Spec, I!Spec
<1> QED
  BY <1>1, I!NothingForFree, I!NoPaymentStrands, I!LinkedIsPaidFor,
     SameAssumptions, PTL

=============================================================================
