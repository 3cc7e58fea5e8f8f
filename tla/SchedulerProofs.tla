-------------------------- MODULE SchedulerProofs --------------------------
(***************************************************************************)
(* Proofs about Scheduler, for every set of jobs and tasks, every date,    *)
(* every bound on the clock and on the number of failures.                 *)
(*                                                                         *)
(*   TypeCorrect        TypeOK, with TaskOK, which says what a task holds  *)
(*   NeverConcurrent    NoConcurrentRun, from the invariant ClaimInv       *)
(*   DoneIsReplied      DoneWasReplied, from the invariant ReplyInv        *)
(*   AttestationIsSound AttestationSound, from the same                    *)
(*   ClaimsLive         ClaimsAreLive, from the invariant LiveInv           *)
(*   RepliesAreBounded  RepliesBounded, from the invariant CountInv        *)
(***************************************************************************)
EXTENDS Scheduler, FiniteSetTheorems, TLAPS

-----------------------------------------------------------------------------
(* Type correctness.  What a task appends to the relays is an outcome only  *)
(* because a task past RunWasm has one.                                     *)

HasResult(t) == pc[t] \notin {"free", "running"}

TaskOK ==
    \A t \in Task :
        /\ pc[t] # "free" => job[t] \in Job
        /\ HasResult(t) => outcome[t] \in Outcome

TypeInv == TypeOK /\ TaskOK

LEMMA TypeInit == Init => TypeInv
BY SchedulerAssumption DEF Init, TypeInv, TypeOK, TaskOK, HasResult

LEMMA FinishKeepsTypes ==
    ASSUME TypeInv, NEW t \in Task, Finish(t)
    PROVE  /\ pc' \in [Task -> {"free", "running", "built", "sent", "locked",
                                "saved", "signing", "signed", "stored"}]
           /\ job' \in [Task -> Job \cup {NoJob}]
           /\ outcome' \in [Task -> Outcome \cup {NoOutcome}]
           /\ lock' \in Task \cup {Nobody}
           /\ TaskOK'
BY DEF TypeInv, TypeOK, TaskOK, HasResult, Finish, Goto

LEMMA TypeStep == TypeInv /\ [Next]_vars => TypeInv'
<1> SUFFICES ASSUME TypeInv, [Next]_vars PROVE TypeInv'
  OBVIOUS
<1> USE DEF TypeInv, TypeOK, tables, loop, tasks, relays
<1>1. CASE Environment
  <2>1. UNCHANGED <<loop, active, lock, tasks, relays, signed, faults>>
    BY <1>1 DEF Environment
  <2>2. CASE Tick
    BY <2>1, <2>2 DEF Tick, TaskOK, HasResult
  <2>3. ASSUME UNCHANGED now, NEW j \in Job,
               InsertJob(j) \/ AnswerJob(j) \/ WriteEvent(j)
        PROVE  TypeInv'
    BY <2>1, <2>3 DEF InsertJob, AnswerJob, WriteEvent, TaskOK, HasResult
  <2> QED
    BY <1>1, <2>2, <2>3 DEF Environment
<1>2. CASE RoundFetch
  BY <1>2, SchedulerAssumption DEF RoundFetch, Ready, TaskOK, HasResult
<1>3. CASE RoundClaim
  BY <1>3 DEF RoundClaim, TaskOK, HasResult
<1>4. CASE RoundEnd
  BY <1>4 DEF RoundEnd, TaskOK, HasResult
<1>5. ASSUME NEW t \in Task, SpawnTask(t) PROVE TypeInv'
  BY <1>5 DEF SpawnTask, TaskOK, HasResult
<1>6. ASSUME NEW t \in Task, TaskStep(t) PROVE TypeInv'
  <2>1. CASE RunWasm(t)
    BY <2>1 DEF RunWasm, Goto, TaskOK, HasResult
  <2>2. CASE SendReply(t)
    <3>1. job[t] \in Job /\ outcome[t] \in Outcome
      BY <2>2 DEF SendReply, TaskOK, HasResult
    <3>2. replies' \in [Job -> Seq(Outcome)]
      BY <2>2, <3>1 DEF SendReply
    <3> QED
      BY <2>2, <3>2 DEF SendReply, Goto, TaskOK, HasResult
  <2>3. CASE TakeLock(t)
    BY <2>3 DEF TakeLock, Goto, TaskOK, HasResult
  <2>4. CASE SaveResponse(t)
    BY <2>4 DEF SaveResponse, Goto, TaskOK, HasResult
  <2>5. CASE ReadEvent(t)
    <3>1. CASE Finish(t)
      BY <2>5, <3>1, FinishKeepsTypes DEF ReadEvent
    <3>2. CASE Goto(t, "signing") /\ UNCHANGED <<lock, job, outcome>>
      BY <2>5, <3>2 DEF ReadEvent, Goto, TaskOK, HasResult
    <3> QED
      BY <2>5, <3>1, <3>2 DEF ReadEvent
  <2>6. CASE Sign(t)
    <3>1. CASE Finish(t) /\ UNCHANGED signed
      BY <2>6, <3>1, FinishKeepsTypes DEF Sign
    <3>2. CASE /\ signed' = [signed EXCEPT ![job[t]] = outcome[t]]
               /\ Goto(t, "signed")
               /\ UNCHANGED <<lock, job, outcome>>
      BY <2>6, <3>2 DEF Sign, Goto, TaskOK, HasResult
    <3> QED
      BY <2>6, <3>1, <3>2 DEF Sign
  <2>7. CASE StoreAttestation(t)
    BY <2>7 DEF StoreAttestation, Goto, TaskOK, HasResult
  <2>8. CASE PublishAttestation(t)
    <3>1. outcome[t] \in Outcome /\ Finish(t)
      BY <2>8 DEF PublishAttestation, TaskOK, HasResult
    <3>2. attested' \in [Job -> SUBSET Outcome]
      BY <2>8, <3>1 DEF PublishAttestation
    <3> QED
      BY <2>8, <3>1, <3>2, FinishKeepsTypes DEF PublishAttestation
  <2> QED
    BY <1>6, <2>1, <2>2, <2>3, <2>4, <2>5, <2>6, <2>7, <2>8 DEF TaskStep
<1>7. ASSUME NEW t \in Task, Fail(t) PROVE TypeInv'
  <2>1. replies' \in [Job -> Seq(Outcome)]
    <3>1. CASE UNCHANGED replies
      BY <3>1
    <3>2. CASE /\ pc[t] = "built"
               /\ replies' = [replies EXCEPT ![job[t]] = Append(@, outcome[t])]
      <4>1. job[t] \in Job /\ outcome[t] \in Outcome
        BY <3>2 DEF TaskOK, HasResult
      <4> QED
        BY <3>2, <4>1
    <3> QED
      BY <1>7, <3>1, <3>2 DEF Fail
  <2>2. faults' \in Nat
    BY <1>7 DEF Fail
  <2> QED
    BY <1>7, <2>1, <2>2, FinishKeepsTypes DEF Fail
<1>8. CASE Crash
  BY <1>8 DEF Crash, TaskOK, HasResult
<1>9. CASE UNCHANGED vars
  BY <1>9 DEF vars, TaskOK, HasResult
<1> QED
  BY <1>1, <1>2, <1>3, <1>4, <1>5, <1>6, <1>7, <1>8, <1>9
  DEF Next, SchedulerNext, RoundStep

LEMMA TypeInvCorrect == Spec => []TypeInv
BY TypeInit, TypeStep, PTL DEF Spec

\* Every variable keeps its type; what a task publishes and signs is always
\* the content of a reply.
THEOREM TypeCorrect == Spec => []TypeOK
<1>1. TypeInv => TypeOK
  BY DEF TypeInv
<1> QED
  BY <1>1, TypeInvCorrect, PTL

-----------------------------------------------------------------------------
(* No concurrent run.  A task is before the mutex, holding its claim in     *)
(* `active`, or it is the holder of the mutex; and no claim is made while   *)
(* the mutex is held.  So a stale list can bring back a job whose task is   *)
(* over, never one whose task is alive.                                     *)

Waiting(t) == pc[t] \in {"running", "built", "sent"}

TodoIsClaimed == todo \subseteq active

WaitingIsClaimed ==
    \A t \in Task : Waiting(t) => job[t] \in active /\ job[t] \notin todo

WaitingAreDistinct ==
    \A t, u \in Task : Waiting(t) /\ Waiting(u) /\ job[t] = job[u] => t = u

HolderIsAlone ==
    \A t \in Task : HoldsLock(t) => lock = t /\ job[t] \notin active

ClaimInv ==
    TodoIsClaimed /\ WaitingIsClaimed /\ WaitingAreDistinct /\ HolderIsAlone

LEMMA ClaimInit == Init => ClaimInv
BY DEF Init, ClaimInv, TodoIsClaimed, WaitingIsClaimed, WaitingAreDistinct,
       HolderIsAlone, Waiting, HoldsLock

\* A step that claims nothing, opens no task and lets nobody take the mutex.
LEMMA ClaimFrame ==
    ASSUME ClaimInv, UNCHANGED <<todo, active>>,
           \A t \in Task : Waiting(t)' => Waiting(t) /\ job'[t] = job[t],
           \A t \in Task : HoldsLock(t)' =>
               HoldsLock(t) /\ job'[t] = job[t] /\ (lock = t => lock' = t)
    PROVE  ClaimInv'
BY DEF ClaimInv, TodoIsClaimed, WaitingIsClaimed, WaitingAreDistinct,
       HolderIsAlone

LEMMA ClaimStep == TypeInv /\ ClaimInv /\ [Next]_vars => ClaimInv'
<1> SUFFICES ASSUME TypeInv, ClaimInv, [Next]_vars PROVE ClaimInv'
  OBVIOUS
<1> USE DEF TypeInv, TypeOK, tables, loop, tasks, relays, ClaimInv,
            TodoIsClaimed, WaitingIsClaimed, WaitingAreDistinct, HolderIsAlone,
            Waiting, HoldsLock
<1>1. CASE UNCHANGED <<loop, active, lock, tasks>>
  BY <1>1
<1>2. CASE RoundClaim
  <2>1. lock \notin Task
    BY <1>2, SchedulerAssumption DEF RoundClaim
  <2> QED
    BY <1>2, <2>1 DEF RoundClaim
<1>3. CASE RoundFetch \/ RoundEnd
  BY <1>3 DEF RoundFetch, RoundEnd
<1>4. ASSUME NEW t \in Task, SpawnTask(t) PROVE ClaimInv'
  <2>1. PICK j \in todo : /\ todo' = todo \ {j}
                          /\ job' = [job EXCEPT ![t] = j]
    BY <1>4 DEF SpawnTask
  <2>2. /\ job'[t] = j /\ pc'[t] = "running"
        /\ \A u \in Task \ {t} : job'[u] = job[u] /\ pc'[u] = pc[u]
        /\ UNCHANGED <<active, lock>>
    BY <1>4, <2>1 DEF SpawnTask
  <2> QED
    BY <2>1, <2>2
<1>5. ASSUME NEW t \in Task, Finish(t), UNCHANGED <<todo, active>>
      PROVE  ClaimInv'
  <2>1. /\ pc'[t] = "free"
        /\ \A u \in Task \ {t} : job'[u] = job[u] /\ pc'[u] = pc[u]
    BY <1>5 DEF Finish, Goto
  <2>2. \A u \in Task \ {t} : lock = u => lock' = u
    BY <1>5 DEF Finish
  <2>3. \A u \in Task : Waiting(u)' => Waiting(u) /\ job'[u] = job[u]
    BY <2>1
  <2>4. \A u \in Task : HoldsLock(u)' =>
          HoldsLock(u) /\ job'[u] = job[u] /\ (lock = u => lock' = u)
    BY <2>1, <2>2
  <2> HIDE DEF ClaimInv, Waiting, HoldsLock
  <2> QED
    BY <1>5, <2>3, <2>4, ClaimFrame
<1>6. ASSUME NEW t \in Task, TaskStep(t) PROVE ClaimInv'
  <2>1. CASE RunWasm(t) \/ SendReply(t) \/ SaveResponse(t) \/ StoreAttestation(t)
    <3>1. UNCHANGED <<todo, active, lock, job>>
      BY <2>1 DEF RunWasm, SendReply, SaveResponse, StoreAttestation
    <3>2. \A u \in Task : (Waiting(u)' => Waiting(u)) /\ (HoldsLock(u)' => HoldsLock(u))
      BY <2>1 DEF RunWasm, SendReply, SaveResponse, StoreAttestation, Goto
    <3> HIDE DEF ClaimInv, Waiting, HoldsLock
    <3> QED
      BY <3>1, <3>2, ClaimFrame
  <2>2. CASE TakeLock(t)
    <3>1. /\ pc[t] = "sent" /\ pc'[t] = "locked" /\ lock' = t
          /\ \A u \in Task : ~HoldsLock(u)
          /\ \A u \in Task \ {t} : pc'[u] = pc[u]
          /\ active' = active \ {job[t]}
          /\ UNCHANGED <<todo, job>>
      BY <2>2, SchedulerAssumption DEF TakeLock, Goto
    <3> QED
      BY <3>1
  <2>3. CASE ReadEvent(t)
    BY <1>5, <2>3 DEF ReadEvent, Goto
  <2>4. CASE Sign(t)
    BY <1>5, <2>4 DEF Sign, Goto
  <2>5. CASE PublishAttestation(t)
    BY <1>5, <2>5 DEF PublishAttestation
  <2> QED
    BY <1>6, <2>1, <2>2, <2>3, <2>4, <2>5 DEF TaskStep
<1>7. ASSUME NEW t \in Task, Fail(t) PROVE ClaimInv'
  BY <1>5, <1>7 DEF Fail
<1>8. CASE Crash
  BY <1>8 DEF Crash
<1> QED
  BY <1>1, <1>2, <1>3, <1>4, <1>6, <1>7, <1>8
  DEF Next, SchedulerNext, RoundStep, Environment, vars

\* At any moment at most one task runs, answers or attests a job, for any
\* number of jobs and tasks and any failures: the claim, the mutex and the
\* order in which a task gives them up suffice.
THEOREM NeverConcurrent == Spec => []NoConcurrentRun
<1>1. TypeInv /\ ClaimInv => NoConcurrentRun
  BY DEF TypeInv, TypeOK, ClaimInv, WaitingIsClaimed, WaitingAreDistinct,
         HolderIsAlone, Waiting, HoldsLock, NoConcurrentRun
<1> QED
  BY <1>1, ClaimInit, ClaimStep, TypeInvCorrect, PTL DEF Spec

-----------------------------------------------------------------------------
(* What is stored and attested was published.  Each fact follows the task   *)
(* from one step to the next: whatever a round reads, claims and runs is    *)
(* due, a task past SendReply has its reply on the relays, and a signature  *)
(* is never replaced.                                                       *)

Due(j) == j \in Scheduled /\ RunDate[j] < now
Shown(j) == {replies[j][i] : i \in DOMAIN replies[j]}

RoundIsDue == \A j \in fetched \cup todo : Due(j)

TaskIsDue == \A t \in Task : pc[t] # "free" => Due(job[t])

TaskHasReplied ==
    \A t \in Task : pc[t] = "sent" \/ HoldsLock(t) => outcome[t] \in Shown(job[t])

TaskHasSaved ==
    \A t \in Task :
        /\ pc[t] \in {"saved", "signing", "signed", "stored"} => jobs[job[t]] = "done"
        /\ pc[t] \in {"signing", "signed", "stored"} => outcome[t] \in Expected
        /\ pc[t] \in {"signed", "stored"} => signed[job[t]] = outcome[t]

ReplyIsDue ==
    \A j \in Job :
        /\ Shown(j) # {} => Due(j)
        /\ j \in Scheduled /\ jobs[j] = "done" => Shown(j) # {}

AttestationIsSigned ==
    \A j \in Job : \A o \in attested[j] :
        /\ signed[j] = o
        /\ o \in Expected \cap Shown(j)
        /\ jobs[j] = "done"

ReplyInv ==
    /\ RoundIsDue /\ TaskIsDue /\ TaskHasReplied /\ TaskHasSaved
    /\ ReplyIsDue /\ AttestationIsSigned

\* What Append does to the contents that are shown.
LEMMA ShownAppend ==
    ASSUME NEW s \in Seq(Outcome), NEW o \in Outcome
    PROVE  {Append(s, o)[i] : i \in DOMAIN Append(s, o)}
             = {s[i] : i \in DOMAIN s} \cup {o}
<1> DEFINE r == Append(s, o)
<1>1. /\ DOMAIN s = 1 .. Len(s) /\ Len(s) \in Nat
      /\ DOMAIN r = 1 .. (Len(s) + 1)
      /\ \A i \in 1 .. Len(s) : r[i] = s[i]
      /\ r[Len(s) + 1] = o
  OBVIOUS
<1> HIDE DEF r
<1>2. \A i \in DOMAIN r : r[i] \in {s[k] : k \in DOMAIN s} \cup {o}
  BY <1>1
<1>3. \A i \in DOMAIN s : s[i] \in {r[k] : k \in DOMAIN r}
  BY <1>1
<1>4. o \in {r[k] : k \in DOMAIN r}
  BY <1>1
<1>5. {r[i] : i \in DOMAIN r} = {s[i] : i \in DOMAIN s} \cup {o}
  BY <1>2, <1>3, <1>4
<1> QED
  BY <1>5 DEF r

\* Publishing a reply shows its content, and shows no other job.
LEMMA ReplyShown ==
    ASSUME replies \in [Job -> Seq(Outcome)], NEW k \in Job, NEW o \in Outcome,
           replies' = [replies EXCEPT ![k] = Append(@, o)]
    PROVE  /\ o \in Shown(k)'
           /\ \A j \in Job : Shown(j) \subseteq Shown(j)'
           /\ \A j \in Job : Shown(j)' # {} => Shown(j) # {} \/ k = j
<1>1. /\ replies[k] \in Seq(Outcome)
      /\ replies'[k] = Append(replies[k], o)
      /\ \A j \in Job \ {k} : replies'[j] = replies[j]
  OBVIOUS
<1>2. {Append(replies[k], o)[i] : i \in DOMAIN Append(replies[k], o)}
        = {replies[k][i] : i \in DOMAIN replies[k]} \cup {o}
  BY <1>1, ShownAppend
<1>3. Shown(k)' = Shown(k) \cup {o}
  BY <1>1, <1>2 DEF Shown
<1>4. \A j \in Job \ {k} : Shown(j)' = Shown(j)
  BY <1>1 DEF Shown
<1> QED
  BY <1>3, <1>4

LEMMA ReplyInit == Init => ReplyInv
BY DEF Init, ReplyInv, RoundIsDue, TaskIsDue, TaskHasReplied, TaskHasSaved,
       ReplyIsDue, AttestationIsSigned, HoldsLock, Shown

-----------------------------------------------------------------------------
(* What one step can do.  Facts only grow, and each new one comes from a    *)
(* task, or from the table, that justifies it.                              *)

Replied(t) == pc[t] = "sent" \/ HoldsLock(t)
Saved(t) == pc[t] \in {"saved", "signing", "signed", "stored"}
Signing(t) == pc[t] \in {"signing", "signed", "stored"}
Signed(t) == pc[t] \in {"signed", "stored"}

\* Time passes; done rows, replies and signatures stay.
Growth ==
    /\ now' \in Nat /\ now' >= now
    /\ \A j \in Job : jobs[j] = "done" => jobs'[j] = "done"
    /\ \A j \in Job : Shown(j) \subseteq Shown(j)'
    /\ \A j \in Job : signed[j] # NoOutcome => signed'[j] = signed[j]

\* A task keeps its job and its result, and reaches a stage by doing its part.
TaskMoves ==
    \A t \in Task :
        /\ pc'[t] # "free" => \/ pc[t] # "free" /\ job'[t] = job[t]
                              \/ pc'[t] = "running" /\ job'[t] \in todo
        /\ Replied(t)' => job'[t] = job[t] /\ outcome'[t] = outcome[t]
        /\ Replied(t)' => Replied(t) \/ (outcome[t] \in Shown(job[t]))'
        /\ Saved(t)' => Saved(t) \/ jobs'[job[t]] = "done"
        /\ Signing(t)' => Signing(t) \/ outcome[t] \in Expected
        /\ Signed(t)' => Signed(t) \/ signed'[job[t]] = outcome[t]

\* A due job comes from the table, a reply, a done row and an attestation from
\* a task at the stage before it.
Sources ==
    /\ \A j \in fetched' \cup todo' : j \in fetched \cup todo \/ Due(j)
    /\ \A j \in Job : Shown(j)' # {} =>
          Shown(j) # {} \/ \E t \in Task : pc[t] = "built" /\ job[t] = j
    /\ \A j \in Scheduled : jobs'[j] = "done" =>
          jobs[j] = "done" \/ \E t \in Task : pc[t] = "locked" /\ job[t] = j
    /\ \A j \in Job : \A o \in attested'[j] :
          \/ o \in attested[j]
          \/ \E t \in Task : pc[t] = "stored" /\ job[t] = j /\ outcome[t] = o

LEMMA ReplyFromFacts ==
    ASSUME TypeInv, TypeInv', ReplyInv, Growth, TaskMoves, Sources
    PROVE  ReplyInv'
<1> USE DEF ReplyInv, Growth, TaskMoves, Sources
<1>1. \A j : Due(j) => Due(j)'
  BY SchedulerAssumption DEF Due, TypeInv, TypeOK
<1>2. RoundIsDue'
  BY <1>1 DEF RoundIsDue
<1>3. TaskIsDue'
  BY <1>1 DEF TaskIsDue, RoundIsDue
<1>4. \A t \in Task : pc[t] # "free" => job[t] \in Job
  BY DEF TypeInv, TaskOK
<1>5. \A t \in Task : /\ Replied(t) => pc[t] # "free"
                      /\ Saved(t) => Replied(t)
                      /\ Signing(t) => Saved(t)
                      /\ Signed(t) => Signing(t)
  BY DEF Replied, Saved, Signing, Signed, HoldsLock
<1>6. \A t \in Task : /\ Replied(t)' => pc'[t] # "free" /\ pc'[t] # "running"
                      /\ Saved(t)' \/ Signing(t)' \/ Signed(t)' => Replied(t)'
  BY DEF Replied, Saved, Signing, Signed, HoldsLock
<1>7. TaskHasReplied'
  <2> SUFFICES ASSUME NEW t \in Task, Replied(t)'
               PROVE  (outcome[t] \in Shown(job[t]))'
    BY DEF TaskHasReplied, Replied
  <2>1. job'[t] = job[t] /\ outcome'[t] = outcome[t]
    OBVIOUS
  <2>2. CASE Replied(t)
    <3>1. job[t] \in Job
      BY <1>4, <2>2 DEF Replied, HoldsLock
    <3>2. outcome[t] \in Shown(job[t])
      BY <2>2 DEF TaskHasReplied, Replied
    <3> QED
      BY <2>1, <3>1, <3>2 DEF Shown
  <2>3. CASE (outcome[t] \in Shown(job[t]))'
    BY <2>3
  <2> QED
    BY <2>1, <2>2, <2>3 DEF Shown
<1>8. TaskHasSaved'
  <2> SUFFICES ASSUME NEW t \in Task
               PROVE  /\ Saved(t)' => jobs'[job'[t]] = "done"
                      /\ Signing(t)' => outcome'[t] \in Expected
                      /\ Signed(t)' => signed'[job'[t]] = outcome'[t]
    BY DEF TaskHasSaved, Saved, Signing, Signed
  <2>1. Saved(t)' => jobs'[job'[t]] = "done"
    BY <1>4, <1>5, <1>6 DEF TaskHasSaved, Saved
  <2>2. Signing(t)' => outcome'[t] \in Expected
    <3>1. Signing(t) => outcome[t] \in Expected
      BY DEF TaskHasSaved, Signing
    <3> QED
      BY <1>6, <3>1
  <2>3. Signed(t)' => signed'[job'[t]] = outcome'[t]
    <3> HAVE Signed(t)'
    <3>1. job'[t] = job[t] /\ outcome'[t] = outcome[t]
      BY <1>6
    <3>2. CASE Signed(t)
      <4>1. job[t] \in Job /\ signed[job[t]] = outcome[t] /\ outcome[t] \in Outcome
        BY <3>2, <1>4, <1>5 DEF TaskHasSaved, Signed, TypeInv, TaskOK, HasResult
      <4>2. signed[job[t]] # NoOutcome
        BY <4>1, SchedulerAssumption
      <4> QED
        BY <3>1, <4>1, <4>2
    <3> QED
      BY <3>1, <3>2
  <2> QED
    BY <2>1, <2>2, <2>3
<1>9. ReplyIsDue'
  <2> SUFFICES ASSUME NEW j \in Job
               PROVE  /\ Shown(j)' # {} => Due(j)'
                      /\ j \in Scheduled /\ jobs'[j] = "done" => Shown(j)' # {}
    BY DEF ReplyIsDue
  <2>1. Shown(j)' # {} => Due(j)'
    BY <1>1 DEF ReplyIsDue, TaskIsDue
  <2>2. j \in Scheduled /\ jobs'[j] = "done" => Shown(j)' # {}
    BY DEF ReplyIsDue, TaskHasReplied, HoldsLock
  <2> QED
    BY <2>1, <2>2
<1>10. AttestationIsSigned'
  <2> SUFFICES ASSUME NEW j \in Job, NEW o \in attested'[j]
               PROVE  /\ signed'[j] = o
                      /\ o \in Expected \cap Shown(j)'
                      /\ jobs'[j] = "done"
    BY DEF AttestationIsSigned
  <2>1. /\ signed[j] = o
        /\ o \in Expected \cap Shown(j)
        /\ jobs[j] = "done"
    BY DEF AttestationIsSigned, TaskHasReplied, TaskHasSaved, HoldsLock
  <2>2. signed[j] # NoOutcome
    BY <2>1, SchedulerAssumption
  <2> QED
    BY <2>1, <2>2
<1> QED
  BY <1>2, <1>3, <1>7, <1>8, <1>9, <1>10

\* A step that leaves the tasks, the relays and the signatures alone.
LEMMA QuietStepFacts ==
    ASSUME TypeInv, UNCHANGED <<tasks, relays, signed>>,
           now' \in Nat /\ now' >= now,
           \A j \in Job : jobs[j] = "done" => jobs'[j] = "done",
           \A j \in Scheduled : jobs'[j] = "done" => jobs[j] = "done",
           \A j \in fetched' \cup todo' : j \in fetched \cup todo \/ Due(j)
    PROVE  Growth /\ TaskMoves /\ Sources
BY DEF Growth, TaskMoves, Sources, tasks, relays, Shown, Replied, Saved,
       Signing, Signed, HoldsLock

\* A step that touches nothing that is stored or published.
LEMMA StillFacts ==
    ASSUME TypeInv, UNCHANGED <<now, jobs, fetched, todo, relays, signed>>
    PROVE  Growth /\ Sources
BY DEF TypeInv, TypeOK, Growth, Sources, relays, Shown

\* A task that ends.
LEMMA FinishFacts ==
    ASSUME TypeInv, NEW t \in Task, Finish(t), UNCHANGED <<now, jobs, fetched, todo>>,
           \A j \in Job : Shown(j) \subseteq Shown(j)',
           \A j \in Job : Shown(j)' # {} =>
              Shown(j) # {} \/ (pc[t] = "built" /\ job[t] = j),
           UNCHANGED signed,
           \A j \in Job : \A o \in attested'[j] :
              o \in attested[j] \/ (pc[t] = "stored" /\ job[t] = j /\ outcome[t] = o)
    PROVE  Growth /\ TaskMoves /\ Sources
<1> USE DEF TypeInv, TypeOK
<1>1. /\ pc'[t] = "free"
      /\ \A u \in Task \ {t} : /\ pc'[u] = pc[u] /\ job'[u] = job[u]
                              /\ outcome'[u] = outcome[u]
  BY DEF Finish, Goto
<1>2. Growth
  BY DEF Growth
<1>3. Sources
  BY DEF Sources
<1>4. TaskMoves
  BY <1>1 DEF TaskMoves, Replied, Saved, Signing, Signed, HoldsLock
<1> QED
  BY <1>2, <1>3, <1>4

LEMMA ReplyStep == TypeInv /\ TypeInv' /\ ReplyInv /\ [Next]_vars => ReplyInv'
<1> SUFFICES ASSUME TypeInv, TypeInv', ReplyInv, [Next]_vars
             PROVE  Growth /\ TaskMoves /\ Sources
  BY ReplyFromFacts
<1> USE DEF TypeInv, TypeOK, tables, loop, relays
<1>1. CASE Environment
  <2>1. UNCHANGED <<loop, tasks, relays, signed>>
    BY <1>1 DEF Environment
  <2>2. CASE Tick
    BY <2>1, <2>2, QuietStepFacts DEF Tick
  <2>3. ASSUME UNCHANGED now, NEW j \in Job,
               InsertJob(j) \/ AnswerJob(j) \/ WriteEvent(j)
        PROVE  Growth /\ TaskMoves /\ Sources
    <3>1. /\ \A k \in Job : jobs[k] = "done" => jobs'[k] = "done"
          /\ \A k \in Scheduled : jobs'[k] = "done" => jobs[k] = "done"
      BY <2>3, SchedulerAssumption DEF InsertJob, AnswerJob, WriteEvent
    <3> QED
      BY <2>1, <2>3, <3>1, QuietStepFacts
  <2> QED
    BY <1>1, <2>2, <2>3 DEF Environment
<1>2. CASE RoundFetch
  BY <1>2, QuietStepFacts DEF RoundFetch, Ready, Due
<1>3. CASE RoundClaim
  BY <1>3, QuietStepFacts DEF RoundClaim
<1>4. CASE RoundEnd
  BY <1>4, QuietStepFacts DEF RoundEnd
<1>5. ASSUME NEW t \in Task, SpawnTask(t)
      PROVE  Growth /\ TaskMoves /\ Sources
  <2>1. PICK j \in todo : /\ todo' = todo \ {j}
                          /\ job' = [job EXCEPT ![t] = j]
    BY <1>5 DEF SpawnTask
  <2>2. /\ pc'[t] = "running" /\ job'[t] \in todo
        /\ \A u \in Task \ {t} : pc'[u] = pc[u] /\ job'[u] = job[u]
        /\ UNCHANGED <<now, jobs, fetched, outcome, relays, signed>>
    BY <1>5, <2>1 DEF SpawnTask
  <2>3. Growth
    BY <2>2 DEF Growth, Shown
  <2>4. Sources
    BY <2>1, <2>2 DEF Sources, Shown
  <2>5. TaskMoves
    BY <2>2 DEF TaskMoves, Replied, Saved, Signing, Signed, HoldsLock
  <2> QED
    BY <2>3, <2>4, <2>5
<1>6. ASSUME NEW t \in Task, TaskStep(t)
      PROVE  Growth /\ TaskMoves /\ Sources
  <2>1. CASE RunWasm(t)
    <3>1. Growth /\ Sources
      BY <2>1, StillFacts DEF RunWasm
    <3>2. /\ pc[t] = "running" /\ pc'[t] = "built" /\ UNCHANGED job
          /\ \A u \in Task \ {t} : pc'[u] = pc[u] /\ outcome'[u] = outcome[u]
      BY <2>1 DEF RunWasm, Goto
    <3>3. TaskMoves
      BY <3>2 DEF TaskMoves, Replied, Saved, Signing, Signed, HoldsLock
    <3> QED
      BY <3>1, <3>3
  <2>2. CASE SendReply(t)
    <3>1. job[t] \in Job /\ outcome[t] \in Outcome
      BY <2>2 DEF SendReply, TaskOK, HasResult
    <3>2. /\ replies' = [replies EXCEPT ![job[t]] = Append(@, outcome[t])]
          /\ pc[t] = "built" /\ pc'[t] = "sent"
          /\ \A u \in Task \ {t} : pc'[u] = pc[u]
          /\ UNCHANGED <<now, jobs, fetched, todo, job, outcome, attested, signed>>
      BY <2>2 DEF SendReply, Goto
    <3>3. /\ (outcome[t] \in Shown(job[t]))'
          /\ \A j \in Job : Shown(j) \subseteq Shown(j)'
          /\ \A j \in Job : Shown(j)' # {} => Shown(j) # {} \/ job[t] = j
      BY <3>1, <3>2, ReplyShown
    <3>4. Growth
      BY <3>2, <3>3 DEF Growth
    <3>5. Sources
      BY <3>2, <3>3 DEF Sources
    <3>6. TaskMoves
      BY <3>2, <3>3 DEF TaskMoves, Replied, Saved, Signing, Signed, HoldsLock
    <3> QED
      BY <3>4, <3>5, <3>6
  <2>3. CASE TakeLock(t) \/ StoreAttestation(t)
    <3>1. Growth /\ Sources
      BY <2>3, StillFacts DEF TakeLock, StoreAttestation
    <3>2. TaskMoves
      BY <2>3
      DEF TakeLock, StoreAttestation, Goto, TaskMoves, Replied, Saved, Signing,
          Signed, HoldsLock
    <3> QED
      BY <3>1, <3>2
  <2>4. CASE SaveResponse(t)
    <3>1. /\ jobs' = [jobs EXCEPT ![job[t]] = "done"] /\ job[t] \in Job
          /\ pc[t] = "locked" /\ pc'[t] = "saved"
          /\ \A u \in Task \ {t} : pc'[u] = pc[u]
          /\ UNCHANGED <<now, fetched, todo, job, outcome, relays, signed>>
      BY <2>4 DEF SaveResponse, Goto, TaskOK
    <3>2. Growth
      BY <3>1 DEF Growth, Shown
    <3>3. Sources
      BY <3>1 DEF Sources, Shown
    <3>4. TaskMoves
      BY <3>1 DEF TaskMoves, Replied, Saved, Signing, Signed, HoldsLock
    <3> QED
      BY <3>2, <3>3, <3>4
  <2>5. CASE ReadEvent(t)
    <3>1. CASE Finish(t)
      BY <2>5, <3>1, FinishFacts DEF ReadEvent, Shown
    <3>2. CASE outcome[t] \in Expected /\ Goto(t, "signing")
               /\ UNCHANGED <<lock, job, outcome>>
      <4>1. Growth /\ Sources
        BY <2>5, StillFacts DEF ReadEvent
      <4>2. TaskMoves
        BY <2>5, <3>2
        DEF ReadEvent, Goto, TaskMoves, Replied, Saved, Signing, Signed, HoldsLock
      <4> QED
        BY <4>1, <4>2
    <3> QED
      BY <2>5, <3>1, <3>2 DEF ReadEvent
  <2>6. CASE Sign(t)
    <3>1. CASE Finish(t) /\ UNCHANGED signed
      BY <2>6, <3>1, FinishFacts DEF Sign, Shown
    <3>2. CASE /\ signed[job[t]] = NoOutcome
               /\ signed' = [signed EXCEPT ![job[t]] = outcome[t]]
               /\ Goto(t, "signed")
               /\ UNCHANGED <<lock, job, outcome>>
      <4>1. /\ pc[t] = "signing" /\ pc'[t] = "signed" /\ job[t] \in Job
            /\ \A u \in Task \ {t} : pc'[u] = pc[u]
            /\ UNCHANGED <<now, jobs, fetched, todo, relays>>
        BY <2>6, <3>2 DEF Sign, Goto, TaskOK
      <4>2. Growth
        BY <3>2, <4>1 DEF Growth, Shown
      <4>3. Sources
        BY <4>1 DEF Sources, Shown
      <4>4. TaskMoves
        BY <3>2, <4>1 DEF TaskMoves, Replied, Saved, Signing, Signed, HoldsLock
      <4> QED
        BY <4>2, <4>3, <4>4
    <3> QED
      BY <2>6, <3>1, <3>2 DEF Sign
  <2>7. CASE PublishAttestation(t)
    BY <2>7, FinishFacts DEF PublishAttestation, Shown
  <2> QED
    BY <1>6, <2>1, <2>2, <2>3, <2>4, <2>5, <2>6, <2>7 DEF TaskStep
<1>7. ASSUME NEW t \in Task, Fail(t)
      PROVE  Growth /\ TaskMoves /\ Sources
  <2>1. CASE UNCHANGED replies
    BY <1>7, <2>1, FinishFacts DEF Fail, Shown
  <2>2. CASE /\ pc[t] = "built"
             /\ replies' = [replies EXCEPT ![job[t]] = Append(@, outcome[t])]
    <3>1. job[t] \in Job /\ outcome[t] \in Outcome
      BY <2>2 DEF TaskOK, HasResult
    <3>2. /\ \A j \in Job : Shown(j) \subseteq Shown(j)'
          /\ \A j \in Job : Shown(j)' # {} => Shown(j) # {} \/ job[t] = j
      BY <2>2, <3>1, ReplyShown
    <3> QED
      BY <1>7, <2>2, <3>2, FinishFacts DEF Fail
  <2> QED
    BY <1>7, <2>1, <2>2 DEF Fail
<1>8. CASE Crash
  BY <1>8 DEF Crash, Growth, TaskMoves, Sources, Shown, Replied, Saved, Signing,
     Signed, HoldsLock
<1>9. CASE UNCHANGED vars
  BY <1>9, QuietStepFacts DEF vars
<1> QED
  BY <1>1, <1>2, <1>3, <1>4, <1>5, <1>6, <1>7, <1>8, <1>9
  DEF Next, SchedulerNext, RoundStep

LEMMA ReplyInvCorrect == Spec => []ReplyInv
BY ReplyInit, ReplyStep, TypeInvCorrect, PTL DEF Spec

\* A job is marked as done only after its reply was published, and only jobs
\* whose date has passed are replied to, however often tasks fail and the
\* process crashes.
THEOREM DoneIsReplied == Spec => []DoneWasReplied
<1>1. TypeInv /\ ReplyInv => DoneWasReplied
  <2> SUFFICES ASSUME TypeInv, ReplyInv, NEW j \in Scheduled
               PROVE  /\ jobs[j] = "done" => replies[j] # <<>>
                      /\ replies[j] # <<>> => RunDate[j] < now
    BY DEF DoneWasReplied
  <2>1. j \in Job /\ replies[j] \in Seq(Outcome)
    BY SchedulerAssumption DEF TypeInv, TypeOK
  <2>2. Shown(j) # {} <=> replies[j] # <<>>
    <3> DEFINE r == replies[j]
    <3>1. r \in Seq(Outcome) => (DOMAIN r = {} <=> r = <<>>)
      <4> HIDE DEF r
      <4> QED
        OBVIOUS
    <3> QED
      BY <2>1, <3>1 DEF Shown
  <2> QED
    BY <2>1, <2>2 DEF ReplyInv, ReplyIsDue, Due
<1> QED
  BY <1>1, TypeInvCorrect, ReplyInvCorrect, PTL

\* The oracle attests at most one outcome of a job, one that the event lists
\* and that a published reply showed, although a job may run several times
\* with different results.
THEOREM AttestationIsSound == Spec => []AttestationSound
<1>1. TypeInv /\ ReplyInv => AttestationSound
  <2> SUFFICES ASSUME TypeInv, ReplyInv, NEW j \in Job
               PROVE  /\ Cardinality(attested[j]) <= 1
                      /\ attested[j] \subseteq Expected \cap Shown(j)
                      /\ attested[j] # {} => jobs[j] = "done"
    BY DEF AttestationSound, Shown
  <2>1. \A o \in attested[j] : /\ signed[j] = o
                               /\ o \in Expected \cap Shown(j)
                               /\ jobs[j] = "done"
    BY DEF ReplyInv, AttestationIsSigned
  <2>2. attested[j] = {} \/ attested[j] = {signed[j]}
    BY <2>1
  <2>3. Cardinality(attested[j]) <= 1
    <3>1. CASE attested[j] = {}
      <4>1. Cardinality({}) = 0
        BY FS_EmptySet
      <4> QED
        BY <3>1, <4>1
    <3>2. CASE attested[j] = {signed[j]}
      <4>1. Cardinality({signed[j]}) = 1
        BY FS_Singleton
      <4> QED
        BY <3>2, <4>1
    <3> QED
      BY <2>2, <3>1, <3>2
  <2> QED
    BY <2>1, <2>3
<1> QED
  BY <1>1, TypeInvCorrect, ReplyInvCorrect, PTL

-----------------------------------------------------------------------------
(* A claim belongs to a job about to be spawned or to a task that has not   *)
(* taken the mutex.  RoundClaim replaces todo, so it must be empty by then. *)

RoundIsSpawned == round # "spawn" => todo = {}

WaitingJobs == {job[t] : t \in {u \in Task : Waiting(u)}}

LiveInv == RoundIsSpawned /\ (faults = 0 => active = todo \cup WaitingJobs)

LEMMA WaitingJob ==
    /\ \A k : k \in WaitingJobs <=> \E t \in Task : Waiting(t) /\ job[t] = k
    /\ \A k : k \in WaitingJobs' <=> \E t \in Task : Waiting(t)' /\ job'[t] = k
BY DEF WaitingJobs

\* A step that claims nothing, and opens and closes no task before the mutex.
LEMMA LiveFrame ==
    ASSUME LiveInv, UNCHANGED <<todo, active, faults>>,
           round' # "spawn" => round # "spawn" \/ todo = {},
           \A t \in Task : Waiting(t)' = Waiting(t) /\ (Waiting(t) => job'[t] = job[t])
    PROVE  LiveInv'
<1>1. WaitingJobs' = WaitingJobs
  BY DEF WaitingJobs
<1> QED
  BY <1>1 DEF LiveInv, RoundIsSpawned

LEMMA LiveStep == TypeInv /\ ClaimInv /\ LiveInv /\ [Next]_vars => LiveInv'
<1> SUFFICES ASSUME TypeInv, ClaimInv, LiveInv, [Next]_vars PROVE LiveInv'
  OBVIOUS
<1> USE DEF TypeInv, TypeOK, tables, loop, tasks
<1>1. CASE UNCHANGED <<loop, active, tasks, faults>>
  BY <1>1, LiveFrame DEF Waiting
<1>2. CASE RoundFetch \/ RoundEnd
  BY <1>2, LiveFrame DEF RoundFetch, RoundEnd, Waiting
<1>3. CASE RoundClaim
  <2>1. /\ todo = {} /\ round' = "spawn" /\ active' = active \cup todo'
        /\ UNCHANGED <<tasks, faults>>
    BY <1>3 DEF RoundClaim, LiveInv, RoundIsSpawned
  <2>2. WaitingJobs' = WaitingJobs
    BY <2>1 DEF WaitingJobs, Waiting
  <2> QED
    BY <2>1, <2>2 DEF LiveInv, RoundIsSpawned
<1>4. ASSUME NEW t \in Task, SpawnTask(t) PROVE LiveInv'
  <2>1. PICK j \in todo : /\ todo' = todo \ {j}
                          /\ job' = [job EXCEPT ![t] = j]
    BY <1>4 DEF SpawnTask
  <2>2. /\ round = "spawn" /\ pc[t] = "free" /\ pc'[t] = "running" /\ job'[t] = j
        /\ \A u \in Task \ {t} : job'[u] = job[u] /\ pc'[u] = pc[u]
        /\ UNCHANGED <<round, active, faults>>
    BY <1>4, <2>1 DEF SpawnTask
  <2>3. \A k : k \in WaitingJobs' <=> k \in WaitingJobs \/ k = j
    <3>1. /\ Waiting(t)' /\ ~Waiting(t)
          /\ \A u \in Task \ {t} : Waiting(u)' = Waiting(u)
      BY <2>2 DEF Waiting
    <3>2. \A u \in Task :
            Waiting(u)' <=> u = t \/ Waiting(u)
      BY <3>1
    <3>3. \A u \in Task : Waiting(u) => job'[u] = job[u]
      BY <2>2, <3>1
    <3>4. \A k : k \in WaitingJobs' => k \in WaitingJobs \/ k = j
      BY <2>2, <3>2, <3>3, WaitingJob
    <3>5. \A k \in WaitingJobs : k \in WaitingJobs'
      BY <3>2, <3>3, WaitingJob
    <3>6. j \in WaitingJobs'
      BY <2>2, <3>1, WaitingJob
    <3> QED
      BY <3>4, <3>5, <3>6
  <2> QED
    BY <2>1, <2>2, <2>3 DEF LiveInv, RoundIsSpawned
<1>5. ASSUME NEW t \in Task, HoldsLock(t), Finish(t),
             UNCHANGED <<round, todo, active, faults>>
      PROVE  LiveInv'
  BY <1>5, LiveFrame DEF Finish, Goto, Waiting, HoldsLock
<1>6. ASSUME NEW t \in Task, TaskStep(t) PROVE LiveInv'
  <2>1. CASE RunWasm(t) \/ SendReply(t) \/ SaveResponse(t) \/ StoreAttestation(t)
    BY <2>1, LiveFrame
    DEF RunWasm, SendReply, SaveResponse, StoreAttestation, Goto, Waiting
  <2>2. CASE TakeLock(t)
    <3>1. /\ pc[t] = "sent" /\ pc'[t] = "locked"
          /\ \A u \in Task \ {t} : pc'[u] = pc[u]
          /\ active' = active \ {job[t]}
          /\ UNCHANGED <<round, todo, job, faults>>
      BY <2>2 DEF TakeLock, Goto
    <3>2. \A u \in Task \ {t} : Waiting(u) => job[u] # job[t]
      BY <3>1 DEF ClaimInv, WaitingAreDistinct, Waiting
    <3>3. job[t] \notin todo
      BY <3>1 DEF ClaimInv, WaitingIsClaimed, Waiting
    <3>4. \A k : k \in WaitingJobs' <=> k \in WaitingJobs /\ k # job[t]
      <4>1. /\ Waiting(t) /\ ~Waiting(t)'
            /\ \A u \in Task \ {t} : Waiting(u)' = Waiting(u)
        BY <3>1 DEF Waiting
      <4>2. \A u \in Task : Waiting(u)' <=> u # t /\ Waiting(u)
        BY <4>1
      <4>3. \A k \in WaitingJobs' : k \in WaitingJobs /\ k # job[t]
        BY <3>1, <3>2, <4>2, WaitingJob
      <4>4. \A k \in WaitingJobs : k # job[t] => k \in WaitingJobs'
        BY <3>1, <4>2, WaitingJob
      <4> QED
        BY <4>3, <4>4
    <3> QED
      BY <3>1, <3>3, <3>4 DEF LiveInv, RoundIsSpawned
  <2>3. CASE ReadEvent(t)
    <3>1. CASE Finish(t)
      BY <2>3, <3>1, <1>5 DEF ReadEvent, HoldsLock
    <3>2. CASE Goto(t, "signing") /\ UNCHANGED <<lock, job, outcome>>
      BY <2>3, <3>2, LiveFrame DEF ReadEvent, Goto, Waiting
    <3> QED
      BY <2>3, <3>1, <3>2 DEF ReadEvent
  <2>4. CASE Sign(t)
    <3>1. CASE Finish(t)
      BY <2>4, <3>1, <1>5 DEF Sign, HoldsLock
    <3>2. CASE Goto(t, "signed") /\ UNCHANGED <<lock, job, outcome>>
      BY <2>4, <3>2, LiveFrame DEF Sign, Goto, Waiting
    <3> QED
      BY <2>4, <3>1, <3>2 DEF Sign
  <2>5. CASE PublishAttestation(t)
    BY <2>5, <1>5 DEF PublishAttestation, HoldsLock
  <2> QED
    BY <1>6, <2>1, <2>2, <2>3, <2>4, <2>5 DEF TaskStep
<1>7. ASSUME NEW t \in Task, Fail(t) PROVE LiveInv'
  BY <1>7 DEF Fail, LiveInv, RoundIsSpawned
<1>8. CASE Crash
  BY <1>8 DEF Crash, LiveInv, RoundIsSpawned
<1> QED
  BY <1>1, <1>2, <1>3, <1>4, <1>6, <1>7, <1>8
  DEF Next, SchedulerNext, RoundStep, Environment, vars

\* Without a failure no claim is left behind: whatever is in the set of active
\* jobs is about to be spawned or has a task that will give it up.
THEOREM ClaimsLive == Spec => []ClaimsAreLive
<1>1. Init => LiveInv
  BY DEF Init, LiveInv, RoundIsSpawned, WaitingJobs, Waiting
<1>2. LiveInv => ClaimsAreLive
  BY DEF LiveInv, WaitingJobs, Waiting, ClaimsAreLive
<1> QED
  BY <1>1, <1>2, LiveStep, ClaimInit, ClaimStep, TypeInvCorrect, PTL DEF Spec

-----------------------------------------------------------------------------
(* How often a job is answered.  Before its response is stored a job is     *)
(* replied to only by the task that is about to store it.  Afterwards it    *)
(* comes back only from the one list a round read before, and that list is  *)
(* gone once the job is claimed.                                            *)

Unsaved(j) == \E t \in Task : pc[t] \in {"sent", "locked"} /\ job[t] = j

Pending(j) == j \in todo \/ \E t \in Task : pc[t] \in {"running", "built"} /\ job[t] = j

OpenCount ==
    \A j \in Job : jobs[j] # "done" =>
        /\ Len(replies[j]) <= faults + 1
        /\ ~Unsaved(j) => Len(replies[j]) <= faults

DoneCount ==
    \A j \in Job : jobs[j] = "done" =>
        /\ Len(replies[j]) <= faults + 2
        /\ j \in fetched \/ Pending(j) => Len(replies[j]) <= faults + 1
        /\ ~(j \in fetched /\ Pending(j))

CountInv == OpenCount /\ DoneCount

\* A step that publishes no reply, stores no response and brings no job back.
LEMMA CountFrame ==
    ASSUME TypeInv, CountInv, UNCHANGED replies,
           faults' = faults \/ faults' = faults + 1,
           \A j \in Job : jobs'[j] = "done" <=> jobs[j] = "done",
           \A j \in Job : Unsaved(j) => Unsaved(j)' \/ faults' = faults + 1,
           \A j \in Job : jobs[j] = "done" =>
               /\ (j \in fetched \/ Pending(j))' => j \in fetched \/ Pending(j)
               /\ (j \in fetched /\ Pending(j))' => j \in fetched /\ Pending(j)
    PROVE  CountInv'
<1>1. \A j \in Job : Len(replies[j]) \in Nat
  BY DEF TypeInv, TypeOK
<1>2. faults \in Nat
  BY DEF TypeInv, TypeOK
<1> QED
  BY <1>1, <1>2 DEF CountInv, OpenCount, DoneCount

\* What one task's move does to the two kinds of job.
LEMMA TaskView ==
    ASSUME NEW t \in Task, UNCHANGED todo,
           pc'[t] # "free" => job'[t] = job[t],
           \A u \in Task \ {t} : pc'[u] = pc[u] /\ job'[u] = job[u]
    PROVE  \A j : /\ pc[t] \notin {"sent", "locked"}
                       \/ pc'[t] \in {"sent", "locked"} => (Unsaved(j) => Unsaved(j)')
                  /\ pc'[t] \notin {"running", "built"}
                       \/ pc[t] \in {"running", "built"} => (Pending(j)' => Pending(j))
                  /\ job[t] # j => (Unsaved(j) => Unsaved(j)')
                  /\ job[t] # j => (Pending(j)' => Pending(j))
BY DEF Unsaved, Pending

LEMMA CountStep ==
    TypeInv /\ ClaimInv /\ RoundIsDue /\ CountInv /\ [Next]_vars => CountInv'
<1> SUFFICES ASSUME TypeInv, ClaimInv, RoundIsDue, CountInv, [Next]_vars
             PROVE  CountInv'
  OBVIOUS
<1> USE DEF TypeInv, TypeOK, tables, loop, tasks, relays
<1>a. /\ faults \in Nat
      /\ \A j \in Job : replies[j] \in Seq(Outcome) /\ Len(replies[j]) \in Nat
  OBVIOUS
\* A task and its job: nobody else runs, answers or is about to run it.
<1>b. \A t \in Task : pc[t] \in {"running", "built", "sent"} \/ HoldsLock(t) =>
        /\ job[t] \in Job /\ job[t] \notin todo
        /\ \A u \in Task \ {t} :
             pc[u] \in {"running", "built", "sent"} \/ HoldsLock(u) => job[u] # job[t]
  BY DEF ClaimInv, TodoIsClaimed, WaitingIsClaimed, WaitingAreDistinct,
         HolderIsAlone, Waiting, HoldsLock, TaskOK
<1>1. CASE Environment
  <2>1. UNCHANGED <<fetched, todo, pc, job, replies, faults>>
    BY <1>1 DEF Environment
  <2>2. \A j \in Job : Unsaved(j)' = Unsaved(j) /\ Pending(j)' = Pending(j)
    BY <2>1 DEF Unsaved, Pending
  <2>3. CASE \A j \in Job : jobs'[j] = "done" <=> jobs[j] = "done"
    BY <2>1, <2>2, <2>3, CountFrame
  <2>4. ASSUME NEW j \in Job, AnswerJob(j) PROVE CountInv'
    <3>1. j \notin fetched
      BY <2>4 DEF AnswerJob, RoundIsDue, Due
    <3>2. /\ jobs'[j] = "done"
          /\ \A k \in Job \ {j} : jobs'[k] = jobs[k]
      BY <2>4 DEF AnswerJob
    <3>3. OpenCount'
      BY <2>1, <2>2, <3>2 DEF CountInv, OpenCount
    <3>4. DoneCount'
      BY <2>1, <2>2, <3>1, <3>2, <1>a DEF CountInv, OpenCount, DoneCount
    <3> QED
      BY <3>3, <3>4 DEF CountInv
  <2> QED
    BY <1>1, <2>3, <2>4 DEF Environment, Tick, InsertJob, WriteEvent
<1>2. CASE RoundFetch
  <2>1. /\ UNCHANGED <<jobs, todo, pc, job, replies, faults>>
        /\ \A j \in fetched' : jobs[j] # "done"
    BY <1>2 DEF RoundFetch, Ready
  <2>2. \A j \in Job : Unsaved(j)' = Unsaved(j) /\ Pending(j)' = Pending(j)
    BY <2>1 DEF Unsaved, Pending
  <2> QED
    BY <2>1, <2>2, CountFrame
<1>3. CASE RoundClaim
  <2>1. /\ UNCHANGED <<jobs, pc, job, replies, faults>>
        /\ fetched' = {} /\ todo' \subseteq fetched
    BY <1>3 DEF RoundClaim
  <2>2. \A j \in Job : /\ Unsaved(j)' = Unsaved(j)
                       /\ Pending(j)' => j \in fetched \/ Pending(j)
    BY <2>1 DEF Unsaved, Pending
  <2> QED
    BY <2>1, <2>2, CountFrame
<1>4. CASE RoundEnd
  BY <1>4, CountFrame DEF RoundEnd, Unsaved, Pending
<1>5. ASSUME NEW t \in Task, SpawnTask(t) PROVE CountInv'
  <2>1. PICK j \in todo : /\ todo' = todo \ {j}
                          /\ job' = [job EXCEPT ![t] = j]
    BY <1>5 DEF SpawnTask
  <2>2. /\ pc[t] = "free" /\ job'[t] = j
        /\ \A u \in Task \ {t} : pc'[u] = pc[u] /\ job'[u] = job[u]
        /\ UNCHANGED <<jobs, fetched, replies, faults>>
    BY <1>5, <2>1 DEF SpawnTask
  <2>3. \A k \in Job : (Unsaved(k) => Unsaved(k)') /\ (Pending(k)' => Pending(k))
    BY <2>1, <2>2 DEF Unsaved, Pending
  <2> QED
    BY <2>2, <2>3, CountFrame
\* A task moves on without a word to the relays or the table.
<1>6. ASSUME NEW t \in Task, UNCHANGED <<jobs, fetched, todo, replies>>,
             faults' = faults \/ faults' = faults + 1,
             pc'[t] # "free" => job'[t] = job[t],
             \A u \in Task \ {t} : pc'[u] = pc[u] /\ job'[u] = job[u],
             pc[t] \in {"sent", "locked"} => pc'[t] \in {"sent", "locked"}
                                             \/ faults' = faults + 1,
             pc'[t] \in {"running", "built"} => pc[t] \in {"running", "built"}
      PROVE  CountInv'
  <2>1. \A k \in Job : /\ Unsaved(k) => Unsaved(k)' \/ faults' = faults + 1
                       /\ Pending(k)' => Pending(k)
    BY <1>6, TaskView
  <2> QED
    BY <1>6, <2>1, CountFrame
\* A task publishes a reply, and goes on or fails.
<1>7. ASSUME NEW t \in Task, pc[t] = "built",
             replies' = [replies EXCEPT ![job[t]] = Append(@, outcome[t])],
             UNCHANGED <<jobs, fetched, todo>>,
             \/ pc'[t] = "sent" /\ job'[t] = job[t] /\ faults' = faults
             \/ pc'[t] = "free" /\ faults' = faults + 1,
             \A u \in Task \ {t} : pc'[u] = pc[u] /\ job'[u] = job[u]
      PROVE  CountInv'
  <2>0. PICK k \in Job : k = job[t]
    BY <1>7, <1>b
  <2>1. outcome[t] \in Outcome
    BY <1>7 DEF TaskOK, HasResult
  <2>2. Len(replies'[k]) = Len(replies[k]) + 1
    BY <1>7, <1>a, <2>0, <2>1
  <2>3. \A j \in Job \ {k} : /\ replies'[j] = replies[j]
                             /\ Unsaved(j) => Unsaved(j)'
                             /\ Pending(j)' => Pending(j)
    BY <1>7, <2>0, TaskView
  <2>4. ~Unsaved(k) /\ Pending(k) /\ ~Pending(k)'
    <3>1. \A u \in Task \ {t} :
            ~(pc[u] \in {"running", "built", "sent", "locked"} /\ job[u] = k)
      BY <1>7, <1>b, <2>0 DEF HoldsLock
    <3>2. k \notin todo
      BY <1>7, <1>b, <2>0
    <3>3. ~Unsaved(k)
      BY <1>7, <3>1 DEF Unsaved
    <3>4. Pending(k)
      BY <1>7, <2>0 DEF Pending
    <3>5. ~Pending(k)'
      BY <1>7, <3>1, <3>2 DEF Pending
    <3> QED
      BY <3>3, <3>4, <3>5
  <2>5. faults' = faults => Unsaved(k)'
    BY <1>7, <1>a, <2>0 DEF Unsaved
  <2>6. UNCHANGED <<jobs, fetched>> /\ (faults' = faults \/ faults' = faults + 1)
    BY <1>7
  <2>7. OpenCount'
    BY <1>a, <2>2, <2>3, <2>4, <2>5, <2>6 DEF CountInv, OpenCount
  <2>8. DoneCount'
    BY <1>a, <2>2, <2>3, <2>4, <2>6 DEF CountInv, DoneCount
  <2> QED
    BY <2>7, <2>8 DEF CountInv
<1>8. ASSUME NEW t \in Task, SaveResponse(t) PROVE CountInv'
  <2>0. PICK k \in Job : k = job[t]
    BY <1>8, <1>b DEF SaveResponse, HoldsLock
  <2>1. /\ jobs'[k] = "done" /\ pc[t] = "locked" /\ pc'[t] = "saved"
        /\ \A j \in Job \ {k} : jobs'[j] = jobs[j]
        /\ \A u \in Task \ {t} : pc'[u] = pc[u]
        /\ UNCHANGED <<fetched, todo, job, replies, faults>>
    BY <1>8, <2>0 DEF SaveResponse, Goto
  <2>2. \A j \in Job \ {k} : /\ Unsaved(j) => Unsaved(j)'
                             /\ Pending(j)' => Pending(j)
    BY <2>0, <2>1, TaskView
  <2>3. ~Pending(k)'
    BY <2>0, <2>1, <1>b DEF Pending, HoldsLock
  <2>4. jobs[k] # "done" => Len(replies[k]) <= faults + 1
    BY DEF CountInv, OpenCount
  <2>5. jobs[k] = "done" => /\ Len(replies[k]) <= faults + 2
                            /\ k \in fetched => Len(replies[k]) <= faults + 1
    BY DEF CountInv, DoneCount
  <2>6. OpenCount'
    BY <2>1, <2>2, <1>a DEF CountInv, OpenCount
  <2>7. DoneCount'
    <3> SUFFICES ASSUME NEW j \in Job, jobs'[j] = "done"
                 PROVE  /\ Len(replies[j]) <= faults + 2
                        /\ j \in fetched \/ Pending(j)' => Len(replies[j]) <= faults + 1
                        /\ ~(j \in fetched /\ Pending(j)')
      BY <2>1 DEF DoneCount
    <3>1. CASE j = k
      BY <3>1, <2>3, <2>4, <2>5, <1>a
    <3>2. CASE j # k
      BY <3>2, <2>1, <2>2 DEF CountInv, DoneCount
    <3> QED
      BY <3>1, <3>2
  <2> QED
    BY <2>6, <2>7 DEF CountInv
<1>9. ASSUME NEW t \in Task, TaskStep(t) PROVE CountInv'
  <2>1. CASE RunWasm(t) \/ TakeLock(t) \/ StoreAttestation(t)
    BY <2>1, <1>6 DEF RunWasm, TakeLock, StoreAttestation, Goto
  <2>2. CASE SendReply(t)
    BY <2>2, <1>7 DEF SendReply, Goto
  <2>3. CASE ReadEvent(t)
    BY <2>3, <1>6 DEF ReadEvent, Goto, Finish
  <2>4. CASE Sign(t)
    BY <2>4, <1>6 DEF Sign, Goto, Finish
  <2>5. CASE PublishAttestation(t)
    BY <2>5, <1>6 DEF PublishAttestation, Goto, Finish
  <2> QED
    BY <1>9, <1>8, <2>1, <2>2, <2>3, <2>4, <2>5 DEF TaskStep
<1>10. ASSUME NEW t \in Task, Fail(t) PROVE CountInv'
  <2>1. /\ pc'[t] = "free" /\ faults' = faults + 1
        /\ \A u \in Task \ {t} : pc'[u] = pc[u] /\ job'[u] = job[u]
        /\ UNCHANGED <<jobs, fetched, todo>>
    BY <1>10 DEF Fail, Finish, Goto
  <2>2. CASE UNCHANGED replies
    BY <2>1, <2>2, <1>6
  <2>3. CASE /\ pc[t] = "built"
             /\ replies' = [replies EXCEPT ![job[t]] = Append(@, outcome[t])]
    BY <2>1, <2>3, <1>7
  <2> QED
    BY <1>10, <2>2, <2>3 DEF Fail
<1>11. CASE Crash
  BY <1>11, CountFrame DEF Crash, Unsaved, Pending
<1>12. CASE UNCHANGED vars
  BY <1>12, CountFrame DEF vars, Unsaved, Pending
<1> QED
  BY <1>1, <1>2, <1>3, <1>4, <1>5, <1>9, <1>10, <1>11, <1>12
  DEF Next, SchedulerNext, RoundStep

\* Over its whole life, through any number of rounds, a job is replied to at
\* most twice, and once more for each failure and each crash.
THEOREM RepliesAreBounded == Spec => []RepliesBounded
<1>1. Init => CountInv
  BY DEF Init, CountInv, OpenCount, DoneCount
<1>2. TypeInv /\ CountInv => RepliesBounded
  <2> SUFFICES ASSUME TypeInv, CountInv, NEW j \in Job
               PROVE  Len(replies[j]) <= 2 + faults
    BY DEF RepliesBounded
  <2>1. faults \in Nat /\ Len(replies[j]) \in Nat
    BY DEF TypeInv, TypeOK
  <2> QED
    BY <2>1 DEF CountInv, OpenCount, DoneCount
<1>3. ReplyInv => RoundIsDue
  BY DEF ReplyInv
<1> QED
  BY <1>1, <1>2, <1>3, CountStep, ClaimInit, ClaimStep, TypeInvCorrect,
     ReplyInvCorrect, PTL DEF Spec

=============================================================================
