------------------------------ MODULE Process ------------------------------
(***************************************************************************)
(* One process and what its handlers share: the pool of connections, the   *)
(* worker threads, the threads that run wasm, the storage of the oracle    *)
(* (OracleStorage) and the life of the process (Startup).                  *)
(*                                                                         *)
(* Pool::get blocks the worker thread of its caller until a connection is  *)
(* free, for thirty seconds at most.  Most handlers keep a connection until*)
(* they return, through downloads and wasm runs too, and the oracle takes a*)
(* second one for each of its calls.                                       *)
(***************************************************************************)
EXTENDS Startup, OracleStorage, Sequences, Functions

CONSTANTS
    Kinds,   \* [Handler -> SUBSET DOMAIN Script]: what a handler may handle
    Conns,   \* size of the pool (main.rs: 16)
    Workers, \* worker threads of the runtime
    Threads  \* threads for blocking calls

VARIABLES
    kind,    \* [Handler -> ...]: what it handles, "none" before it is spawned
    left,    \* [Handler -> Seq(...)]: the steps a handler has before it
    held,    \* [Handler -> 0..2]: the connections it holds
    thread   \* [Handler -> ...]: the blocking call of its wasm run

handlerVars == <<kind, left, held, thread>>
vars == <<startVars, storageVars, handlerVars>>

\* get_invoice_impl, for a zap.
HttpSteps == <<"invoice", "get", "write">>

\* handle_paid_zap, in handle_invoice.
ZapSteps == <<"get", "send", "write">>

\* handle_event for a request that the balance does not cover.
BillSteps == <<"get", "invoice", "write", "send">>

\* handle_invoice or handle_event, for a job without schedule.
PlainSteps == <<"get", "download", "run", "send", "write">>

\* The same for a job with expected outputs.
EventSteps == <<"get", "reserve", "get", "save", "write", "get", "note", "send">>

\* run_scheduled_job, for such a job.
TaskSteps == <<"download", "run", "send", "get", "write", "get", "look", "get",
               "sign", "get", "note", "send">>

Script == [http |-> HttpSteps, zap |-> ZapSteps, bill |-> BillSteps,
           plain |-> PlainSteps, event |-> EventSteps, task |-> TaskSteps]

Steps == UNION {Range(Script[k]) : k \in DOMAIN Script}

ASSUME ProcessAssumption == Kinds \in [Handler -> SUBSET DOMAIN Script]

\* Variant: a send gives a connection back as well.
OracleCallsAndSends == {"save", "note", "look", "sign", "send"}

\* Those made on a connection of their own, which is dropped at their end.
OracleCalls == {"save", "note", "look", "sign"}

-----------------------------------------------------------------------------

At(h, step) == left[h] # <<>> /\ Head(left[h]) = step

Active == {h \in Handler : left[h] # <<>>}
Blocked == {h \in Handler : At(h, "get")}
Saving == {h \in Handler : At(h, "save")}

\* A handler that does not wait for a connection needs a worker to go on.
CanStep == phase \in Up /\ Cardinality(Blocked) < Workers

InUse == Cardinality({h \in Handler : held[h] > 0})
         + Cardinality({h \in Handler : held[h] > 1})

Busy == {h \in Handler : thread[h] = "busy"}

Advance(h, n) ==
    /\ left' = [left EXCEPT ![h] = SubSeq(@, n + 1, Len(@))]
    /\ held' = [held EXCEPT ![h] =
                  IF Len(left[h]) = n THEN 0
                  ELSE IF Head(left[h]) \in OracleCalls THEN @ - 1 ELSE @]

\* A handler returns, or its task is dropped: its connections go back.
End(h) ==
    /\ left' = [left EXCEPT ![h] = <<>>]
    /\ held' = [held EXCEPT ![h] = 0]

Begin(h) ==
    /\ CanStep /\ phase # "stopping"
    /\ kind[h] = "none"
    /\ \E new \in Kinds[h] :
          /\ new = "http" => phase = "serving"
          /\ kind' = [kind EXCEPT ![h] = new]
          /\ left' = [left EXCEPT ![h] = Script[new]]
    /\ UNCHANGED <<startVars, storageVars, held, thread>>

-----------------------------------------------------------------------------
(* Pool::get.                                                               *)

Acquire(h) ==
    /\ At(h, "get")
    /\ InUse < Conns
    /\ left' = [left EXCEPT ![h] = Tail(@)]
    /\ held' = [held EXCEPT ![h] = @ + 1]
    /\ UNCHANGED <<startVars, storageVars, kind, thread>>

\* Variant: the pool has no connection_timeout.
GetNeverTimesOut(h) == FALSE /\ UNCHANGED vars

\* No connection was free for so long, or the database is not reached.
GetTimesOut(h) ==
    /\ At(h, "get")
    /\ End(h)
    /\ GiveUpIndex(h)
    /\ UNCHANGED <<startVars, kind, thread>>

-----------------------------------------------------------------------------
(* download_and_run_wasm and run_wasm.                                      *)

\* The file is there and its checksum right: spawn_blocking.
Downloaded(h) ==
    /\ At(h, "download")
    /\ CanStep
    /\ thread' = [thread EXCEPT ![h] = "queued"]
    /\ Advance(h, 1)
    /\ UNCHANGED <<startVars, storageVars, kind>>

\* Every error is a reply to the client, of which the run is not a part.
DownloadFails(h) ==
    /\ At(h, "download")
    /\ CanStep
    /\ Advance(h, 2)
    /\ UNCHANGED <<startVars, storageVars, kind, thread>>

\* A call starts when a thread is free, also if it timed out while queued:
\* nothing is there to cancel yet.
StartCall(h) ==
    /\ thread[h] = "queued"
    /\ Cardinality(Busy) < Threads
    /\ thread' = [thread EXCEPT ![h] = "busy"]
    /\ UNCHANGED <<startVars, storageVars, kind, left, held>>

\* The wasm returns or is cancelled; whether it ever does is up to the wasm.
EndCall(h) ==
    /\ thread[h] = "busy"
    /\ thread' = [thread EXCEPT ![h] = IF At(h, "run") THEN "done" ELSE "none"]
    /\ UNCHANGED <<startVars, storageVars, kind, left, held>>

Result(h) ==
    /\ At(h, "run") /\ thread[h] = "done"
    /\ CanStep
    /\ thread' = [thread EXCEPT ![h] = "none"]
    /\ Advance(h, 1)
    /\ UNCHANGED <<startVars, storageVars, kind>>

\* Variant: the time starts with the call.
TimeoutOfCall(h) ==
    /\ At(h, "run") /\ thread[h] = "busy"
    /\ CanStep
    /\ Advance(h, 1)
    /\ UNCHANGED <<startVars, storageVars, kind, thread>>

\* The sleep ends first.  The call goes on without its handler.
Timeout(h) ==
    /\ At(h, "run") /\ thread[h] # "done"
    /\ CanStep
    /\ Advance(h, 1)
    /\ UNCHANGED <<startVars, storageVars, kind, thread>>

-----------------------------------------------------------------------------
(* The other steps.                                                         *)

\* create_enum_event, around its two calls of the storage.
ReserveIndex(h) ==
    /\ At(h, "reserve")
    /\ CanStep
    /\ TakeIndex(h)
    /\ Advance(h, 1)
    /\ UNCHANGED <<startVars, kind, thread>>

SaveAnnouncement(h) ==
    /\ At(h, "save")
    /\ CanStep
    /\ \/ Save(h, key) /\ Advance(h, 1)
       \/ SaveFails(h, key) /\ End(h)
    /\ UNCHANGED <<startVars, kind, thread>>

\* The node answers add_invoice; nothing bounds how long it takes.  The handler
\* of an uncovered request keeps its connection meanwhile.
InvoiceMade(h) ==
    /\ At(h, "invoice")
    /\ CanStep
    /\ Advance(h, 1)
    /\ UNCHANGED <<startVars, storageVars, kind, thread>>

\* Statements on the handler's connection, sends, and the other calls of the
\* storage.
Step(h) ==
    /\ \E step \in {"write", "send", "note", "look", "sign"} : At(h, step)
    /\ CanStep
    /\ Advance(h, 1)
    /\ UNCHANGED <<startVars, storageVars, kind, thread>>

\* Every `?` ends the handler.
Fail(h) ==
    /\ left[h] # <<>>
    /\ CanStep
    /\ Head(left[h]) \notin {"get", "download", "run", "save"}
    /\ End(h)
    /\ GiveUpIndex(h)
    /\ UNCHANGED <<startVars, kind, thread>>

\* The runtime shuts down and drops a task, unless it runs on a worker; until
\* then the task may go on.
Drop(h) ==
    /\ phase = "stopping"
    /\ left[h] # <<>>
    /\ Head(left[h]) \notin {"get"} \cup OracleCalls
    /\ End(h)
    /\ GiveUpIndex(h)
    /\ UNCHANGED <<startVars, kind, thread>>

-----------------------------------------------------------------------------
(* The life of the process.                                                 *)

StartStep ==
    /\ \/ GenerateKey \/ LoadKeys \/ Fill \/ Broadcast \/ Truncate
       \/ Terminate
    /\ UNCHANGED <<storageVars, handlerVars>>

OpenAndServe ==
    /\ Serve
    /\ OpenStorage
    /\ UNCHANGED handlerVars

Undone(h) == IF thread[h] = "queued" THEN "none" ELSE thread[h]

\* Variant: every handler is waited for.
ShutdownAfterAll ==
    /\ Active = {}
    /\ ReturnFromMain
    /\ thread' = [h \in Handler |-> Undone(h)]
    /\ UNCHANGED <<storageVars, kind, left, held>>

\* Graceful shutdown waits for the handlers of the web server and no others,
\* then main returns.  Blocking calls still in the queue are not made.
Shutdown ==
    /\ \A h \in Active : kind[h] # "http"
    /\ ReturnFromMain
    /\ thread' = [h \in Handler |-> Undone(h)]
    /\ UNCHANGED <<storageVars, kind, left, held>>

\* The runtime waits for the blocking calls that were started.
ExitProcess ==
    /\ Active = {} /\ Busy = {}
    /\ Exit
    /\ LoseMemory({}, key)
    /\ thread' = [h \in Handler |-> "none"]
    /\ UNCHANGED <<kind, left, held>>

CrashProcess ==
    /\ Crash
    /\ LoseMemory(Saving, key)
    /\ left' = [h \in Handler |-> <<>>]
    /\ held' = [h \in Handler |-> 0]
    /\ thread' = [h \in Handler |-> "none"]
    /\ UNCHANGED kind

\* The database ends a transaction in doubt.
CommitInDoubt == CommitLate /\ UNCHANGED <<startVars, handlerVars>>

-----------------------------------------------------------------------------

Init ==
    /\ StartupInit
    /\ StorageInit
    /\ kind = [h \in Handler |-> "none"]
    /\ left = [h \in Handler |-> <<>>]
    /\ held = [h \in Handler |-> 0]
    /\ thread = [h \in Handler |-> "none"]

\* The steps of a handler that nothing outside the process decides on.
Proceed(h) ==
    \/ Acquire(h) \/ GetTimesOut(h) \/ Result(h) \/ Timeout(h)
    \/ ReserveIndex(h) \/ SaveAnnouncement(h) \/ Step(h) \/ Drop(h)

Next ==
    \/ StartStep \/ OpenAndServe \/ Shutdown \/ ExitProcess \/ CrashProcess
    \/ CommitInDoubt
    \/ \E h \in Handler :
          \/ Begin(h) \/ Proceed(h) \/ Downloaded(h) \/ DownloadFails(h)
          \/ StartCall(h) \/ EndCall(h) \/ InvoiceMade(h) \/ Fail(h)

\* The timers of the pool and of a run fire, handlers go on while a worker is
\* free, and main returns and exits when it can.  Nothing makes a download, the
\* wasm or the node answer.
Fairness ==
    /\ \A h \in Handler : WF_vars(Proceed(h))
    /\ WF_vars(Shutdown) /\ WF_vars(ExitProcess)

Spec == Init /\ [][Next]_vars
FairSpec == Spec /\ Fairness

-----------------------------------------------------------------------------
(* Properties.                                                              *)

\* The type of every variable.
TypeOK ==
    /\ StartupTypeOK
    /\ StorageTypeOK(Key)
    /\ kind \in [Handler -> {"none"} \cup DOMAIN Script]
    /\ left \in [Handler -> Seq(Steps)]
    /\ held \in [Handler -> 0..2]
    /\ thread \in [Handler -> {"none", "queued", "busy", "done"}]

\* Every oracle event, stored or still to be committed, is under the one
\* identity of the service, unless its key was lost or did not open at a later
\* start: clients who know the published key can check what it announced, also
\* when the process died between the two writes of keys.json (save_announcement,
\* ServerKeys::write).
EventsFollowKey ==
    \A e \in events \cup orphans :
        e.key \notin abandoned => Identity \subseteq {e.key}

\* Handlers that wait for connections other handlers hold, on all workers, do
\* not wait for ever: again and again a handler has ended, or waits for what is
\* outside the process (Pool::get in handle_event, handle_invoice,
\* run_scheduled_job, models/mod.rs).
HandlersEnd ==
    \A h \in Handler :
        []<>(left[h] = <<>> \/ At(h, "download") \/ At(h, "invoice"))

\* A run gets its result or its timeout, also when calls that timed out hold
\* every thread and its own call never starts (run_wasm).
RunsAnswered ==
    \A h \in Handler : []<>~At(h, "run")

\* No wasm runs, and the node owes nothing to a request of the web server.
Quiet == /\ Busy = {}
         /\ \A h \in Handler : ~(kind[h] = "http" /\ At(h, "invoice"))

\* A signal ends the process, unless a wasm run goes on for ever or the node
\* never answers a request of the web server: downloads, invoices of other
\* handlers and waits for connections do not keep it (main.rs).
ShutdownEnds ==
    []<>Quiet => []<>(phase \notin {"draining", "stopping"})

=============================================================================
