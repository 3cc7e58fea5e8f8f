--------------------------- MODULE ProcessProofs ---------------------------
(***************************************************************************)
(* Proofs about Process, for every set of handlers and keys and every size *)
(* of the pool and the thread pools.  A step of a process is a step of     *)
(* Startup or leaves its variables alone, and the same holds of            *)
(* OracleStorage, so the invariants of the two parts are proved apart:     *)
(*                                                                         *)
(*   ServiceHasOneKey     OneIdentity, from KeyInv                         *)
(*   ServiceIsPublished   ServedIsPublished, from MetadataInv              *)
(*   HeldIndexesAreFree   HeldIndexIsFree, from StorageInv                 *)
(*   EventsUnderIdentity  EventsFollowKey, from RowsInv and KeyInv         *)
(*   TypeCorrect          TypeOK, from StepsInv                            *)
(***************************************************************************)
EXTENDS Process, SequenceTheorems, TLAPS

-----------------------------------------------------------------------------
(* Keys.  Of the keys made so far one at most is not abandoned, and it is   *)
(* the only one in memory and in the file.                                  *)

KeyInv ==
    /\ StartupTypeOK
    /\ file.state = "absent" => generated = {}
    /\ \A k, l \in generated \ abandoned : k = l
    /\ IF file.state = "complete" THEN file.key \in generated \ abandoned
                                  ELSE file.key = NoKey
    /\ IF phase = "down" THEN key = NoKey ELSE key \in generated \ abandoned
    /\ \A p \in published : p[1] \in generated

LEMMA KeyInit == StartupInit => KeyInv
<1>1. FirstKey \in Key
  BY StartupAssumption DEF FirstKey
<1> QED
  BY <1>1, StartupAssumption
     DEF StartupInit, KeyInv, StartupTypeOK, Complete, Blank, Metadata, Phase

LEMMA KeyStep == KeyInv /\ [StartupNext]_startVars => KeyInv'
<1> SUFFICES ASSUME KeyInv, [StartupNext]_startVars PROVE KeyInv'
  OBVIOUS
<1> USE StartupAssumption
    DEF KeyInv, StartupTypeOK, Complete, Blank, Phase, memory
<1>1. CASE GenerateKey
  <2>1. NewKey \in Key \ generated
    BY <1>1 DEF GenerateKey, NewKey
  <2>2. generated' \ abandoned' = {NewKey}
    <3>1. CASE file.state = "absent"
      BY <1>1, <2>1, <3>1 DEF GenerateKey
    <3>2. CASE file.state # "absent"
      BY <1>1, <2>1, <3>2 DEF GenerateKey
    <3> QED
      BY <3>1, <3>2
  <2> QED
    BY <1>1, <2>1, <2>2 DEF GenerateKey
<1>2. CASE LoadKeys
  BY <1>2 DEF LoadKeys
<1>3. CASE Fill
  <2>1. key \in generated \ abandoned /\ phase # "down"
    BY <1>3 DEF Fill
  <2>2. file' = Complete(key, kinds) /\ phase' \in {"loaded", "stored"}
    BY <1>3 DEF Fill
  <2> QED
    BY <1>3, <2>1, <2>2 DEF Fill
<1>4. CASE Broadcast
  BY <1>4 DEF Broadcast, Missing
<1>5. CASE Truncate
  BY <1>5 DEF Truncate
<1>6. CASE Serve
  BY <1>6 DEF Serve
<1>7. CASE Crash
  BY <1>7 DEF Crash, Down, Missing
<1>8. CASE Terminate \/ ReturnFromMain
  BY <1>8 DEF Terminate, ReturnFromMain
<1>9. CASE Exit
  BY <1>9 DEF Exit, Down
<1>10. CASE UNCHANGED startVars
  BY <1>10 DEF startVars
<1> QED
  BY <1>1, <1>2, <1>3, <1>4, <1>5, <1>6, <1>7, <1>8, <1>9, <1>10
     DEF StartupNext

LEMMA IdentityIsCurrent ==
    KeyInv => Identity \subseteq generated \ abandoned
BY DEF KeyInv, Identity

LEMMA KeyIsOne == KeyInv => OneIdentity
BY IdentityIsCurrent DEF KeyInv, OneIdentity

-----------------------------------------------------------------------------
(* Metadata.  What the file lists, or the memory of a process that has not  *)
(* just loaded it, is on the relays.                                        *)

MetadataInv ==
    /\ file.state = "complete" =>
          \A m \in file.kinds : <<file.key, m>> \in published
    /\ \A m \in kinds : <<key, m>> \in published
    /\ phase \in {"loaded", "stored"} \cup Up => file = Complete(key, kinds)
    /\ phase \in {"broadcast", "rewriting", "stored"} \cup Up => kinds = Metadata

LEMMA MetadataInit == StartupInit => MetadataInv
BY DEF StartupInit, MetadataInv, Complete, Blank, Up

LEMMA MetadataStep ==
    KeyInv /\ MetadataInv /\ [StartupNext]_startVars => MetadataInv'
<1> SUFFICES ASSUME KeyInv, MetadataInv, [StartupNext]_startVars
             PROVE  MetadataInv'
  OBVIOUS
<1> USE DEF KeyInv, StartupTypeOK, MetadataInv, Complete, Blank, Up, memory
<1>1. CASE GenerateKey
  BY <1>1 DEF GenerateKey
<1>2. CASE LoadKeys
  BY <1>2 DEF LoadKeys
<1>3. CASE Fill
  BY <1>3 DEF Fill
<1>4. CASE Broadcast
  BY <1>4 DEF Broadcast, Missing
<1>5. CASE Truncate
  BY <1>5 DEF Truncate
<1>6. CASE Serve
  BY <1>6 DEF Serve
<1>7. CASE Crash
  BY <1>7 DEF Crash, Down
<1>8. CASE Terminate \/ ReturnFromMain
  BY <1>8 DEF Terminate, ReturnFromMain
<1>9. CASE Exit
  BY <1>9 DEF Exit, Down
<1>10. CASE UNCHANGED startVars
  BY <1>10 DEF startVars
<1> QED
  BY <1>1, <1>2, <1>3, <1>4, <1>5, <1>6, <1>7, <1>8, <1>9, <1>10
     DEF StartupNext

LEMMA UpIsPublished == MetadataInv => ServedIsPublished
BY DEF MetadataInv, ServedIsPublished, Up

-----------------------------------------------------------------------------
(* Nonces.  The counter is above every index that is held or stored, but    *)
(* for rows that commit after it was set.                                   *)

StorageInv ==
    /\ StorageTypeOK(Key)
    /\ HeldIndexIsFree
    /\ \A h \in Handler : index[h] # NoIndex => index[h] < counter
    /\ \A e \in events : e.index < counter \/ e.index \in late

LEMMA StorageInitHolds == StorageInit => StorageInv
BY StorageAssumption DEF StorageInit, StorageInv, StorageTypeOK, EventRow,
                         HeldIndexIsFree

LEMMA StorageStep ==
    StorageInv /\ [StorageNext(Key)]_storageVars => StorageInv'
<1> SUFFICES ASSUME StorageInv, [StorageNext(Key)]_storageVars
             PROVE  StorageInv'
  OBVIOUS
<1> USE StorageAssumption DEF StorageInv, StorageTypeOK, EventRow,
                              HeldIndexIsFree
<1>1. CASE OpenStorage /\ \A h \in Handler : index[h] = NoIndex
  <2>1. counter' \in Nat /\ \A e \in events : e.index < counter'
    BY <1>1 DEF OpenStorage, NextId
  <2> QED
    BY <1>1, <2>1 DEF OpenStorage
<1>2. ASSUME NEW h \in Handler, TakeIndex(h) PROVE StorageInv'
  BY <1>2 DEF TakeIndex
<1>3. ASSUME NEW h \in Handler, GiveUpIndex(h) PROVE StorageInv'
  BY <1>3 DEF GiveUpIndex
<1>4. ASSUME NEW h \in Handler, NEW k \in Key, Save(h, k) PROVE StorageInv'
  BY <1>4 DEF Save, Row, IsNew
<1>5. ASSUME NEW h \in Handler, NEW k \in Key, SaveFails(h, k)
      PROVE  StorageInv'
  BY <1>5 DEF SaveFails, Row
<1>6. CASE CommitLate
  BY <1>6 DEF CommitLate, IsNew
<1>7. ASSUME NEW saving \in SUBSET Handler, NEW k \in Key,
             LoseMemory(saving, k)
      PROVE  StorageInv'
  BY <1>7 DEF LoseMemory, Row
<1>8. CASE UNCHANGED storageVars
  BY <1>8 DEF storageVars
<1> QED
  BY <1>1, <1>2, <1>3, <1>4, <1>5, <1>6, <1>7, <1>8 DEF StorageNext

-----------------------------------------------------------------------------
(* The steps of a process are steps of its parts.                           *)

\* Only a process that serves holds indexes.
IdleInv == phase \notin Up => \A h \in Handler : index[h] = NoIndex

ProcessInv == KeyInv /\ MetadataInv /\ StorageInv /\ IdleInv

LEMMA StepOfStartup == [Next]_vars => [StartupNext]_startVars
BY DEF Next, vars, Proceed, StartupNext, StartStep, OpenAndServe, Shutdown,
       ExitProcess, CrashProcess, CommitInDoubt, Begin, Acquire, GetTimesOut,
       Result, Timeout, ReserveIndex, SaveAnnouncement, Step, Drop, Downloaded,
       DownloadFails, StartCall, EndCall, InvoiceMade, Fail

LEMMA StepOfStorage ==
    ProcessInv /\ [Next]_vars => [StorageNext(Key)]_storageVars
<1> SUFFICES ASSUME ProcessInv, [Next]_vars
             PROVE  [StorageNext(Key)]_storageVars
  OBVIOUS
<1>1. phase # "down" => key \in Key
  BY DEF ProcessInv, KeyInv, StartupTypeOK
<1>2. CASE StartStep \/ Shutdown \/ UNCHANGED vars
  BY <1>2 DEF StartStep, Shutdown, vars
<1>3. CASE OpenAndServe
  <2>1. phase \notin Up
    BY <1>3 DEF OpenAndServe, Serve, Up
  <2> QED
    BY <1>3, <2>1 DEF OpenAndServe, ProcessInv, IdleInv, StorageNext
<1>4. CASE ExitProcess
  <2>1. LoseMemory({}, key) /\ key \in Key
    BY <1>1, <1>4 DEF ExitProcess, Exit
  <2> QED
    BY <2>1 DEF StorageNext
<1>5. CASE CrashProcess
  <2>1. LoseMemory(Saving, key) /\ key \in Key
    BY <1>1, <1>5 DEF CrashProcess, Crash
  <2>2. Saving \in SUBSET Handler
    BY DEF Saving
  <2> QED
    BY <2>1, <2>2 DEF StorageNext
<1>6. CASE CommitInDoubt
  BY <1>6 DEF CommitInDoubt, StorageNext
<1>7. ASSUME NEW h \in Handler,
             \/ Begin(h) \/ Acquire(h) \/ Result(h) \/ Timeout(h) \/ Step(h)
             \/ Downloaded(h) \/ DownloadFails(h) \/ StartCall(h)
             \/ EndCall(h) \/ InvoiceMade(h)
      PROVE  UNCHANGED storageVars
  BY <1>7 DEF Begin, Acquire, Result, Timeout, Step, Downloaded,
              DownloadFails, StartCall, EndCall, InvoiceMade
<1>8. ASSUME NEW h \in Handler, GetTimesOut(h) \/ Fail(h) \/ Drop(h)
      PROVE  StorageNext(Key)
  BY <1>8 DEF GetTimesOut, Fail, Drop, StorageNext
<1>9. ASSUME NEW h \in Handler, ReserveIndex(h) PROVE StorageNext(Key)
  BY <1>9 DEF ReserveIndex, StorageNext
<1>10. ASSUME NEW h \in Handler, SaveAnnouncement(h) PROVE StorageNext(Key)
  <2>1. key \in Key /\ (Save(h, key) \/ SaveFails(h, key))
    BY <1>1, <1>10 DEF SaveAnnouncement, CanStep, Up
  <2> QED
    BY <2>1 DEF StorageNext
<1> QED
  BY <1>2, <1>3, <1>4, <1>5, <1>6, <1>7, <1>8, <1>9, <1>10 DEF Next, Proceed

LEMMA IdleStep == ProcessInv /\ [Next]_vars => IdleInv'
<1> SUFFICES ASSUME ProcessInv, [Next]_vars PROVE IdleInv'
  OBVIOUS
<1> USE DEF ProcessInv, StorageInv, StorageTypeOK, IdleInv
<1>1. CASE StartStep
  BY <1>1 DEF StartStep, GenerateKey, LoadKeys, Fill, Broadcast, Truncate,
              Terminate, storageVars, Up
<1>2. CASE OpenAndServe \/ Shutdown
  BY <1>2 DEF OpenAndServe, Serve, Shutdown, ReturnFromMain, Up
<1>3. CASE ExitProcess \/ CrashProcess
  BY <1>3 DEF ExitProcess, CrashProcess, LoseMemory
<1>4. CASE CommitInDoubt \/ UNCHANGED vars
  BY <1>4 DEF CommitInDoubt, CommitLate, vars, storageVars, startVars, memory
<1>5. ASSUME NEW h \in Handler,
             \/ Begin(h) \/ Acquire(h) \/ Result(h) \/ Timeout(h) \/ Step(h)
             \/ Downloaded(h) \/ DownloadFails(h) \/ StartCall(h)
             \/ EndCall(h) \/ InvoiceMade(h)
      PROVE  IdleInv'
  BY <1>5 DEF Begin, Acquire, Result, Timeout, Step, Downloaded,
              DownloadFails, StartCall, EndCall, InvoiceMade, storageVars,
              startVars, memory
<1>6. ASSUME NEW h \in Handler, GetTimesOut(h) \/ Fail(h) \/ Drop(h)
      PROVE  IdleInv'
  BY <1>6 DEF GetTimesOut, Fail, Drop, GiveUpIndex, startVars, memory
<1>7. ASSUME NEW h \in Handler, ReserveIndex(h) \/ SaveAnnouncement(h)
      PROVE  IdleInv'
  BY <1>7 DEF ReserveIndex, SaveAnnouncement, CanStep, startVars, memory
<1> QED
  BY <1>1, <1>2, <1>3, <1>4, <1>5, <1>6, <1>7 DEF Next, Proceed

LEMMA ProcessInvariant == Spec => []ProcessInv
<1>1. Init => ProcessInv
  BY KeyInit, MetadataInit, StorageInitHolds
     DEF Init, ProcessInv, IdleInv, StorageInit
<1>2. ProcessInv /\ [Next]_vars => ProcessInv'
  BY KeyStep, MetadataStep, StorageStep, IdleStep, StepOfStartup,
     StepOfStorage DEF ProcessInv
<1> QED
  BY <1>1, <1>2, PTL DEF Spec

-----------------------------------------------------------------------------
(* The theorems.                                                            *)

\* What a process does to its keys, its file and the relays is what Startup
\* says, whatever its handlers do (main.rs).
THEOREM ProcessIsStartup == Spec => StartupSpec
<1>1. Init => StartupInit
  BY DEF Init
<1> QED
  BY <1>1, StepOfStartup, PTL DEF Spec, StartupSpec

\* The service keeps its key through every crash, and gives it up only where
\* its file was lost or did not open (ServerKeys::get_keys).
THEOREM ServiceHasOneKey == Spec => []OneIdentity
<1>1. ProcessInv => OneIdentity
  BY KeyIsOne DEF ProcessInv
<1> QED
  BY <1>1, ProcessInvariant, PTL

\* A process that serves has published and stored its metadata (main.rs).
THEOREM ServiceIsPublished == Spec => []ServedIsPublished
<1>1. ProcessInv => ServedIsPublished
  BY UpIsPublished DEF ProcessInv
<1> QED
  BY <1>1, ProcessInvariant, PTL

\* Only a row that was in doubt takes an index that was given out
\* (get_next_nonce_indexes, get_next_id).
THEOREM HeldIndexesAreFree == Spec => []HeldIndexIsFree
<1>1. ProcessInv => HeldIndexIsFree
  BY DEF ProcessInv, StorageInv
<1> QED
  BY <1>1, ProcessInvariant, PTL

-----------------------------------------------------------------------------
(* Rows are written under the key in memory, the one not abandoned then.    *)

RowsInv == \A e \in events \cup orphans : e.key \in generated

LEMMA RowsStep == ProcessInv /\ RowsInv /\ [Next]_vars => RowsInv'
<1> SUFFICES ASSUME ProcessInv, RowsInv, [Next]_vars PROVE RowsInv'
  OBVIOUS
<1> USE DEF RowsInv
<1>1. [StartupNext]_startVars
  BY StepOfStartup
<1>2. generated \subseteq generated'
  BY <1>1 DEF StartupNext, startVars, GenerateKey, LoadKeys, Fill, Broadcast,
              Truncate, Serve, Crash, Down, Terminate, ReturnFromMain, Exit
<1>3. phase # "down" => key \in generated
  BY DEF ProcessInv, KeyInv
<1>4. CASE StartStep \/ OpenAndServe \/ Shutdown \/ UNCHANGED vars
  BY <1>2, <1>4 DEF StartStep, OpenAndServe, OpenStorage, Shutdown, vars,
                    storageVars
<1>5. CASE ExitProcess \/ CrashProcess
  <2>1. key \in generated
    BY <1>3, <1>5 DEF ExitProcess, Exit, CrashProcess, Crash
  <2> QED
    BY <1>2, <1>5, <2>1 DEF ExitProcess, CrashProcess, LoseMemory, Row
<1>6. CASE CommitInDoubt
  BY <1>2, <1>6 DEF CommitInDoubt, CommitLate
<1>7. ASSUME NEW h \in Handler,
             \/ Begin(h) \/ Acquire(h) \/ Result(h) \/ Timeout(h) \/ Step(h)
             \/ Downloaded(h) \/ DownloadFails(h) \/ StartCall(h)
             \/ EndCall(h) \/ InvoiceMade(h)
      PROVE  RowsInv'
  BY <1>2, <1>7 DEF Begin, Acquire, Result, Timeout, Step, Downloaded,
                    DownloadFails, StartCall, EndCall, InvoiceMade, storageVars
<1>8. ASSUME NEW h \in Handler,
             GetTimesOut(h) \/ Fail(h) \/ Drop(h) \/ ReserveIndex(h)
      PROVE  RowsInv'
  BY <1>2, <1>8 DEF GetTimesOut, Fail, Drop, GiveUpIndex, ReserveIndex,
                    TakeIndex
<1>9. ASSUME NEW h \in Handler, SaveAnnouncement(h) PROVE RowsInv'
  <2>1. key \in generated
    BY <1>3, <1>9 DEF SaveAnnouncement, CanStep, Up
  <2> QED
    BY <1>2, <1>9, <2>1 DEF SaveAnnouncement, Save, SaveFails, Row
<1> QED
  BY <1>4, <1>5, <1>6, <1>7, <1>8, <1>9 DEF Next, Proceed

\* The stored events are under the identity of the service or under keys that
\* were given up (save_announcement, ServerKeys::get_keys).
THEOREM EventsUnderIdentity == Spec => []EventsFollowKey
<1>1. Init => RowsInv
  BY DEF Init, StorageInit, RowsInv
<1>2. ProcessInv /\ RowsInv => EventsFollowKey
  BY IdentityIsCurrent DEF ProcessInv, KeyInv, RowsInv, EventsFollowKey
<1> QED
  BY <1>1, <1>2, RowsStep, ProcessInvariant, PTL DEF Spec

-----------------------------------------------------------------------------
(* Connections.  Each call of Advance, End or Acquire changes the count of  *)
(* a handler on its own; that the count stays within 0..2 follows from the  *)
(* place in the script that the handler has reached.                        *)

\* The connections a handler holds before each step of its script.
Holding == [http  |-> <<0, 0, 1>>,
            zap   |-> <<0, 1, 1>>,
            bill  |-> <<0, 1, 1, 1>>,
            plain |-> <<0, 1, 1, 1, 1>>,
            event |-> <<0, 1, 1, 2, 1, 1, 2, 1>>,
            task  |-> <<0, 0, 0, 0, 1, 1, 2, 1, 2, 1, 2, 1>>]

Rest(k, i) == SubSeq(Script[k], i, Len(Script[k]))

\* Handler h is before step i of the script of its kind.
Before(h, i) ==
    /\ kind[h] \in DOMAIN Script
    /\ i \in 1 .. Len(Script[kind[h]])
    /\ left[h] = Rest(kind[h], i)
    /\ held[h] = Holding[kind[h]][i]

Ended(h) == left[h] = <<>> /\ held[h] = 0

StepsInv ==
    /\ kind \in [Handler -> {"none"} \cup DOMAIN Script]
    /\ left = [h \in Handler |-> left[h]]
    /\ held = [h \in Handler |-> held[h]]
    /\ thread \in [Handler -> {"none", "queued", "busy", "done"}]
    /\ \A h \in Handler : Ended(h) \/ \E i \in Nat : Before(h, i)

LEMMA ScriptKinds == DOMAIN Script = {"http", "zap", "bill", "plain", "event", "task"}
BY DEF Script

\* The scripts themselves.
LEMMA ScriptIs ==
    /\ Script["http"] = HttpSteps /\ Script["plain"] = PlainSteps
    /\ Script["zap"] = ZapSteps /\ Script["bill"] = BillSteps
    /\ Script["event"] = EventSteps /\ Script["task"] = TaskSteps
    /\ Len(HttpSteps) = 3 /\ Len(ZapSteps) = 3 /\ Len(BillSteps) = 4
    /\ Len(PlainSteps) = 5 /\ Len(EventSteps) = 8 /\ Len(TaskSteps) = 12
BY DEF Script, HttpSteps, ZapSteps, BillSteps, PlainSteps, EventSteps,
       TaskSteps

LEMMA ScriptType ==
    ASSUME NEW k \in DOMAIN Script
    PROVE  Script[k] \in Seq(Steps) /\ Len(Script[k]) \in Nat \ {0}
<1> DEFINE Any == {"invoice", "get", "write", "download", "run", "send",
                   "reserve", "save", "note", "look", "sign"}
<1>1. Script[k] \in Seq(Any) /\ Len(Script[k]) \in Nat \ {0}
  <2>1. CASE k = "http"
    BY <2>1, ScriptIs DEF HttpSteps
  <2>2. CASE k = "plain"
    BY <2>2, ScriptIs DEF PlainSteps
  <2>3. CASE k = "event"
    BY <2>3, ScriptIs DEF EventSteps
  <2>4. CASE k = "task"
    BY <2>4, ScriptIs DEF TaskSteps
  <2>5. CASE k = "zap"
    BY <2>5, ScriptIs DEF ZapSteps
  <2>6. CASE k = "bill"
    BY <2>6, ScriptIs DEF BillSteps
  <2> QED
    BY <2>1, <2>2, <2>3, <2>4, <2>5, <2>6, ScriptKinds
<1> HIDE DEF Any
<1>2. \A i \in 1 .. Len(Script[k]) : Script[k][i] \in Steps
  BY <1>1, LenProperties DEF Steps, Range
<1>3. SubSeq(Script[k], 1, Len(Script[k])) \in Seq(Steps)
  BY <1>1, <1>2, SubSeqProperties
<1> QED
  BY <1>1, <1>3, SubSeqFull

\* What a step does to the connections, by the step.
LEMMA HoldingStep ==
    ASSUME NEW k \in DOMAIN Script, NEW i \in 1 .. Len(Script[k])
    PROVE  /\ Holding[k][i] \in 0 .. 2
           /\ Script[k][i] = "get" =>
                /\ i < Len(Script[k])
                /\ Holding[k][i + 1] = Holding[k][i] + 1
           /\ Script[k][i] # "get" /\ i < Len(Script[k]) =>
                Holding[k][i + 1] = IF Script[k][i] \in OracleCalls
                                    THEN Holding[k][i] - 1 ELSE Holding[k][i]
           /\ Script[k][i] = "download" =>
                /\ i + 2 <= Len(Script[k])
                /\ Holding[k][i + 2] = Holding[k][i]
<1> USE DEF Holding, OracleCalls
<1>1. CASE k = "http"
  BY <1>1, ScriptIs DEF HttpSteps
<1>2. CASE k = "plain"
  BY <1>2, ScriptIs DEF PlainSteps
<1>3. CASE k = "event"
  BY <1>3, ScriptIs DEF EventSteps
<1>4. CASE k = "task"
  BY <1>4, ScriptIs DEF TaskSteps
<1>5. CASE k = "zap"
  BY <1>5, ScriptIs DEF ZapSteps
<1>6. CASE k = "bill"
  BY <1>6, ScriptIs DEF BillSteps
<1> QED
  BY <1>1, <1>2, <1>3, <1>4, <1>5, <1>6, ScriptKinds

\* The first of the steps that are left is the one the handler is before.
LEMMA RestFacts ==
    ASSUME NEW k \in DOMAIN Script, NEW i \in 1 .. Len(Script[k])
    PROVE  /\ Rest(k, i) \in Seq(Steps)
           /\ Rest(k, i) # <<>>
           /\ Len(Rest(k, i)) = Len(Script[k]) - i + 1
           /\ Head(Rest(k, i)) = Script[k][i]
           /\ Tail(Rest(k, i)) = Rest(k, i + 1)
<1> DEFINE n == Len(Script[k])
           s == Script[k]
<1>1. s \in Seq(Steps) /\ n \in Nat \ {0} /\ n = Len(s)
  BY ScriptType
<1>2. i \in 1 .. n
  OBVIOUS
<1> HIDE DEF s, n
<1>3. Head(SubSeq(s, i, n)) = s[i] /\ Tail(SubSeq(s, i, n)) = SubSeq(s, i + 1, n)
  BY <1>1, <1>2, HeadTailOfSubSeq
<1>4. \A j \in i .. n : s[j] \in Steps
  BY <1>1, <1>2, ElementOfSeq
<1>5. SubSeq(s, i, n) \in Seq(Steps) /\ Len(SubSeq(s, i, n)) = n - i + 1
  BY <1>1, <1>2, <1>4, SubSeqProperties
<1>6. SubSeq(s, i, n) # <<>>
  <2>1. Len(SubSeq(s, i, n)) # 0
    BY <1>1, <1>2, <1>5
  <2>2. Len(<<>>) = 0
    BY EmptySeq
  <2> QED
    BY <2>1, <2>2
<1> QED
  BY <1>3, <1>5, <1>6 DEF Rest, s, n

\* Leaving out m more steps.
LEMMA RestOfRest ==
    ASSUME NEW k \in DOMAIN Script, NEW i \in 1 .. Len(Script[k]),
           NEW m \in Nat, i + m <= Len(Script[k])
    PROVE  SubSeq(Rest(k, i), m + 1, Len(Rest(k, i))) = Rest(k, i + m)
<1> DEFINE n == Len(Script[k])
           s == Script[k]
<1>1. s \in Seq(Steps) /\ n \in Nat \ {0} /\ n = Len(s)
  BY ScriptType
<1>2. i \in 1 .. n /\ i + m <= n /\ Len(SubSeq(s, i, n)) = n - i + 1
  BY RestFacts DEF Rest
<1> HIDE DEF s, n
<1>3. m + 1 \in 1 .. n - i + 1 /\ n - i + 1 \in 1 .. n - i + 1 /\ n \in 1 .. n
  BY <1>1, <1>2
<1>4. SubSeq(SubSeq(s, i, n), m + 1, n - i + 1)
        = SubSeq(s, i + (m + 1) - 1, i + (n - i + 1) - 1)
  BY <1>1, <1>2, <1>3, SubSeqOfSubSeq
<1>5. i + (m + 1) - 1 = i + m /\ i + (n - i + 1) - 1 = n
  BY <1>1, <1>2
<1> QED
  BY <1>2, <1>4, <1>5 DEF Rest, s, n

\* Advance takes a handler on to the next step or to its end.
LEMMA AdvanceKeepsSteps ==
    ASSUME StepsInv, NEW h \in Handler, left[h] # <<>>, ~At(h, "get"),
           NEW m \in {1, 2}, m = 2 => At(h, "download"),
           Advance(h, m), UNCHANGED kind,
           thread' \in [Handler -> {"none", "queued", "busy", "done"}]
    PROVE  StepsInv'
<1>1. PICK i \in Nat : Before(h, i)
  BY DEF StepsInv, Ended
<1> DEFINE k == kind[h]
           n == Len(Script[k])
<1>2. /\ k \in DOMAIN Script /\ i \in 1 .. n /\ n \in Nat \ {0}
      /\ left[h] = Rest(k, i) /\ held[h] = Holding[k][i]
  BY <1>1, ScriptType DEF Before
<1>3. /\ Head(left[h]) = Script[k][i] /\ Len(left[h]) = n - i + 1
      /\ Script[k][i] # "get"
      /\ m = 2 => Script[k][i] = "download"
  BY <1>2, RestFacts DEF At
<1>4. \A g \in Handler \ {h} : left'[g] = left[g] /\ held'[g] = held[g]
  BY DEF StepsInv, Advance
<1>5. /\ left'[h] = SubSeq(left[h], m + 1, Len(left[h]))
      /\ held'[h] = IF Len(left[h]) = m THEN 0
                    ELSE IF Head(left[h]) \in OracleCalls
                         THEN held[h] - 1 ELSE held[h]
  BY DEF StepsInv, Advance
<1>6. /\ i < n => Holding[k][i + 1] = IF Script[k][i] \in OracleCalls
                                      THEN Holding[k][i] - 1 ELSE Holding[k][i]
      /\ Script[k][i] = "download" => i + 2 <= n /\ Holding[k][i + 2] = Holding[k][i]
  BY <1>2, <1>3, HoldingStep
<1>7. CASE i + m <= n
  <2>1. left'[h] = Rest(k, i + m)
    <3>1. SubSeq(Rest(k, i), m + 1, Len(Rest(k, i))) = Rest(k, i + m)
      <4>1. m \in Nat /\ i + m <= Len(Script[k])
        BY <1>7
      <4> HIDE DEF k
      <4> QED
        BY <1>2, <4>1, RestOfRest
    <3> QED
      BY <1>2, <1>5, <3>1
  <2>2. Len(left[h]) # m /\ "download" \notin OracleCalls
    BY <1>2, <1>3, <1>7 DEF OracleCalls
  <2>3. held'[h] = Holding[k][i + m]
    <3>1. CASE m = 1
      BY <1>2, <1>3, <1>5, <1>6, <1>7, <2>2, <3>1
    <3>2. CASE m = 2
      BY <1>2, <1>3, <1>5, <1>6, <1>7, <2>2, <3>2
    <3> QED
      BY <3>1, <3>2
  <2>4. i + m \in Nat /\ i + m \in 1 .. n /\ kind' = kind
    BY <1>2, <1>7
  <2>5. Before(h, i + m)'
    BY <1>2, <2>1, <2>3, <2>4 DEF Before
  <2>6. \E j \in Nat : Before(h, j)'
    BY <2>4, <2>5
  <2>7. \A g \in Handler \ {h} : Ended(g)' \/ \E j \in Nat : Before(g, j)'
    BY <1>4 DEF StepsInv, Ended, Before
  <2> HIDE DEF k, n
  <2> QED
    BY <2>6, <2>7 DEF StepsInv, Advance
<1>8. CASE i + m > n
  <2>1. m = 1 /\ i = n /\ Len(left[h]) = 1
    BY <1>2, <1>3, <1>6, <1>8
  <2>2. left'[h] = <<>>
    BY <1>5, <2>1, SubSeqEmpty
  <2>3. Ended(h)'
    BY <1>5, <2>1, <2>2 DEF Ended
  <2>4. \A g \in Handler \ {h} : Ended(g)' \/ \E j \in Nat : Before(g, j)'
    BY <1>4 DEF StepsInv, Ended, Before
  <2> HIDE DEF k, n
  <2> QED
    BY <2>3, <2>4 DEF StepsInv, Advance
<1> QED
  BY <1>2, <1>7, <1>8

LEMMA EndKeepsSteps ==
    ASSUME StepsInv, NEW h \in Handler, End(h), UNCHANGED <<kind, thread>>
    PROVE  StepsInv'
<1>1. \A g \in Handler \ {h} : left'[g] = left[g] /\ held'[g] = held[g]
  BY DEF StepsInv, End
<1>2. Ended(h)'
  BY DEF StepsInv, End, Ended
<1>3. \A g \in Handler \ {h} : Ended(g)' \/ \E j \in Nat : Before(g, j)'
  BY <1>1 DEF StepsInv, Ended, Before
<1> QED
  BY <1>2, <1>3 DEF StepsInv, End

\* A step that moves no handler.
LEMMA StepsFrame ==
    ASSUME StepsInv, UNCHANGED <<kind, left, held>>,
           thread' \in [Handler -> {"none", "queued", "busy", "done"}]
    PROVE  StepsInv'
BY DEF StepsInv, Ended, Before

LEMMA BeginKeepsSteps ==
    ASSUME StepsInv, NEW h \in Handler, Begin(h) PROVE StepsInv'
<1>1. PICK k \in Kinds[h] : /\ kind' = [kind EXCEPT ![h] = k]
                            /\ left' = [left EXCEPT ![h] = Script[k]]
  BY DEF Begin
<1>2. k \in DOMAIN Script /\ Len(Script[k]) \in Nat \ {0}
  BY ProcessAssumption, ScriptType
<1>3. held' = held /\ thread' = thread /\ held[h] = 0
  BY ScriptKinds DEF Begin, StepsInv, Before, Ended
<1>4. Script[k] = Rest(k, 1) /\ Holding[k][1] = 0
  BY <1>2, ScriptKinds, ScriptType, SubSeqFull DEF Rest, Holding
<1>5. kind'[h] = k /\ left'[h] = Script[k]
  BY <1>1 DEF StepsInv
<1>6. Before(h, 1)'
  BY <1>2, <1>3, <1>4, <1>5 DEF Before
<1>7. \A g \in Handler \ {h} : Ended(g)' \/ \E j \in Nat : Before(g, j)'
  BY <1>1, <1>3 DEF StepsInv, Ended, Before
<1>8. \E j \in Nat : Before(h, j)'
  BY <1>6
<1> QED
  BY <1>1, <1>2, <1>3, <1>7, <1>8 DEF StepsInv

LEMMA AcquireKeepsSteps ==
    ASSUME StepsInv, NEW h \in Handler, Acquire(h) PROVE StepsInv'
<1>1. left[h] # <<>> /\ Head(left[h]) = "get"
  BY DEF Acquire, At
<1>2. PICK i \in Nat : Before(h, i)
  BY <1>1 DEF StepsInv, Ended
<1> DEFINE k == kind[h]
           n == Len(Script[k])
<1>3. /\ k \in DOMAIN Script /\ i \in 1 .. n /\ n \in Nat \ {0}
      /\ left[h] = Rest(k, i) /\ held[h] = Holding[k][i]
  BY <1>2, ScriptType DEF Before
<1>4. Script[k][i] = "get" /\ Tail(left[h]) = Rest(k, i + 1)
  BY <1>1, <1>3, RestFacts
<1>5. i < n /\ Holding[k][i + 1] = Holding[k][i] + 1
  BY <1>3, <1>4, HoldingStep
<1>6. \A g \in Handler \ {h} : left'[g] = left[g] /\ held'[g] = held[g]
  BY DEF StepsInv, Acquire
<1>7. left'[h] = Tail(left[h]) /\ held'[h] = held[h] + 1 /\ kind' = kind
  BY DEF StepsInv, Acquire
<1>8. i + 1 \in 1 .. n
  BY <1>3, <1>5
<1>9. Before(h, i + 1)'
  BY <1>3, <1>4, <1>5, <1>7, <1>8 DEF Before
<1>10. \E j \in Nat : Before(h, j)'
  BY <1>8, <1>9
<1>11. \A g \in Handler \ {h} : Ended(g)' \/ \E j \in Nat : Before(g, j)'
  BY <1>6, <1>7 DEF StepsInv, Ended, Before
<1> HIDE DEF k, n
<1> QED
  BY <1>10, <1>11 DEF StepsInv, Acquire

LEMMA StepsInit == Init => StepsInv
BY DEF Init, StepsInv, Ended

LEMMA StepsStep == StepsInv /\ [Next]_vars => StepsInv'
<1> SUFFICES ASSUME StepsInv, [Next]_vars PROVE StepsInv'
  OBVIOUS
<1>1. thread \in [Handler -> {"none", "queued", "busy", "done"}]
  BY DEF StepsInv
<1>2. CASE StartStep \/ OpenAndServe \/ CommitInDoubt \/ UNCHANGED vars
  BY <1>1, <1>2, StepsFrame
  DEF StartStep, OpenAndServe, CommitInDoubt, vars, handlerVars
<1>3. CASE Shutdown \/ ExitProcess
  <2>1. thread' \in [Handler -> {"none", "queued", "busy", "done"}]
    BY <1>1, <1>3 DEF Shutdown, Undone, ExitProcess
  <2> QED
    BY <1>3, <2>1, StepsFrame DEF Shutdown, ExitProcess
<1>4. CASE CrashProcess
  BY <1>4 DEF CrashProcess, StepsInv, Ended
<1>5. ASSUME NEW h \in Handler, StartCall(h) \/ EndCall(h) PROVE StepsInv'
  <2>1. thread' \in [Handler -> {"none", "queued", "busy", "done"}]
    BY <1>1, <1>5 DEF StartCall, EndCall
  <2> QED
    BY <1>5, <2>1, StepsFrame DEF StartCall, EndCall
<1>6. ASSUME NEW h \in Handler, Downloaded(h) \/ Result(h) \/ Timeout(h)
      PROVE  StepsInv'
  <2>1. /\ thread' \in [Handler -> {"none", "queued", "busy", "done"}]
        /\ left[h] # <<>> /\ ~At(h, "get") /\ Advance(h, 1) /\ kind' = kind
    BY <1>1, <1>6 DEF Downloaded, Result, Timeout, At
  <2> QED
    BY <2>1, AdvanceKeepsSteps
<1>7. ASSUME NEW h \in Handler, DownloadFails(h) PROVE StepsInv'
  <2>1. /\ thread' \in [Handler -> {"none", "queued", "busy", "done"}]
        /\ left[h] # <<>> /\ ~At(h, "get") /\ Advance(h, 2) /\ kind' = kind
        /\ At(h, "download")
    BY <1>1, <1>7 DEF DownloadFails, At
  <2> QED
    BY <2>1, AdvanceKeepsSteps
<1>8. ASSUME NEW h \in Handler, ReserveIndex(h) \/ InvoiceMade(h) \/ Step(h)
      PROVE  StepsInv'
  <2>1. /\ thread' \in [Handler -> {"none", "queued", "busy", "done"}]
        /\ left[h] # <<>> /\ ~At(h, "get") /\ Advance(h, 1) /\ kind' = kind
    BY <1>1, <1>8 DEF ReserveIndex, InvoiceMade, Step, At
  <2> QED
    BY <2>1, AdvanceKeepsSteps
<1>9. ASSUME NEW h \in Handler, SaveAnnouncement(h) PROVE StepsInv'
  <2>1. /\ thread' \in [Handler -> {"none", "queued", "busy", "done"}]
        /\ left[h] # <<>> /\ ~At(h, "get") /\ kind' = kind /\ thread' = thread
        /\ Advance(h, 1) \/ End(h)
    BY <1>1, <1>9 DEF SaveAnnouncement, At
  <2> QED
    BY <2>1, AdvanceKeepsSteps, EndKeepsSteps
<1>10. ASSUME NEW h \in Handler, GetTimesOut(h) \/ Fail(h) \/ Drop(h)
       PROVE  StepsInv'
  BY <1>10, EndKeepsSteps DEF GetTimesOut, Fail, Drop
<1> QED
  BY <1>2, <1>3, <1>4, <1>5, <1>6, <1>7, <1>8, <1>9, <1>10, BeginKeepsSteps,
     AcquireKeepsSteps DEF Next, Proceed

\* The type of every variable.  What is not obvious of it is that no handler
\* ever gives back a connection it does not hold or takes a third one, however
\* its steps fail, time out or are dropped (handle_event, run_scheduled_job).
THEOREM TypeCorrect == Spec => []TypeOK
<1>1. ProcessInv /\ StepsInv => TypeOK
  <2> SUFFICES ASSUME ProcessInv, StepsInv PROVE TypeOK
    OBVIOUS
  <2>1. StartupTypeOK /\ StorageTypeOK(Key)
    BY DEF ProcessInv, KeyInv, StorageInv
  <2>2. ASSUME NEW h \in Handler PROVE left[h] \in Seq(Steps) /\ held[h] \in 0 .. 2
    <3>1. CASE Ended(h)
      BY <3>1, EmptySeq DEF Ended
    <3>2. ASSUME NEW i \in Nat, Before(h, i)
          PROVE  left[h] \in Seq(Steps) /\ held[h] \in 0 .. 2
      BY <3>2, RestFacts, HoldingStep DEF Before
    <3> QED
      BY <3>1, <3>2 DEF StepsInv
  <2>3. left \in [Handler -> Seq(Steps)] /\ held \in [Handler -> 0 .. 2]
    BY <2>2 DEF StepsInv
  <2> QED
    BY <2>1, <2>3 DEF TypeOK, StepsInv, Steps
<1> QED
  BY <1>1, ProcessInvariant, StepsInit, StepsStep, PTL DEF Spec

-----------------------------------------------------------------------------
(* The storage in the process.                                              *)

\* What a process does to the nonces and events of its oracle, with its
\* timeouts, failures, shutdowns and crashes, is what OracleStorage says
\* (PostgresStorage).
THEOREM ProcessIsStorage ==
    Spec => StorageInit /\ [][StorageNext(Key)]_storageVars
<1>1. Init => StorageInit
  BY DEF Init
<1> QED
  BY <1>1, ProcessInvariant, StepOfStorage, PTL DEF Spec

=============================================================================
