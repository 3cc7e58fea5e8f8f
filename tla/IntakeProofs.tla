---------------------------- MODULE IntakeProofs ----------------------------
(***************************************************************************)
(* Proofs about Intake, for every set of requests and deliveries, every    *)
(* date, every choice of names and every bound.                            *)
(*                                                                         *)
(*   TypeCorrect      TypeOK                                               *)
(*   NoPaymentStrands InvoiceFindsJob, from RowInv and PathInv             *)
(*   LinkedIsPaidFor  LinkedIsPaid, from these and EventInv                *)
(*   NothingForFree   AnswersArePaid, from these and PendingInv            *)
(***************************************************************************)
EXTENDS Intake, FiniteSetTheorems, TLAPS

-----------------------------------------------------------------------------
(* Type correctness.                                                        *)

Label == {"idle", "received", "charge", "bill", "offer", "settled", "job",
          "event", "row", "link", "note", "send", "reply", "record", "over"}

AtType == [Request -> [Handler -> Label]]

\* What Goto does, at each place.
Moved(r, d, label) ==
    /\ at' \in AtType
    /\ \A q \in Request, e \in Handler :
          at'[q][e] = IF q = r /\ e = d THEN label ELSE at[q][e]

LEMMA GotoMoves ==
    ASSUME at \in AtType, NEW r \in Request, NEW d \in Handler,
           NEW label \in Label, Goto(r, d, label)
    PROVE  Moved(r, d, label)
<1>1. at'[r] = [at[r] EXCEPT ![d] = label] /\ at[r] \in [Handler -> Label]
  BY DEF AtType, Goto
<1>2. \A q \in Request \ {r} : at'[q] = at[q]
  BY DEF AtType, Goto
<1>3. at' \in AtType
  BY <1>1 DEF AtType, Goto
<1> QED
  BY <1>1, <1>2, <1>3 DEF Moved

\* The types of the other variables, and that of `at` by its name.
DataOK ==
    /\ now \in Nat
    /\ jobs \in [Request -> {"none", "open", "done"}]
    /\ byInvoice \subseteq Request
    /\ event \in [Request -> {"none", "created", "linked", "announced"}]
    /\ seen \subseteq Request
    /\ invoice \in [Request -> {"none", "made", "offered", "settled"}]
    /\ charges \in [Request -> Nat]
    /\ answers \in [Request -> Nat]
    /\ sent \in [Request -> SUBSET {"request", "announcement"}]
    /\ failures \in Nat

LEMMA TypeParts == TypeOK <=> DataOK /\ at \in AtType
BY DEF TypeOK, DataOK, AtType, Label

\* The steps of one handler.
HandlerStep(r, d) ==
    Receive(r, d) \/ Proceed(r, d) \/ RunJob(r, d) \/ Fail(r, d)

LEMMA HandlerMoves ==
    ASSUME at \in AtType, NEW r \in Request, NEW d \in Handler,
           HandlerStep(r, d)
    PROVE  \E label \in Label : Goto(r, d, label) /\ Moved(r, d, label)
<1>1. \E label \in Label : Goto(r, d, label)
  BY DEF HandlerStep, Proceed, Receive, Refuse, ReadBalance, Charge, CreateJob,
         SendOffer, FindJob, CheckDate, CreateEvent, CreateScheduled,
         LinkEvent, NoteAnnouncement, SendAnnouncement, SendReply, Record,
         RunJob, Fail, Label
<1> QED
  BY <1>1, GotoMoves

LEMMA TypeInit == Init => TypeOK
BY DEF Init, TypeOK, Handler

LEMMA HandlerKeepsData ==
    ASSUME DataOK, NEW r \in Request, NEW d \in Handler, HandlerStep(r, d)
    PROVE  DataOK'
<1> USE DEF DataOK, tables, relays
<1>1. CASE Receive(r, d) \/ RunJob(r, d) \/ Fail(r, d)
  BY <1>1 DEF Receive, RunJob, Fail, Offer, Answer
<1>2. CASE \/ Refuse(r, d) \/ ReadBalance(r, d) \/ CheckDate(r, d)
           \/ d = Paid /\ FindJob(r)
  BY <1>2 DEF Refuse, ReadBalance, CheckDate, FindJob
<1>3. CASE Charge(r, d) \/ SendOffer(r, d) \/ SendReply(r, d)
  BY <1>3 DEF Charge, SendOffer, Offer, SendReply, Answer
<1>4. CASE CreateJob(r, d) \/ CreateScheduled(r, d) \/ Record(r, d)
  BY <1>4 DEF CreateJob, CreateScheduled, Record
<1>5. CASE CreateEvent(r, d) \/ LinkEvent(r, d) \/ NoteAnnouncement(r, d)
  BY <1>5 DEF CreateEvent, LinkEvent, NoteAnnouncement
<1>6. CASE SendAnnouncement(r, d)
  BY <1>6 DEF SendAnnouncement, OracleAnnouncement
<1> QED
  BY <1>1, <1>2, <1>3, <1>4, <1>5, <1>6 DEF HandlerStep, Proceed

LEMMA SettleMoves ==
    ASSUME at \in AtType, NEW r \in Request, Settle(r)
    PROVE  at' = at \/ Moved(r, Paid, "settled")
<1>1. Paid \in Handler /\ "settled" \in Label
  BY DEF Handler, Label
<1> QED
  BY <1>1, GotoMoves DEF Settle

LEMMA CrashMoves ==
    ASSUME at \in AtType, Crash
    PROVE  /\ at' \in AtType
           /\ \A r \in Request, d \in Handler :
                 at'[r][d] = IF at[r][d] = "idle" THEN "idle" ELSE "over"
BY DEF Crash, AtType, Label

LEMMA TypeStep == TypeOK /\ [Next]_vars => TypeOK'
<1> SUFFICES ASSUME DataOK, at \in AtType, [Next]_vars
             PROVE  DataOK' /\ at' \in AtType
  BY TypeParts DEF TypeOK, DataOK, AtType, Label
<1>1. ASSUME NEW r \in Request, Settle(r) PROVE DataOK' /\ at' \in AtType
  <2>1. at' \in AtType
    BY <1>1, SettleMoves DEF Moved
  <2> QED
    BY <1>1, <2>1 DEF Settle, DataOK, tables
<1>2. ASSUME NEW r \in Request, NEW d \in Handler, HandlerStep(r, d)
      PROVE  DataOK' /\ at' \in AtType
  BY <1>2, HandlerMoves, HandlerKeepsData DEF Moved
<1>3. CASE Relisten \/ Tick
  BY <1>3 DEF Relisten, Tick, DataOK, tables, relays
<1>4. CASE Crash
  BY <1>4, CrashMoves DEF Crash, DataOK, tables, relays
<1>5. ASSUME NEW r \in Request, RunAtDate(r) PROVE DataOK' /\ at' \in AtType
  BY <1>5 DEF RunAtDate, DataOK, relays
<1>6. CASE UNCHANGED vars
  BY <1>6 DEF vars, DataOK, tables, relays
<1> QED
  BY <1>1, <1>2, <1>3, <1>4, <1>5, <1>6 DEF Next, IntakeNext, HandlerStep

\* Every variable keeps its type.
THEOREM TypeCorrect == Spec => []TypeOK
BY TypeInit, TypeStep, PTL DEF Spec

-----------------------------------------------------------------------------
(* Where a handler can be, and what is true of its request there.           *)

PathOK(r, d) ==
    /\ at[r][d] \in {"event", "row", "link", "note", "send"} => r \in Scheduled
    /\ at[r][d] \in {"event", "link", "note"} => r \in WithEvent
    /\ at[r][d] \in {"reply", "record"} => r \notin Scheduled
    /\ at[r][d] = "record" => answers[r] > 0
    /\ d = Paid =>
          /\ at[r][d] \in {"idle", "settled", "job", "event", "row", "reply",
                           "record", "over"}
          /\ at[r][d] \notin {"idle", "settled", "over"} => r \in byInvoice
    /\ d # Paid /\ at[r][d] \in {"job", "event", "row", "link", "note", "send",
                                "reply", "record"} => charges[r] > 0
    /\ at[r][d] \in {"link", "note"} => r \notin byInvoice /\ jobs[r] # "none"
    /\ at[r][d] = "offer" => /\ invoice[r] = "made"
                            /\ \A e \in Handler \ {d} : at[r][e] # "offer"

PathInv == \A r \in Request, d \in Handler : PathOK(r, d)

\* An invoice and a row with its hash come together.
RowInv ==
    \A r \in Request :
        /\ invoice[r] # "none" <=> r \in byInvoice
        /\ r \in byInvoice => jobs[r] # "none"
        /\ r \notin Scheduled => /\ jobs[r] = "open" => r \in byInvoice
                                 /\ jobs[r] = "done" => answers[r] > 0

\* The handler that created the event of a request is the only one that goes
\* on with it.
EventInv ==
    \A r \in WithEvent :
        /\ event[r] # "none" =>
              \A q \in WithEvent \ {r} :
                 EventName[q] = EventName[r] => event[q] = "none"
        /\ \A d \in Handler :
              /\ at[r][d] \in {"row", "link"} => event[r] = "created"
              /\ at[r][d] = "note" => event[r] = "linked"
              /\ at[r][d] \in {"row", "link", "note"} =>
                    \A e \in Handler \ {d} :
                       at[r][e] \notin {"row", "link", "note"}
        /\ event[r] \in {"linked", "announced"} =>
              charges[r] > 0 /\ r \notin byInvoice /\ jobs[r] # "none"

SafeInv == DataOK /\ at \in AtType /\ PathInv /\ RowInv /\ EventInv

LEMMA SafeInit == Init => SafeInv
<1> SUFFICES ASSUME Init PROVE SafeInv
  OBVIOUS
<1>1. DataOK /\ at \in AtType
  BY TypeInit, TypeParts
<1>2. \A r \in Request, d \in Handler : at[r][d] = "idle"
  BY DEF Init
<1> QED
  BY <1>1, <1>2, IntakeAssumption
     DEF Init, SafeInv, PathInv, PathOK, RowInv, EventInv

LEMMA SafeStep ==
    ASSUME SafeInv, [Next]_vars
    PROVE  PathInv' /\ RowInv' /\ EventInv'
<1>0. DataOK /\ at \in AtType /\ DataOK' /\ at' \in AtType
  BY TypeStep, TypeParts DEF SafeInv, TypeOK, DataOK, AtType, Label
<1>1. PathInv /\ RowInv /\ EventInv
  BY DEF SafeInv
<1>2. WithEvent \subseteq Scheduled /\ Scheduled \subseteq Request
  BY IntakeAssumption
<1>3. ASSUME NEW r \in Request, Settle(r)
      PROVE  PathInv' /\ RowInv' /\ EventInv'
  <2>1. at' = at \/ Moved(r, Paid, "settled")
    BY <1>0, <1>3, SettleMoves
  <2> QED
    BY <1>0, <1>1, <1>2, <1>3, <2>1
       DEF Settle, PathInv, PathOK, RowInv, EventInv, DataOK, Moved, tables
<1>4. ASSUME NEW r \in Request, NEW d \in Handler, Receive(r, d)
      PROVE  PathInv' /\ RowInv' /\ EventInv'
  <2>1. Moved(r, d, "received") /\ d # Paid
    BY <1>0, <1>4, GotoMoves, IntakeAssumption DEF Receive, Label
  <2>2. PathInv'
    <3> SUFFICES ASSUME NEW q \in Request, NEW e \in Handler
                 PROVE  PathOK(q, e)'
      BY DEF PathInv
    <3>1. PathOK(q, e) /\ PathOK(r, d) /\ \A f \in Handler : PathOK(r, f)
      BY <1>1 DEF PathInv
    <3> QED
      BY <1>0, <1>1, <1>2, <1>4, <2>1, <3>1
         DEF Receive, DataOK, Moved, tables, relays, PathOK, RowInv, EventInv
  <2>3. RowInv'
    BY <1>0, <1>1, <1>2, <1>4, <2>1
       DEF Receive, DataOK, Moved, tables, relays, PathInv, PathOK, RowInv
  <2>4. EventInv'
    BY <1>0, <1>1, <1>2, <1>4, <2>1
       DEF Receive, DataOK, Moved, tables, relays, PathInv, PathOK, EventInv
  <2> QED
    BY <2>2, <2>3, <2>4
<1>5. ASSUME NEW r \in Request, NEW d \in Handler, Refuse(r, d)
      PROVE  PathInv' /\ RowInv' /\ EventInv'
  <2>1. Moved(r, d, "over")
    BY <1>0, <1>5, GotoMoves DEF Refuse, Label
  <2> QED
    BY <1>0, <1>1, <1>2, <1>5, <2>1
       DEF Refuse, PathInv, PathOK, RowInv, EventInv, DataOK, Moved, tables, relays
<1>6. ASSUME NEW r \in Request, NEW d \in Handler, ReadBalance(r, d)
      PROVE  PathInv' /\ RowInv' /\ EventInv'
  <2>1. Moved(r, d, "charge") \/ Moved(r, d, "bill")
    BY <1>0, <1>6, GotoMoves DEF ReadBalance, Label
  <2> QED
    BY <1>0, <1>1, <1>2, <1>6, <2>1
       DEF ReadBalance, PathInv, PathOK, RowInv, EventInv, DataOK, Moved, tables, relays
<1>7. ASSUME NEW r \in Request, NEW d \in Handler, Charge(r, d)
      PROVE  PathInv' /\ RowInv' /\ EventInv'
  <2>1. Moved(r, d, "job")
    BY <1>0, <1>7, GotoMoves DEF Charge, Label
  <2> QED
    BY <1>0, <1>1, <1>2, <1>7, <2>1
       DEF Charge, PathInv, PathOK, RowInv, EventInv, DataOK, Moved, tables, relays
<1>8. ASSUME NEW r \in Request, NEW d \in Handler, CreateJob(r, d)
      PROVE  PathInv' /\ RowInv' /\ EventInv'
  <2>1. \/ /\ jobs' = jobs /\ byInvoice' = byInvoice /\ invoice' = invoice
           /\ Moved(r, d, "over")
        \/ /\ jobs[r] = "none" /\ jobs' = [jobs EXCEPT ![r] = "open"]
           /\ byInvoice' = byInvoice \cup {r}
           /\ invoice' = [invoice EXCEPT ![r] = "made"]
           /\ Moved(r, d, "offer")
    BY <1>0, <1>8, GotoMoves DEF CreateJob, CanInsert, Label
  <2>2. PathInv'
    <3> SUFFICES ASSUME NEW q \in Request, NEW e \in Handler
                 PROVE  PathOK(q, e)'
      BY DEF PathInv
    <3>1. PathOK(q, e) /\ PathOK(r, d) /\ \A f \in Handler : PathOK(r, f)
      BY <1>1 DEF PathInv
    <3> QED
      BY <1>0, <1>1, <1>2, <1>8, <2>1, <3>1
         DEF CreateJob, CanInsert, DataOK, Moved, tables, relays, PathOK, RowInv, EventInv
  <2>3. RowInv'
    BY <1>0, <1>1, <1>2, <1>8, <2>1
       DEF CreateJob, CanInsert, DataOK, Moved, tables, relays, PathInv, PathOK, RowInv
  <2>4. EventInv'
    BY <1>0, <1>1, <1>2, <1>8, <2>1
       DEF CreateJob, CanInsert, DataOK, Moved, tables, relays, PathInv, PathOK, EventInv
  <2> QED
    BY <2>2, <2>3, <2>4
<1>9. ASSUME NEW r \in Request, NEW d \in Handler, SendOffer(r, d)
      PROVE  PathInv' /\ RowInv' /\ EventInv'
  <2>1. Moved(r, d, "over")
    BY <1>0, <1>9, GotoMoves DEF SendOffer, Label
  <2>2. PathInv'
    BY <1>0, <1>1, <1>2, <1>9, <2>1
       DEF SendOffer, Offer, DataOK, Moved, tables, relays, PathInv, PathOK, RowInv, EventInv
  <2>3. RowInv'
    BY <1>0, <1>1, <1>2, <1>9, <2>1
       DEF SendOffer, Offer, DataOK, Moved, tables, relays, PathInv, PathOK, RowInv
  <2>4. EventInv'
    BY <1>0, <1>1, <1>2, <1>9, <2>1
       DEF SendOffer, Offer, DataOK, Moved, tables, relays, PathInv, PathOK, EventInv
  <2> QED
    BY <2>2, <2>3, <2>4
<1>10. ASSUME NEW r \in Request, NEW d \in Handler, RunJob(r, d)
      PROVE  PathInv' /\ RowInv' /\ EventInv'
  <2>1. Moved(r, d, "reply")
    BY <1>0, <1>10, GotoMoves DEF RunJob, Label
  <2> QED
    BY <1>0, <1>1, <1>2, <1>10, <2>1
       DEF RunJob, PathInv, PathOK, RowInv, EventInv, DataOK, Moved, tables, relays
<1>11. ASSUME NEW r \in Request, NEW d \in Handler, CheckDate(r, d)
      PROVE  PathInv' /\ RowInv' /\ EventInv'
  <2>1. \/ Moved(r, d, "over")
        \/ r \in WithEvent /\ Moved(r, d, "event")
        \/ r \notin WithEvent /\ Moved(r, d, "row")
    BY <1>0, <1>11, GotoMoves DEF CheckDate, Label
  <2>2. PathInv'
    <3> SUFFICES ASSUME NEW q \in Request, NEW e \in Handler
                 PROVE  PathOK(q, e)'
      BY DEF PathInv
    <3>1. PathOK(q, e) /\ PathOK(r, d) /\ \A f \in Handler : PathOK(r, f)
      BY <1>1 DEF PathInv
    <3> QED
      BY <1>0, <1>1, <1>2, <1>11, <2>1, <3>1
         DEF CheckDate, DataOK, Moved, tables, relays, PathOK, RowInv, EventInv
  <2>3. RowInv'
    BY <1>0, <1>1, <1>2, <1>11, <2>1
       DEF CheckDate, DataOK, Moved, tables, relays, PathInv, PathOK, RowInv
  <2>4. EventInv'
    BY <1>0, <1>1, <1>2, <1>11, <2>1
       DEF CheckDate, DataOK, Moved, tables, relays, PathInv, PathOK, EventInv
  <2> QED
    BY <2>2, <2>3, <2>4
<1>12. ASSUME NEW r \in Request, NEW d \in Handler, CreateEvent(r, d)
      PROVE  PathInv' /\ RowInv' /\ EventInv'
  <2>1. \/ event' = event /\ Moved(r, d, "over")
        \/ /\ \A q \in WithEvent :
                 EventName[q] = EventName[r] => event[q] = "none"
           /\ event' = [event EXCEPT ![r] = "created"]
           /\ Moved(r, d, "row")
    BY <1>0, <1>12, GotoMoves DEF CreateEvent, Label
  <2>2. PathInv'
    <3> SUFFICES ASSUME NEW q \in Request, NEW e \in Handler
                 PROVE  PathOK(q, e)'
      BY DEF PathInv
    <3>1. PathOK(q, e) /\ PathOK(r, d) /\ \A f \in Handler : PathOK(r, f)
      BY <1>1 DEF PathInv
    <3> QED
      BY <1>0, <1>1, <1>2, <1>12, <2>1, <3>1
         DEF CreateEvent, DataOK, Moved, tables, relays, PathOK, RowInv, EventInv
  <2>3. RowInv'
    BY <1>0, <1>1, <1>2, <1>12, <2>1
       DEF CreateEvent, DataOK, Moved, tables, relays, PathInv, PathOK, RowInv
  <2>4. EventInv'
    BY <1>0, <1>1, <1>2, <1>12, <2>1
       DEF CreateEvent, DataOK, Moved, tables, relays, PathInv, PathOK, EventInv
  <2> QED
    BY <2>2, <2>3, <2>4
<1>13. ASSUME NEW r \in Request, NEW d \in Handler, CreateScheduled(r, d)
      PROVE  PathInv' /\ RowInv' /\ EventInv'
  <2>1. \/ jobs' = jobs /\ Moved(r, d, "over")
        \/ /\ jobs[r] = "none" /\ jobs' = [jobs EXCEPT ![r] = "open"]
           /\ \/ r \in WithEvent /\ Moved(r, d, "link")
              \/ r \notin WithEvent /\ Moved(r, d, "send")
    BY <1>0, <1>13, GotoMoves DEF CreateScheduled, CanInsert, Label
  <2>2. PathInv'
    <3> SUFFICES ASSUME NEW q \in Request, NEW e \in Handler
                 PROVE  PathOK(q, e)'
      BY DEF PathInv
    <3>1. PathOK(q, e) /\ PathOK(r, d) /\ \A f \in Handler : PathOK(r, f)
      BY <1>1 DEF PathInv
    <3> QED
      BY <1>0, <1>1, <1>2, <1>13, <2>1, <3>1
         DEF CreateScheduled, CanInsert, DataOK, Moved, tables, relays, PathOK, RowInv, EventInv
  <2>3. RowInv'
    BY <1>0, <1>1, <1>2, <1>13, <2>1
       DEF CreateScheduled, CanInsert, DataOK, Moved, tables, relays, PathInv, PathOK, RowInv
  <2>4. EventInv'
    BY <1>0, <1>1, <1>2, <1>13, <2>1
       DEF CreateScheduled, CanInsert, DataOK, Moved, tables, relays, PathInv, PathOK, EventInv
  <2> QED
    BY <2>2, <2>3, <2>4
<1>14. ASSUME NEW r \in Request, NEW d \in Handler, LinkEvent(r, d)
      PROVE  PathInv' /\ RowInv' /\ EventInv'
  <2>1. Moved(r, d, "note")
    BY <1>0, <1>14, GotoMoves DEF LinkEvent, Label
  <2>2. PathInv'
    BY <1>0, <1>1, <1>2, <1>14, <2>1
       DEF LinkEvent, DataOK, Moved, tables, relays, PathInv, PathOK, RowInv, EventInv
  <2>3. RowInv'
    BY <1>0, <1>1, <1>2, <1>14, <2>1
       DEF LinkEvent, DataOK, Moved, tables, relays, PathInv, PathOK, RowInv
  <2>4. EventInv'
    BY <1>0, <1>1, <1>2, <1>14, <2>1
       DEF LinkEvent, DataOK, Moved, tables, relays, PathInv, PathOK, EventInv
  <2> QED
    BY <2>2, <2>3, <2>4
<1>15. ASSUME NEW r \in Request, NEW d \in Handler, NoteAnnouncement(r, d)
      PROVE  PathInv' /\ RowInv' /\ EventInv'
  <2>1. Moved(r, d, "send")
    BY <1>0, <1>15, GotoMoves DEF NoteAnnouncement, Label
  <2>2. PathInv'
    BY <1>0, <1>1, <1>2, <1>15, <2>1
       DEF NoteAnnouncement, DataOK, Moved, tables, relays, PathInv, PathOK, RowInv, EventInv
  <2>3. RowInv'
    BY <1>0, <1>1, <1>2, <1>15, <2>1
       DEF NoteAnnouncement, DataOK, Moved, tables, relays, PathInv, PathOK, RowInv
  <2>4. EventInv'
    BY <1>0, <1>1, <1>2, <1>15, <2>1
       DEF NoteAnnouncement, DataOK, Moved, tables, relays, PathInv, PathOK, EventInv
  <2> QED
    BY <2>2, <2>3, <2>4
<1>16. ASSUME NEW r \in Request, NEW d \in Handler, SendAnnouncement(r, d)
      PROVE  PathInv' /\ RowInv' /\ EventInv'
  <2>1. Moved(r, d, "over")
    BY <1>0, <1>16, GotoMoves DEF SendAnnouncement, Label
  <2> QED
    BY <1>0, <1>1, <1>2, <1>16, <2>1
       DEF SendAnnouncement, PathInv, PathOK, RowInv, EventInv, DataOK, Moved, tables, relays
<1>17. ASSUME NEW r \in Request, NEW d \in Handler, SendReply(r, d)
      PROVE  PathInv' /\ RowInv' /\ EventInv'
  <2>1. Moved(r, d, "record")
    BY <1>0, <1>17, GotoMoves DEF SendReply, Label
  <2> QED
    BY <1>0, <1>1, <1>2, <1>17, <2>1
       DEF SendReply, Answer, PathInv, PathOK, RowInv, EventInv, DataOK, Moved, tables, relays
<1>18. ASSUME NEW r \in Request, NEW d \in Handler, Record(r, d)
      PROVE  PathInv' /\ RowInv' /\ EventInv'
  <2>1. Moved(r, d, "over")
    BY <1>0, <1>18, GotoMoves DEF Record, Label
  <2> QED
    BY <1>0, <1>1, <1>2, <1>18, <2>1
       DEF Record, PathInv, PathOK, RowInv, EventInv, DataOK, Moved, tables, relays
<1>19. ASSUME NEW r \in Request, NEW d \in Handler, Fail(r, d)
      PROVE  PathInv' /\ RowInv' /\ EventInv'
  <2>1. Moved(r, d, "over")
    BY <1>0, <1>19, GotoMoves DEF Fail, Label
  <2> QED
    BY <1>0, <1>1, <1>2, <1>19, <2>1
       DEF Fail, Offer, Answer, PathInv, PathOK, RowInv, EventInv, DataOK, Moved, tables, relays
<1>20. ASSUME NEW r \in Request, FindJob(r)
      PROVE  PathInv' /\ RowInv' /\ EventInv'
  <2>1. Paid \in Handler
    BY DEF Handler
  <2>2. Moved(r, Paid, IF r \in byInvoice THEN "job" ELSE "over")
    BY <1>0, <1>20, <2>1, GotoMoves DEF FindJob, Label
  <2> QED
    BY <1>0, <1>1, <1>2, <1>20, <2>1, <2>2
       DEF FindJob, PathInv, PathOK, RowInv, EventInv, DataOK, Moved, tables, relays
<1>21. CASE Relisten \/ Tick
  BY <1>0, <1>1, <1>21
     DEF Relisten, Tick, PathInv, PathOK, RowInv, EventInv, tables, relays
<1>22. CASE Crash
  <2>1. \A r \in Request, d \in Handler :
           at'[r][d] = IF at[r][d] = "idle" THEN "idle" ELSE "over"
    BY <1>0, <1>22, CrashMoves
  <2> QED
    BY <1>0, <1>1, <1>2, <1>22, <2>1
       DEF Crash, PathInv, PathOK, RowInv, EventInv, tables, relays
<1>23. ASSUME NEW r \in Request, RunAtDate(r)
      PROVE  PathInv' /\ RowInv' /\ EventInv'
  BY <1>0, <1>1, <1>2, <1>23
     DEF RunAtDate, PathInv, PathOK, RowInv, EventInv, DataOK, relays
<1>24. CASE UNCHANGED vars
  BY <1>1, <1>24 DEF vars, PathInv, PathOK, RowInv, EventInv, tables, relays
<1> QED
  BY <1>3, <1>4, <1>5, <1>6, <1>7, <1>8, <1>9, <1>10, <1>11, <1>12, <1>13, <1>14, <1>15, <1>16, <1>17, <1>18, <1>19, <1>20, <1>21, <1>22, <1>23, <1>24
     DEF Next, IntakeNext, Proceed

-----------------------------------------------------------------------------
(* Payments not answered yet: their handler is about to run or to reply.    *)

Pending(r) == {d \in Handler : at[r][d] \in {"settled", "job", "reply"}}

PendingOK(r) ==
    /\ IsFiniteSet(Pending(r))
    /\ answers[r] + Cardinality(Pending(r)) <= Payments(r)

PendingInv == \A r \in Request \ Scheduled : PendingOK(r)

LEMMA PaymentsType == ASSUME DataOK, NEW r \in Request PROVE Payments(r) \in Nat
BY DEF DataOK, Payments

\* A payment is lost, or nothing happens.
LEMMA PendingShrinks ==
    ASSUME DataOK, DataOK', NEW r \in Request, PendingOK(r),
           Pending(r)' \subseteq Pending(r), answers'[r] = answers[r],
           Payments(r)' = Payments(r)
    PROVE  PendingOK(r)'
<1>1. /\ IsFiniteSet(Pending(r)') /\ Cardinality(Pending(r)') \in Nat
      /\ Cardinality(Pending(r)) \in Nat
      /\ Cardinality(Pending(r)') <= Cardinality(Pending(r))
  BY FS_Subset, FS_CardinalityType DEF PendingOK
<1>2. answers[r] \in Nat /\ Payments(r) \in Nat
  BY PaymentsType DEF DataOK
<1> QED
  BY <1>1, <1>2 DEF PendingOK

\* A pending payment is answered.
LEMMA PendingAnswered ==
    ASSUME DataOK, DataOK', NEW r \in Request, PendingOK(r),
           NEW d \in Pending(r), Pending(r)' = Pending(r) \ {d},
           answers'[r] = answers[r] + 1, Payments(r)' = Payments(r)
    PROVE  PendingOK(r)'
<1>1. /\ IsFiniteSet(Pending(r)') /\ Cardinality(Pending(r)) \in Nat
      /\ Cardinality(Pending(r)') = Cardinality(Pending(r)) - 1
  BY FS_RemoveElement, FS_CardinalityType DEF PendingOK
<1>2. answers[r] \in Nat /\ Payments(r) \in Nat
  BY PaymentsType DEF DataOK
<1> QED
  BY <1>1, <1>2 DEF PendingOK

\* A payment comes in.
LEMMA PendingGrows ==
    ASSUME DataOK, DataOK', NEW r \in Request, PendingOK(r), NEW d \in Handler,
           Pending(r)' \in {Pending(r), Pending(r) \cup {d}},
           answers'[r] = answers[r], Payments(r)' = Payments(r) + 1
    PROVE  PendingOK(r)'
<1>1. Cardinality(Pending(r)) \in Nat
  BY FS_CardinalityType DEF PendingOK
<1>2. /\ IsFiniteSet(Pending(r)') /\ Cardinality(Pending(r)') \in Nat
      /\ Cardinality(Pending(r)') <= Cardinality(Pending(r)) + 1
  <2>1. CASE Pending(r)' = Pending(r)
    BY <1>1, <2>1 DEF PendingOK
  <2>2. CASE Pending(r)' = Pending(r) \cup {d}
    <3>1. IsFiniteSet(Pending(r))
      BY DEF PendingOK
    <3>2. /\ IsFiniteSet(Pending(r) \cup {d})
          /\ \/ Cardinality(Pending(r) \cup {d}) = Cardinality(Pending(r))
             \/ Cardinality(Pending(r) \cup {d}) = Cardinality(Pending(r)) + 1
      BY <3>1, FS_AddElement
    <3> QED
      BY <1>1, <2>2, <3>2
  <2> QED
    BY <2>1, <2>2
<1>3. answers[r] \in Nat /\ Payments(r) \in Nat
  BY PaymentsType DEF DataOK
<1> QED
  BY <1>1, <1>2, <1>3 DEF PendingOK

\* A step of a handler leaves the other requests alone.
LEMMA OthersKeepPending ==
    ASSUME DataOK, DataOK', NEW r \in Request, NEW d \in Handler,
           NEW label \in Label, Moved(r, d, label), NEW q \in Request \ {r},
           PendingOK(q), invoice'[q] = invoice[q], charges'[q] = charges[q],
           answers'[q] = answers[q]
    PROVE  PendingOK(q)'
<1>1. Pending(q)' = Pending(q)
  BY DEF Pending, Moved
<1>2. Payments(q)' = Payments(q)
  BY DEF Payments
<1> QED
  BY <1>1, <1>2, PendingShrinks

\* What a step of a handler may do to a request without schedule.
LEMMA HandlerKeepsPending ==
    ASSUME SafeInv, DataOK', NEW r \in Request \ Scheduled, NEW d \in Handler,
           PendingOK(r), HandlerStep(r, d)
    PROVE  PendingOK(r)'
<1> DEFINE Charged == Payments(r)' = Payments(r) + 1 /\ answers'[r] = answers[r]
           Same == Payments(r)' = Payments(r) /\ answers'[r] = answers[r]
<1>0. DataOK /\ at \in AtType /\ PathOK(r, d) /\ RowInv
  BY DEF SafeInv, PathInv
<1>1. ASSUME NEW label \in Label \ {"settled", "job", "reply"},
             Moved(r, d, label), Same
      PROVE  PendingOK(r)'
  <2>1. Pending(r)' \subseteq Pending(r)
    BY <1>1 DEF Pending, Moved
  <2> QED
    BY <1>0, <1>1, <2>1, PendingShrinks
<1>2. ASSUME NEW label \in Label, Moved(r, d, label), Same, d \in Pending(r)
      PROVE  PendingOK(r)'
  <2>1. Pending(r)' \subseteq Pending(r)
    BY <1>2 DEF Pending, Moved
  <2> QED
    BY <1>0, <1>2, <2>1, PendingShrinks
<1>3. ASSUME NEW label \in Label \ {"settled", "job", "reply"},
             Moved(r, d, label), d \in Pending(r),
             Payments(r)' = Payments(r), answers'[r] = answers[r] + 1
      PROVE  PendingOK(r)'
  <2>1. Pending(r)' = Pending(r) \ {d}
    BY <1>3 DEF Pending, Moved
  <2> QED
    BY <1>0, <1>3, <2>1, PendingAnswered
<1>4. CASE Charge(r, d)
  <2>1. Charged
    BY <1>0, <1>4 DEF Charge, DataOK, Payments, relays
  <2>2. Moved(r, d, "job")
    BY <1>0, <1>4, GotoMoves DEF Charge, Label
  <2>3. Pending(r)' \in {Pending(r), Pending(r) \cup {d}}
    BY <2>2 DEF Pending, Moved
  <2> QED
    BY <1>0, <2>1, <2>3, PendingGrows
<1>5. CASE SendReply(r, d)
  <2>1. Payments(r)' = Payments(r) /\ answers'[r] = answers[r] + 1
    BY <1>0, <1>5 DEF SendReply, Answer, DataOK, Payments
  <2>2. Moved(r, d, "record") /\ "record" \in Label /\ d \in Pending(r)
    BY <1>0, <1>5, GotoMoves DEF SendReply, Label, Pending
  <2> QED
    BY <1>3, <2>1, <2>2
<1>6. CASE Fail(r, d)
  <2>1. Moved(r, d, "over") /\ "over" \in Label
    BY <1>0, <1>6, GotoMoves DEF Fail, Label
  <2>2. Payments(r)' = Payments(r)
    BY <1>0, <1>6 DEF Fail, Offer, DataOK, Payments, PathOK
  <2>3. \/ answers'[r] = answers[r]
        \/ answers'[r] = answers[r] + 1 /\ d \in Pending(r)
    <3>1. CASE at[r][d] = "reply" /\ Answer(r)
      BY <1>0, <3>1 DEF Answer, DataOK, Pending
    <3>2. CASE UNCHANGED answers
      BY <3>2
    <3> QED
      BY <1>6, <3>1, <3>2 DEF Fail
  <2> QED
    BY <1>1, <1>3, <2>1, <2>2, <2>3
<1>7. CASE RunJob(r, d) \/ (d = Paid /\ FindJob(r))
  <2>1. Same
    BY <1>7 DEF RunJob, FindJob, Payments, relays
  <2>2. \E label \in Label : Moved(r, d, label)
    BY <1>0, <1>7, HandlerMoves DEF HandlerStep, Proceed
  <2>3. d \in Pending(r)
    BY <1>7 DEF RunJob, FindJob, Pending
  <2> QED
    BY <1>2, <2>1, <2>2, <2>3
<1>8. CASE CreateJob(r, d) \/ SendOffer(r, d)
  <2>1. Same
    BY <1>0, <1>8 DEF CreateJob, CanInsert, SendOffer, Offer, DataOK, Payments,
                      PathOK, RowInv, tables
  <2>2. Moved(r, d, "offer") \/ Moved(r, d, "over")
    BY <1>0, <1>8, GotoMoves DEF CreateJob, SendOffer, Label
  <2> QED
    BY <1>1, <2>1, <2>2 DEF Label
<1>9. CASE Receive(r, d) \/ Refuse(r, d) \/ ReadBalance(r, d) \/ Record(r, d)
  <2>1. Same
    BY <1>9 DEF Receive, Refuse, ReadBalance, Record, Payments, relays
  <2>2. \/ Moved(r, d, "received") \/ Moved(r, d, "over")
        \/ Moved(r, d, "charge") \/ Moved(r, d, "bill")
    BY <1>0, <1>9, GotoMoves
       DEF Receive, Refuse, ReadBalance, Record, Label
  <2> QED
    BY <1>1, <2>1, <2>2 DEF Label
<1>10. CASE \/ CheckDate(r, d) \/ CreateEvent(r, d) \/ CreateScheduled(r, d)
            \/ LinkEvent(r, d) \/ NoteAnnouncement(r, d)
            \/ SendAnnouncement(r, d)
  <2>1. /\ CheckDate(r, d) => FALSE
        /\ at[r][d] \in {"event", "row", "link", "note", "send"} => FALSE
    BY <1>0 DEF CheckDate, PathOK
  <2> QED
    BY <1>10, <2>1 DEF CreateEvent, CreateScheduled, LinkEvent,
                       NoteAnnouncement, SendAnnouncement
<1> QED
  BY <1>4, <1>5, <1>6, <1>7, <1>8, <1>9, <1>10 DEF HandlerStep, Proceed

LEMMA HandlerTouchesOne ==
    ASSUME DataOK, NEW r \in Request, NEW d \in Handler, HandlerStep(r, d),
           NEW q \in Request \ {r}
    PROVE  /\ invoice'[q] = invoice[q] /\ charges'[q] = charges[q]
           /\ answers'[q] = answers[q]
BY DEF DataOK, HandlerStep, Proceed, Receive, Refuse, ReadBalance, Charge,
       CreateJob, SendOffer, FindJob, CheckDate, CreateEvent, CreateScheduled,
       LinkEvent, NoteAnnouncement, SendAnnouncement, SendReply, Record,
       RunJob, Fail, Offer, Answer, relays

LEMMA PendingStep ==
    ASSUME SafeInv, PendingInv, [Next]_vars
    PROVE  PendingInv'
<1>0. DataOK /\ at \in AtType /\ DataOK' /\ at' \in AtType
  BY TypeStep, TypeParts DEF SafeInv, TypeOK, DataOK, AtType, Label
<1> SUFFICES ASSUME NEW q \in Request \ Scheduled PROVE PendingOK(q)'
  BY DEF PendingInv
<1>1. PendingOK(q)
  BY DEF PendingInv
<1>2. ASSUME NEW r \in Request, NEW d \in Handler, HandlerStep(r, d)
      PROVE  PendingOK(q)'
  <2>1. CASE q = r
    BY <1>0, <1>1, <1>2, <2>1, HandlerKeepsPending
  <2>2. CASE q # r
    BY <1>0, <1>1, <1>2, <2>2, HandlerMoves, HandlerTouchesOne,
       OthersKeepPending
  <2> QED
    BY <2>1, <2>2
<1>3. ASSUME NEW r \in Request, Settle(r) PROVE PendingOK(q)'
  <2>1. at' = at \/ Moved(r, Paid, "settled")
    BY <1>0, <1>3, SettleMoves
  <2>2. Paid \in Handler
    BY DEF Handler
  <2>3. answers'[q] = answers[q]
    BY <1>3 DEF Settle
  <2>4. CASE q = r
    <3>1. Pending(q)' \in {Pending(q), Pending(q) \cup {Paid}}
      BY <2>1, <2>2, <2>4 DEF Pending, Moved
    <3>2. Payments(q)' = Payments(q) + 1
      BY <1>0, <1>3, <2>4 DEF Settle, Payments, DataOK
    <3> QED
      BY <1>0, <1>1, <2>2, <2>3, <3>1, <3>2, PendingGrows
  <2>5. CASE q # r
    <3>1. Pending(q)' \subseteq Pending(q)
      BY <2>1, <2>5 DEF Pending, Moved
    <3>2. Payments(q)' = Payments(q)
      BY <1>0, <1>3, <2>5 DEF Settle, Payments, DataOK
    <3> QED
      BY <1>0, <1>1, <2>3, <3>1, <3>2, PendingShrinks
  <2> QED
    BY <2>4, <2>5
<1>4. CASE Crash
  <2>1. Pending(q)' \subseteq Pending(q)
    BY <1>0, <1>4, CrashMoves DEF Pending
  <2>2. Payments(q)' = Payments(q) /\ answers'[q] = answers[q]
    BY <1>4 DEF Crash, Payments, relays
  <2> QED
    BY <1>0, <1>1, <2>1, <2>2, PendingShrinks
<1>5. CASE Relisten \/ Tick \/ (\E r \in Request : RunAtDate(r)) \/ UNCHANGED vars
  <2>1. Pending(q)' = Pending(q)
    BY <1>5 DEF Relisten, Tick, RunAtDate, vars, Pending
  <2>2. Payments(q)' = Payments(q) /\ answers'[q] = answers[q]
    BY <1>5 DEF Relisten, Tick, RunAtDate, vars, Payments, relays
  <2> QED
    BY <1>0, <1>1, <2>1, <2>2, PendingShrinks
<1> QED
  BY <1>2, <1>3, <1>4, <1>5 DEF Next, IntakeNext, HandlerStep

-----------------------------------------------------------------------------
(* The theorems.                                                            *)

IntakeInv == SafeInv /\ PendingInv

LEMMA IntakeInit == Init => IntakeInv
<1> SUFFICES ASSUME Init PROVE IntakeInv
  OBVIOUS
<1>1. SafeInv
  BY SafeInit
<1>2. ASSUME NEW r \in Request \ Scheduled PROVE PendingOK(r)
  <2>1. Pending(r) = {}
    BY DEF Init, Pending
  <2>2. IsFiniteSet(Pending(r)) /\ Cardinality(Pending(r)) = 0
    BY <2>1, FS_EmptySet
  <2>3. answers[r] = 0 /\ Payments(r) = 0
    BY DEF Init, Payments
  <2> QED
    BY <2>2, <2>3 DEF PendingOK
<1> QED
  BY <1>1, <1>2 DEF IntakeInv, PendingInv

LEMMA IntakeStep == IntakeInv /\ [Next]_vars => IntakeInv'
<1> SUFFICES ASSUME IntakeInv, [Next]_vars PROVE IntakeInv'
  OBVIOUS
<1>1. TypeOK'
  BY TypeStep, TypeParts DEF IntakeInv, SafeInv
<1>2. DataOK' /\ at' \in AtType
  BY <1>1 DEF TypeOK, DataOK, AtType, Label
<1>3. PathInv' /\ RowInv' /\ EventInv'
  BY SafeStep DEF IntakeInv
<1>4. PendingInv'
  BY PendingStep DEF IntakeInv
<1> QED
  BY <1>2, <1>3, <1>4 DEF IntakeInv, SafeInv

LEMMA IntakeInvariant == Spec => []IntakeInv
BY IntakeInit, IntakeStep, PTL DEF Spec

\* The invoice a client holds leads to a row, and a row that waits for a
\* payment has an invoice (create_job_feedback_invoice, get_by_payment_hash).
THEOREM NoPaymentStrands == Spec => []InvoiceFindsJob
<1>1. IntakeInv => InvoiceFindsJob
  BY DEF IntakeInv, SafeInv, RowInv, InvoiceFindsJob
<1> QED
  BY <1>1, IntakeInvariant, PTL

\* An oracle event becomes that of a job only for a payment, and one at most
\* under each name (handle_event, handle_job_request).
THEOREM LinkedIsPaidFor == Spec => []LinkedIsPaid
<1>1. IntakeInv => LinkedIsPaid
  BY IntakeAssumption
     DEF IntakeInv, SafeInv, DataOK, EventInv, LinkedIsPaid, Payments
<1> QED
  BY <1>1, IntakeInvariant, PTL

\* A request without schedule is answered no more often than it was paid for
\* (handle_event, handle_invoice).
THEOREM NothingForFree == Spec => []AnswersArePaid
<1>1. IntakeInv => AnswersArePaid
  <2> SUFFICES ASSUME IntakeInv, NEW r \in Request \ Scheduled
               PROVE  /\ answers[r] <= Payments(r)
                      /\ jobs[r] = "done" => answers[r] > 0
    BY DEF AnswersArePaid
  <2>1. DataOK /\ RowInv /\ PendingOK(r)
    BY DEF IntakeInv, SafeInv, PendingInv
  <2>2. Cardinality(Pending(r)) \in Nat
    BY <2>1, FS_CardinalityType DEF PendingOK
  <2>3. answers[r] \in Nat /\ Payments(r) \in Nat
    BY <2>1, PaymentsType DEF DataOK
  <2> QED
    BY <2>1, <2>2, <2>3 DEF PendingOK, RowInv
<1> QED
  BY <1>1, IntakeInvariant, PTL

=============================================================================
