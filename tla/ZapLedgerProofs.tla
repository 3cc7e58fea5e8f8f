-------------------------- MODULE ZapLedgerProofs --------------------------
(***************************************************************************)
(* Proofs about ZapLedger, for every set of keys, zaps and deliveries,     *)
(* every amount and every width of the integers.                           *)
(*                                                                         *)
(*   TypeCorrect       TypeOK                                              *)
(*   NeverOverdrawn    NoOverdraft                                         *)
(*   QuietIsExact      QuietAccountExact, from the invariant QuietInv      *)
(*   AccountsAreImplemented   ImplementsAccounts, with ProgressInv         *)
(*   PayerHasRow       PaidZapHasRow, from the invariant ReturnInv         *)
(*   CreditIsPaidFor   NoPhantomCredit, from the invariant CreditInv       *)
(*   QuietIsSolvent    QuietAccountSolvent, from SpentInv and all these    *)
(***************************************************************************)
EXTENDS ZapLedger, SumProofs, TLAPS

-----------------------------------------------------------------------------
(* The conversions.                                                         *)

\* A cast to i32 yields a value of the column type, whatever the amount.
LEMMA AsInt4Type == ASSUME NEW n \in Int PROVE AsInt4(n) \in Int4
BY LedgerAssumption DEF AsInt4, Int4

\* saturating_add stays in the column type.
LEMMA SatAddType ==
    ASSUME NEW a \in Int, NEW b \in Int PROVE SatAdd(a, b) \in Int4
BY LedgerAssumption DEF SatAdd, Int4

\* A cast of an amount that fits is the amount.
LEMMA AsInt4Fits == ASSUME NEW n \in 0 .. Int4Max PROVE AsInt4(n) = n
BY LedgerAssumption DEF AsInt4, Int4

LEMMA Int4IsInt == Int4 \subseteq Int /\ 0 \in Int4
BY LedgerAssumption DEF Int4

\* What the constants' assumption says of one task.
LEMMA HandlerFacts ==
    ASSUME NEW h \in Handler
    PROVE  Owner[h] \in Npub /\ Msat[h] \in Nat /\ AsInt4(Msat[h]) \in Int4
           /\ -AsInt4(Msat[h]) \in Int
<1>1. Owner[h] \in Npub /\ Msat[h] \in Nat
  BY LedgerAssumption
<1>2. AsInt4(Msat[h]) \in Int4
  BY <1>1, AsInt4Type
<1>3. AsInt4(Msat[h]) \in Int
  BY <1>2, Int4IsInt
<1> HIDE DEF AsInt4
<1>4. -AsInt4(Msat[h]) \in Int
  BY <1>3
<1> QED
  BY <1>1, <1>2, <1>4

LEMMA ReadKeepsTypes ==
    ASSUME TypeOK, NEW h \in Handler, ReadBalance(h)
    PROVE  seen' \in [Handler -> Int4] /\ overlapped' \subseteq Npub
BY HandlerFacts DEF TypeOK, ReadBalance

LEMMA UpdateKeepsTypes ==
    ASSUME TypeOK, NEW h \in Handler, NEW amount \in Int,
           UpdateBalance(h, amount)
    PROVE  balance' \in [Npub -> Int4] /\ ledger' \in [Npub -> Int]
<1>1. SatAdd(seen[h], amount) \in Int4
  BY SatAddType, Int4IsInt DEF TypeOK
<1>2. ledger[Owner[h]] \in Int /\ SatAdd(ledger[Owner[h]], amount) \in Int
  BY HandlerFacts, SatAddType, Int4IsInt DEF TypeOK
<1> QED
  BY <1>1, <1>2 DEF TypeOK, UpdateBalance

-----------------------------------------------------------------------------
(* Type correctness.                                                        *)

LEMMA TypeInit == Init => TypeOK
BY Int4IsInt DEF Init, TypeOK

LEMMA TypeStep == TypeOK /\ [Next]_vars => TypeOK'
<1> SUFFICES ASSUME TypeOK, [Next]_vars PROVE TypeOK'
  OBVIOUS
<1> USE DEF TypeOK, Goto
<1>1. ASSUME NEW z \in Zap, ZapStep(z) PROVE TypeOK'
  <2> z \in Handler
    BY DEF Handler
  <2>1. CASE AddInvoice(z)
    BY <2>1 DEF AddInvoice
  <2>2. CASE CheckAccount(z)
    BY <2>2 DEF CheckAccount
  <2>3. CASE CreateZap(z)
    BY <2>3, HandlerFacts DEF CreateZap
  <2>4. CASE CreateZapFails(z)
    BY <2>4 DEF CreateZapFails
  <2>5. CASE Settle(z)
    BY <2>5 DEF Settle
  <2>6. CASE Deliver(z)
    BY <2>6 DEF Deliver
  <2>7. CASE SendReceipt(z)
    BY <2>7 DEF SendReceipt
  <2>8. CASE MarkRead(z)
    BY <2>8, ReadKeepsTypes DEF MarkRead
  <2>9. CASE MarkCommit(z)
    BY <2>9, UpdateKeepsTypes, HandlerFacts, Int4IsInt DEF MarkCommit
  <2>10. CASE MarkReject(z)
    BY <2>10 DEF MarkReject
  <2> QED
    BY <1>1, <2>1, <2>2, <2>3, <2>4, <2>5, <2>6, <2>7, <2>8, <2>9, <2>10
    DEF ZapStep
<1>2. ASSUME NEW d \in Delivery, JobStep(d) PROVE TypeOK'
  <2> d \in Handler
    BY DEF Handler
  <2>1. CASE JobRead(d)
    BY <2>1, ReadKeepsTypes DEF JobRead
  <2>2. CASE JobCharge(d)
    BY <2>2, UpdateKeepsTypes, HandlerFacts DEF JobCharge
  <2> QED
    BY <1>2, <2>1, <2>2 DEF JobStep
<1>3. ASSUME NEW h \in Handler, Fail(h) PROVE TypeOK'
  BY <1>3 DEF Fail
<1>4. CASE StreamEnds
  BY <1>4 DEF StreamEnds, LoseQueue
<1>5. CASE Subscribe
  BY <1>5 DEF Subscribe
<1>6. CASE StreamPanics
  BY <1>6 DEF StreamPanics, LoseQueue
<1>7. CASE Crash
  BY <1>7 DEF Crash, LoseQueue
<1>8. CASE UNCHANGED vars
  BY <1>8 DEF vars
<1> QED
  BY <1>1, <1>2, <1>3, <1>4, <1>5, <1>6, <1>7, <1>8 DEF Next

\* Every variable keeps its type: in particular what is stored in a column
\* fits the column, for every amount a payer may choose.
THEOREM TypeCorrect == Spec => []TypeOK
BY TypeInit, TypeStep, PTL DEF Spec

-----------------------------------------------------------------------------
(* No overdraft.                                                            *)

LEMMA OverdraftStep == TypeOK /\ NoOverdraft /\ [Next]_vars => NoOverdraft'
<1> SUFFICES ASSUME TypeOK, NoOverdraft, [Next]_vars PROVE NoOverdraft'
  OBVIOUS
<1>1. ASSUME NEW h \in Handler, NEW amount, UpdateBalance(h, amount)
      PROVE  NoOverdraft'
  BY <1>1 DEF UpdateBalance, NoOverdraft, TypeOK
<1>2. ASSUME NEW z \in Zap, MarkCommit(z) PROVE NoOverdraft'
  BY <1>1, <1>2 DEF MarkCommit, Handler
<1>3. ASSUME NEW d \in Delivery, JobCharge(d) PROVE NoOverdraft'
  BY <1>1, <1>3 DEF JobCharge, Handler
<1>4. CASE UNCHANGED balance
  BY <1>4 DEF NoOverdraft
<1> QED
  BY <1>2, <1>3, <1>4
  DEF Next, ZapStep, JobStep, AddInvoice, CheckAccount, CreateZap,
      CreateZapFails, Settle, Deliver, SendReceipt, MarkRead, MarkReject,
      JobRead, Fail, StreamEnds, Subscribe, StreamPanics, Crash, vars

\* No balance is ever negative, for any amounts and any interleaving: the test
\* of update_balance looks at the very value it writes.
THEOREM NeverOverdrawn == Spec => []NoOverdraft
<1>1. Init => NoOverdraft
  BY DEF Init, NoOverdraft
<1> QED
  BY <1>1, OverdraftStep, TypeCorrect, PTL DEF Spec

-----------------------------------------------------------------------------
(* An account without overlapping spans is exact.  Alone, the equation is   *)
(* not inductive: a task that is about to write must still hold the current *)
(* balance, and it does because no other task of the key is in its span.    *)

Quiet(h) == Owner[h] \notin overlapped

SeenIsCurrent ==
    \A h \in Handler : HoldsRead(h) /\ Quiet(h) => seen[h] = balance[Owner[h]]

OneSpan ==
    \A g, h \in Handler :
        HoldsRead(g) /\ HoldsRead(h) /\ Owner[g] = Owner[h] /\ Quiet(h) => g = h

QuietInv == SeenIsCurrent /\ OneSpan /\ QuietAccountExact

\* A step that opens no span and writes no balance keeps the invariant.
LEMMA QuietFrame ==
    ASSUME QuietInv, UNCHANGED <<balance, seen, ledger, overlapped>>,
           \A h \in Handler : HoldsRead(h)' => HoldsRead(h)
    PROVE  QuietInv'
BY DEF QuietInv, SeenIsCurrent, OneSpan, QuietAccountExact, Quiet

\* A read opens a span; if another one is open, the key is no longer quiet.
LEMMA QuietRead ==
    ASSUME TypeOK, QuietInv, NEW h \in Handler, ~HoldsRead(h), ReadBalance(h),
           NEW label, Goto(h, label), UNCHANGED <<balance, ledger>>
    PROVE  QuietInv'
<1>1. \A g \in Handler \ {h} :
         (HoldsRead(g)' <=> HoldsRead(g)) /\ seen'[g] = seen[g]
  BY DEF TypeOK, ReadBalance, Goto, HoldsRead
<1>2. overlapped \subseteq overlapped' /\ seen'[h] = balance[Owner[h]]
  BY DEF TypeOK, ReadBalance
<1>3. \A g \in Handler : HoldsRead(g) /\ Owner[g] = Owner[h]
         => Owner[h] \in overlapped'
  BY DEF ReadBalance
<1>4. SeenIsCurrent'
  BY <1>1, <1>2 DEF QuietInv, SeenIsCurrent, Quiet
<1>5. OneSpan'
  BY <1>1, <1>2, <1>3 DEF QuietInv, OneSpan, Quiet
<1>6. QuietAccountExact'
  BY <1>2 DEF QuietInv, QuietAccountExact
<1> QED
  BY <1>4, <1>5, <1>6 DEF QuietInv

\* A write closes the only span of a quiet key, and it wrote what it should.
LEMMA QuietWrite ==
    ASSUME TypeOK, QuietInv, NEW h \in Handler, HoldsRead(h), NEW amount,
           UpdateBalance(h, amount), Goto(h, "done"),
           UNCHANGED <<seen, overlapped>>
    PROVE  QuietInv'
<1>1. ~HoldsRead(h)' /\ \A g \in Handler \ {h} : HoldsRead(g)' <=> HoldsRead(g)
  BY DEF TypeOK, Goto, HoldsRead
<1>2. Owner[h] \in Npub
  BY HandlerFacts
<1>3. \A n \in Npub \ {Owner[h]} : balance'[n] = balance[n] /\ ledger'[n] = ledger[n]
  BY DEF TypeOK, UpdateBalance
<1>4. /\ balance'[Owner[h]] = SatAdd(seen[h], amount)
      /\ ledger'[Owner[h]] = SatAdd(ledger[Owner[h]], amount)
  BY <1>2 DEF TypeOK, UpdateBalance
<1>5. SeenIsCurrent'
  <2> SUFFICES ASSUME NEW g \in Handler, HoldsRead(g)', Quiet(g)'
               PROVE  seen'[g] = balance'[Owner[g]]
    BY DEF SeenIsCurrent
  <2>1. g # h /\ HoldsRead(g) /\ Quiet(g)
    BY <1>1 DEF Quiet
  <2>2. Owner[g] # Owner[h]
    BY <2>1 DEF QuietInv, OneSpan, Quiet
  <2> QED
    BY <1>3, <2>1, <2>2, HandlerFacts DEF QuietInv, SeenIsCurrent
<1>6. OneSpan'
  BY <1>1 DEF QuietInv, OneSpan, Quiet
<1>7. QuietAccountExact'
  <2> SUFFICES ASSUME NEW n \in Npub \ overlapped
               PROVE  balance'[n] = ledger'[n]
    BY DEF QuietAccountExact
  <2>1. CASE n # Owner[h]
    BY <1>3, <2>1 DEF QuietInv, QuietAccountExact
  <2>2. CASE n = Owner[h]
    BY <1>4, <2>2 DEF QuietInv, QuietAccountExact, SeenIsCurrent, Quiet
  <2> QED
    BY <2>1, <2>2
<1> QED
  BY <1>5, <1>6, <1>7 DEF QuietInv

LEMMA QuietInit == Init => QuietInv
BY DEF Init, QuietInv, SeenIsCurrent, OneSpan, QuietAccountExact, HoldsRead

LEMMA QuietStep == TypeOK /\ QuietInv /\ [Next]_vars => QuietInv'
<1> SUFFICES ASSUME TypeOK, QuietInv, [Next]_vars PROVE QuietInv'
  OBVIOUS
<1>1. ASSUME NEW z \in Zap, ZapStep(z) PROVE QuietInv'
  <2> z \in Handler
    BY DEF Handler
  <2>1. CASE MarkRead(z)
    BY <2>1, QuietRead DEF MarkRead, HoldsRead
  <2>2. CASE MarkCommit(z)
    BY <2>2, QuietWrite DEF MarkCommit, HoldsRead
  <2>3. CASE MarkReject(z) \/ SendReceipt(z) \/ Deliver(z) \/ Settle(z)
    BY <2>3, QuietFrame
    DEF TypeOK, MarkReject, SendReceipt, Deliver, Settle, Goto, HoldsRead
  <2>4. CASE AddInvoice(z) \/ CheckAccount(z) \/ CreateZap(z)
             \/ CreateZapFails(z)
    BY <2>4, QuietFrame
    DEF AddInvoice, CheckAccount, CreateZap, CreateZapFails, HoldsRead
  <2> QED
    BY <1>1, <2>1, <2>2, <2>3, <2>4 DEF ZapStep
<1>2. ASSUME NEW d \in Delivery, JobStep(d) PROVE QuietInv'
  <2> d \in Handler
    BY DEF Handler
  <2>1. CASE JobRead(d) /\ ReadBalance(d) /\ Goto(d, "paying")
    BY <2>1, QuietRead DEF JobRead, HoldsRead
  <2>2. CASE JobRead(d) /\ Goto(d, "invoiced") /\ UNCHANGED <<seen, overlapped>>
    BY <2>2, QuietFrame DEF TypeOK, JobRead, Goto, HoldsRead
  <2>3. CASE JobCharge(d)
    BY <2>3, QuietWrite DEF JobCharge, HoldsRead
  <2> QED
    BY <1>2, <2>1, <2>2, <2>3 DEF JobStep, JobRead
<1>3. ASSUME NEW h \in Handler, Fail(h) PROVE QuietInv'
  BY <1>3, QuietFrame DEF TypeOK, Fail, Goto, HoldsRead
<1>4. CASE StreamEnds \/ StreamPanics \/ Crash
  BY <1>4, QuietFrame
  DEF TypeOK, StreamEnds, StreamPanics, Crash, LoseQueue, InFlight, HoldsRead
<1>5. CASE Subscribe \/ UNCHANGED vars
  BY <1>5, QuietFrame DEF Subscribe, vars, HoldsRead
<1> QED
  BY <1>1, <1>2, <1>3, <1>4, <1>5 DEF Next

\* An account whose read-to-write spans never overlapped holds exactly what
\* atomic operations would have left in it: overlap is the only way in which
\* handle_event and mark_zap_paid lose an update.
THEOREM QuietIsExact == Spec => []QuietAccountExact
<1>1. QuietInv => QuietAccountExact
  BY DEF QuietInv
<1> QED
  BY QuietInit, QuietStep, TypeCorrect, <1>1, PTL DEF Spec

-----------------------------------------------------------------------------
(* Who pays got the invoice from a get_invoice call that returned, and such *)
(* a call has left its rows, whichever call created the account.            *)

ReturnInv ==
    \A z \in Zap :
        /\ http[z] = "returned" => row[z] # "none" /\ Owner[z] \in account
        /\ invoice[z] = "settled" => http[z] \in {"returned", "plain"}

LEMMA ReturnInit == Init => ReturnInv
BY DEF Init, ReturnInv

LEMMA ReturnStep == TypeOK /\ ReturnInv /\ [Next]_vars => ReturnInv'
<1> SUFFICES ASSUME TypeOK, ReturnInv, [Next]_vars PROVE ReturnInv'
  OBVIOUS
<1> USE DEF TypeOK, ReturnInv
<1>1. ASSUME NEW z \in Zap, ZapStep(z) PROVE ReturnInv'
  <2>1. CASE AddInvoice(z) \/ CheckAccount(z) \/ CreateZapFails(z)
    BY <2>1 DEF AddInvoice, CheckAccount, CreateZapFails
  <2>2. CASE CreateZap(z)
    BY <2>2 DEF CreateZap
  <2>3. CASE Settle(z)
    BY <2>3 DEF Settle
  <2>4. CASE MarkCommit(z)
    BY <2>4 DEF MarkCommit
  <2>5. CASE \/ Deliver(z) \/ SendReceipt(z) \/ MarkRead(z) \/ MarkReject(z)
    BY <2>5 DEF Deliver, SendReceipt, MarkRead, MarkReject
  <2> QED
    BY <1>1, <2>1, <2>2, <2>3, <2>4, <2>5 DEF ZapStep
<1>2. CASE Crash
  BY <1>2 DEF Crash
<1>3. CASE \/ \E d \in Delivery : JobStep(d)
           \/ \E h \in Handler : Fail(h)
           \/ StreamEnds \/ Subscribe \/ StreamPanics \/ UNCHANGED vars
  BY <1>3 DEF JobStep, JobRead, JobCharge, Fail, StreamEnds, Subscribe,
              StreamPanics, vars
<1> QED
  BY <1>1, <1>2, <1>3 DEF Next

\* Who paid an invoice with a zap request is in the zaps table, with an account
\* to credit, although two calls may create the same account (create_zap).
THEOREM PayerHasRow == Spec => []PaidZapHasRow
<1>1. TypeOK /\ ReturnInv => PaidZapHasRow
  BY DEF TypeOK, ReturnInv, PaidZapHasRow
<1> QED
  BY <1>1, ReturnInit, ReturnStep, TypeCorrect, PTL DEF Spec

-----------------------------------------------------------------------------
(* The tasks implement the accounts of PrepaidAccounts.                     *)

ZapProgress(z) ==
    /\ http[z] = "idle" => invoice[z] = "none"
    /\ http[z] # "returned" => row[z] = "none"
    /\ invoice[z] # "settled" => pc[z] = "idle"
    /\ pc[z] \in {"idle", "queued"} => z \notin receipts /\ row[z] # "noted"
    /\ pc[z] = "found" => z \notin receipts /\ row[z] = "open"
    /\ pc[z] \in {"sent", "marking"} => z \in receipts /\ row[z] = "open"

JobProgress(d) ==
    /\ pc[d] \in {"idle", "paying"} => d \notin charged
    /\ pc[d] = "paying" => seen[d] >= Msat[d]

ProgressInv ==
    /\ \A z \in Zap : ZapProgress(z)
    /\ \A d \in Delivery : JobProgress(d)

LEMMA ProgressInit == Init => ProgressInv
BY DEF Init, ProgressInv, ZapProgress, JobProgress, Handler

LEMMA ProgressStep ==
    TypeOK /\ NoOverdraft /\ ProgressInv /\ [Next]_vars => ProgressInv'
<1> SUFFICES ASSUME TypeOK, NoOverdraft, ProgressInv, [Next]_vars
             PROVE  ProgressInv'
  OBVIOUS
<1> USE DEF TypeOK, ProgressInv, ZapProgress, JobProgress, Goto
<1> /\ \A z \in Zap : z \in Handler /\ z \notin Delivery
    /\ \A d \in Delivery : d \in Handler /\ d \notin Zap
  BY LedgerAssumption DEF Handler
<1>1. ASSUME NEW z \in Zap, ZapStep(z) PROVE ProgressInv'
  <2>1. CASE AddInvoice(z) \/ CheckAccount(z) \/ CreateZap(z) \/ CreateZapFails(z)
    BY <2>1 DEF AddInvoice, CheckAccount, CreateZap, CreateZapFails
  <2>2. CASE Settle(z) \/ Deliver(z) \/ SendReceipt(z) \/ MarkReject(z)
    BY <2>2 DEF Settle, Deliver, SendReceipt, MarkReject
  <2>3. CASE MarkRead(z)
    BY <2>3 DEF MarkRead, ReadBalance
  <2>4. CASE MarkCommit(z)
    BY <2>4 DEF MarkCommit
  <2> QED
    BY <1>1, <2>1, <2>2, <2>3, <2>4 DEF ZapStep
<1>2. ASSUME NEW d \in Delivery, JobStep(d) PROVE ProgressInv'
  <2>1. CASE JobRead(d)
    <3>1. /\ Owner[d] \in Npub /\ Msat[d] \in Nat
          /\ balance[Owner[d]] \in Int /\ balance[Owner[d]] >= 0
      BY HandlerFacts, Int4IsInt DEF NoOverdraft
    <3>2. pc'[d] = "paying" => seen'[d] >= Msat[d]
      BY <2>1, <3>1 DEF JobRead, ReadBalance, Covers
    <3>3. /\ pc'[d] \in {"paying", "invoiced"} /\ pc[d] = "idle"
          /\ \A h \in Handler \ {d} : pc'[h] = pc[h] /\ seen'[h] = seen[h]
          /\ UNCHANGED <<row, invoice, http, receipts, charged>>
      BY <2>1 DEF JobRead, ReadBalance
    <3> QED
      BY <3>2, <3>3
  <2>2. CASE JobCharge(d)
    BY <2>2 DEF JobCharge
  <2> QED
    BY <1>2, <2>1, <2>2 DEF JobStep
<1>3. ASSUME NEW h \in Handler, Fail(h) PROVE ProgressInv'
  BY <1>3 DEF Fail, InFlight
<1>4. CASE StreamEnds \/ StreamPanics \/ Crash
  BY <1>4 DEF StreamEnds, StreamPanics, Crash, LoseQueue, InFlight
<1>5. CASE Subscribe \/ UNCHANGED vars
  BY <1>5 DEF Subscribe, vars
<1> QED
  BY <1>1, <1>2, <1>3, <1>4, <1>5 DEF Next

LEMMA AccountsInit == Init => Accounts!Init
BY DEF Init, Accounts!Init

\* A covered charge and a credit that fits compute what PrepaidAccounts says.
LEMMA SatAddDeposit ==
    ASSUME NEW a \in 0 .. Int4Max, NEW b \in 0 .. Int4Max
    PROVE  SatAdd(a, b) = IF a + b > Int4Max THEN Int4Max ELSE a + b
BY LedgerAssumption DEF SatAdd

LEMMA SatAddCharge ==
    ASSUME NEW a \in 0 .. Int4Max, NEW b \in 0 .. Int4Max, a >= b
    PROVE  SatAdd(a, -b) = a - b
BY LedgerAssumption DEF SatAdd

LEMMA AccountsStep ==
    ASSUME TypeOK, NoOverdraft, QuietInv, ProgressInv, [Next]_vars
    PROVE  [Accounts!Next]_(Accounts!vars)
<1> USE DEF ProgressInv
<1> DEFINE Credited == {z \in Zap : row[z] = "noted"}
<1>1. /\ \A z \in Zap : z \in Handler
      /\ \A d \in Delivery : d \in Handler
  BY DEF Handler
<1>2. ASSUME NEW h \in Handler, HoldsRead(h), Owner[h] \notin overlapped,
             Msat[h] <= Int4Max
      PROVE  /\ AsInt4(Msat[h]) = Msat[h]
             /\ seen[h] = balance[Owner[h]]
             /\ Msat[h] \in 0 .. Int4Max
             /\ seen[h] \in 0 .. Int4Max
  <2>1. Owner[h] \in Npub /\ Msat[h] \in 0 .. Int4Max
    BY <1>2, HandlerFacts, LedgerAssumption
  <2>2. balance[Owner[h]] \in 0 .. Int4Max
    BY <2>1, LedgerAssumption DEF TypeOK, NoOverdraft, Int4
  <2>3. seen[h] = balance[Owner[h]]
    BY <1>2 DEF QuietInv, SeenIsCurrent, Quiet
  <2>4. AsInt4(Msat[h]) = Msat[h]
    BY <2>1, AsInt4Fits
  <2> QED
    BY <2>1, <2>2, <2>3, <2>4
<1>3. ASSUME NEW h \in Handler, NEW amount \in Int, UpdateBalance(h, amount)
      PROVE  Accounts!LeavesAny(h)
  <2>1. seen[h] \in Int
    BY Int4IsInt DEF TypeOK
  <2>2. SatAdd(seen[h], amount) \in Int4
    BY <2>1, SatAddType
  <2>3. SatAdd(seen[h], amount) \in 0 .. Int4Max
    BY <1>3, <2>2, LedgerAssumption DEF UpdateBalance, Int4
  <2> QED
    BY <1>3, <2>3 DEF UpdateBalance, Accounts!LeavesAny, Accounts!Leaves
<1>4. UNCHANGED <<balance, receipts, row, charged, overlapped>>
        => UNCHANGED Accounts!vars
  BY DEF Accounts!vars
<1>5. ASSUME NEW h \in Handler, ReadBalance(h),
             UNCHANGED <<balance, receipts, row, charged>>
      PROVE  [Accounts!Next]_(Accounts!vars)
  <2>1. Owner[h] \in Npub
    BY HandlerFacts
  <2>2. CASE overlapped' = overlapped
    BY <1>4, <1>5, <2>2
  <2>3. CASE overlapped' = overlapped \cup {Owner[h]}
    <3>1. Accounts!Collide(Owner[h])
      BY <1>5, <2>3 DEF Accounts!Collide
    <3> QED
      BY <2>1, <3>1 DEF Accounts!Next
  <2> QED
    BY <1>5, <2>2, <2>3 DEF ReadBalance
<1>6. ASSUME NEW z \in Zap, ZapStep(z) PROVE [Accounts!Next]_(Accounts!vars)
  <2>1. CASE SendReceipt(z)
    <3>1. z \notin receipts
      BY <2>1 DEF SendReceipt, ZapProgress
    <3>2. Accounts!Receipt(z)
      BY <2>1, <3>1 DEF SendReceipt, Accounts!Receipt
    <3> QED
      BY <3>2 DEF Accounts!Next
  <2>2. CASE MarkCommit(z)
    <3>1. z \in receipts /\ z \notin Credited
      BY <2>2 DEF MarkCommit, ZapProgress
    <3>2. Credited' = Credited \cup {z}
      BY <2>2 DEF MarkCommit, TypeOK
    <3>3. /\ z \in Handler /\ HoldsRead(z)
          /\ UpdateBalance(z, AsInt4(Msat[z]))
          /\ AsInt4(Msat[z]) \in Int
          /\ Msat[z] \in Nat /\ Int4Max \in Nat
      BY <1>1, <2>2, HandlerFacts, Int4IsInt, LedgerAssumption
      DEF MarkCommit, HoldsRead
    <3>4. Accounts!LeavesAny(z)
      BY <1>3, <3>3
    <3>5. ASSUME Owner[z] \notin overlapped, Msat[z] <= Int4Max
          PROVE  Accounts!Leaves(z, Accounts!Deposit(Owner[z], Msat[z]))
      <4>1. /\ seen[z] = balance[Owner[z]] /\ AsInt4(Msat[z]) = Msat[z]
            /\ seen[z] \in 0 .. Int4Max /\ Msat[z] \in 0 .. Int4Max
        BY <1>2, <3>3, <3>5
      <4>2. SatAdd(seen[z], Msat[z]) = IF seen[z] + Msat[z] > Int4Max
                                       THEN Int4Max ELSE seen[z] + Msat[z]
        BY <4>1, SatAddDeposit
      <4>3. SatAdd(seen[z], AsInt4(Msat[z])) = Accounts!Deposit(Owner[z], Msat[z])
        BY <4>1, <4>2 DEF Accounts!Deposit
      <4> QED
        BY <3>3, <4>3 DEF UpdateBalance, Accounts!Leaves
    <3>6. Accounts!Credit(z)
      BY <2>2, <3>1, <3>2, <3>3, <3>4, <3>5 DEF MarkCommit, Accounts!Credit
    <3> QED
      BY <3>6 DEF Accounts!Next
  <2>3. CASE CreateZap(z)
    <3>1. row[z] = "none"
      BY <2>3 DEF CreateZap, ZapProgress
    <3>2. Credited' = Credited
      BY <2>3, <3>1 DEF CreateZap, TypeOK
    <3> QED
      BY <2>3, <3>2 DEF CreateZap, Accounts!vars
  <2>4. CASE AddInvoice(z) \/ CheckAccount(z) \/ CreateZapFails(z) \/ Settle(z)
             \/ Deliver(z) \/ MarkReject(z)
    BY <1>4, <2>4
    DEF AddInvoice, CheckAccount, CreateZapFails, Settle, Deliver, MarkReject
  <2>5. CASE MarkRead(z)
    BY <1>1, <1>5, <2>5 DEF MarkRead
  <2> QED
    BY <1>6, <2>1, <2>2, <2>3, <2>4, <2>5 DEF ZapStep
<1>7. ASSUME NEW d \in Delivery, JobStep(d) PROVE [Accounts!Next]_(Accounts!vars)
  <2>1. CASE JobRead(d)
    BY <1>1, <1>4, <1>5, <2>1 DEF JobRead
  <2>2. CASE JobCharge(d)
    <3>1. d \notin charged /\ seen[d] >= Msat[d]
      BY <2>2 DEF JobCharge, JobProgress
    <3>2. /\ d \in Handler /\ HoldsRead(d)
          /\ UpdateBalance(d, -AsInt4(Msat[d]))
          /\ -AsInt4(Msat[d]) \in Int
          /\ Msat[d] \in Nat
      BY <1>1, <2>2, HandlerFacts DEF JobCharge, HoldsRead
    <3>3. Accounts!LeavesAny(d)
      BY <1>3, <3>2
    <3>4. Msat[d] <= Int4Max
      <4>1. seen[d] \in Int4
        BY <3>2 DEF TypeOK
      <4> QED
        BY <3>1, <3>2, <4>1, LedgerAssumption DEF Int4
    <3>5. ASSUME Owner[d] \notin overlapped
          PROVE  /\ balance[Owner[d]] >= Msat[d]
                 /\ Accounts!Leaves(d, balance[Owner[d]] - Msat[d])
      <4>1. /\ seen[d] = balance[Owner[d]] /\ AsInt4(Msat[d]) = Msat[d]
            /\ seen[d] \in 0 .. Int4Max /\ Msat[d] \in 0 .. Int4Max
        BY <1>2, <3>2, <3>4, <3>5
      <4>2. SatAdd(seen[d], -AsInt4(Msat[d])) = balance[Owner[d]] - Msat[d]
        BY <3>1, <4>1, SatAddCharge
      <4> QED
        BY <3>1, <3>2, <4>1, <4>2 DEF UpdateBalance, Accounts!Leaves
    <3>6. Accounts!Charge(d)
      BY <2>2, <3>1, <3>3, <3>5 DEF JobCharge, Accounts!Charge
    <3> QED
      BY <3>6 DEF Accounts!Next
  <2> QED
    BY <1>7, <2>1, <2>2 DEF JobStep
<1>8. ASSUME \/ \E h \in Handler : Fail(h)
             \/ StreamEnds \/ Subscribe \/ StreamPanics \/ Crash
             \/ UNCHANGED vars
      PROVE  [Accounts!Next]_(Accounts!vars)
  BY <1>4, <1>8 DEF Fail, StreamEnds, Subscribe, StreamPanics, Crash, vars
<1> QED
  BY <1>6, <1>7, <1>8 DEF Next

\* The endpoint, the subscription and the listener together implement the
\* accounts of PrepaidAccounts, whatever the amounts and however their spans
\* overlap: what an overlap or an amount that does not fit can spoil is the
\* balance of that key, and nothing else.
THEOREM AccountsAreImplemented == Spec => ImplementsAccounts
<1>1. Init => TypeOK /\ NoOverdraft /\ QuietInv /\ ProgressInv
  BY TypeInit, QuietInit, ProgressInit DEF Init, NoOverdraft
<1> QED
  BY <1>1, TypeStep, OverdraftStep, QuietStep, ProgressStep, AccountsInit,
     AccountsStep, PTL DEF Spec, ImplementsAccounts, Accounts!Spec

-----------------------------------------------------------------------------
(* No balance without payment.  Alone, the bound is not inductive: a task   *)
(* writes what it read earlier, so what it read must be paid for as well.   *)

Noted(n) == {z \in Zap : row[z] = "noted" /\ Owner[z] = n}
PaidIn(n) == SumOf(Msat, Noted(n))

CreditInv ==
    /\ \A n \in Npub : IsFiniteSet(Noted(n)) /\ balance[n] <= PaidIn(n)
    /\ \A h \in Handler : HoldsRead(h) => seen[h] <= PaidIn(Owner[h])

\* A wrapped amount is never more than the amount.
LEMMA AsInt4Less == ASSUME NEW n \in Nat PROVE AsInt4(n) <= n
<1> DEFINE w == 2 * (Int4Max + 1)
           x == n + Int4Max + 1
<1>1. w \in Nat \ {0} /\ x \in Nat
  BY LedgerAssumption
<1> HIDE DEF w, x
<1>2. x % w <= x
  BY <1>1
<1> QED
  BY <1>1, <1>2, LedgerAssumption DEF AsInt4, w, x

\* An update that is not refused never leaves more than the sum.
LEMMA UpdateLeaves ==
    ASSUME TypeOK, NEW h \in Handler, NEW amount \in Int,
           UpdateBalance(h, amount)
    PROVE  /\ balance'[Owner[h]] <= seen[h] + amount
           /\ \A n \in Npub \ {Owner[h]} : balance'[n] = balance[n]
<1>1. seen[h] \in Int /\ Owner[h] \in Npub
  BY HandlerFacts, Int4IsInt DEF TypeOK
<1>2. SatAdd(seen[h], amount) <= seen[h] + amount
  BY <1>1, LedgerAssumption DEF UpdateBalance, SatAdd
<1> QED
  BY <1>1, <1>2 DEF UpdateBalance, TypeOK

LEMMA PaidInType ==
    ASSUME NEW n \in Npub, IsFiniteSet(Noted(n)) PROVE PaidIn(n) \in Nat
<1>1. \A z \in Noted(n) : Msat[z] \in Nat
  BY HandlerFacts DEF Noted, Handler
<1> HIDE DEF Noted
<1> QED
  BY <1>1, SumType DEF PaidIn

\* Marking a zap as paid adds its amount to what its key brought in.
LEMMA PaidInGrows ==
    ASSUME TypeOK, CreditInv, NEW z \in Zap, row[z] = "open",
           row' = [row EXCEPT ![z] = "noted"]
    PROVE  /\ IsFiniteSet(Noted(Owner[z])')
           /\ PaidIn(Owner[z])' = PaidIn(Owner[z]) + Msat[z]
           /\ \A n \in Npub \ {Owner[z]} : Noted(n)' = Noted(n)
<1> DEFINE n == Owner[z]
           N == Noted(n)
<1>1. n \in Npub /\ IsFiniteSet(N) /\ z \notin N
  BY HandlerFacts DEF Handler, CreditInv, Noted
<1>2. Noted(n)' = N \cup {z}
  BY DEF TypeOK, Noted
<1>3. \A y \in N \cup {z} : Msat[y] \in Nat
  BY HandlerFacts DEF Noted, Handler
<1>4. \A k \in Npub \ {n} : Noted(k)' = Noted(k)
  BY DEF TypeOK, Noted
<1>5. PaidIn(n)' = SumOf(Msat, N \cup {z})
  BY <1>2 DEF PaidIn
<1> HIDE DEF N
<1>6. IsFiniteSet(N \cup {z})
  BY <1>1, FS_AddElement
<1>7. SumOf(Msat, N \cup {z}) = SumOf(Msat, N) + Msat[z]
  BY <1>1, <1>3, SumAdd
<1> QED
  BY <1>2, <1>4, <1>5, <1>6, <1>7 DEF PaidIn, N

LEMMA CreditInit == Init => CreditInv
<1> SUFFICES ASSUME Init PROVE CreditInv
  OBVIOUS
<1>1. \A n \in Npub : Noted(n) = {} /\ balance[n] = 0
  BY DEF Init, Noted
<1>2. \A n \in Npub : PaidIn(n) = 0
  BY <1>1, SumEmpty DEF PaidIn
<1>3. \A h \in Handler : ~HoldsRead(h)
  BY DEF Init, HoldsRead
<1> QED
  BY <1>1, <1>2, <1>3, FS_EmptySet DEF CreditInv

\* A step that marks no zap, writes no balance and opens no span.
LEMMA CreditFrame ==
    ASSUME CreditInv, UNCHANGED <<balance, seen>>,
           \A n \in Npub : Noted(n)' = Noted(n),
           \A h \in Handler : HoldsRead(h)' => HoldsRead(h)
    PROVE  CreditInv'
<1>1. \A n \in Npub : PaidIn(n)' = PaidIn(n)
  BY DEF PaidIn
<1>2. \A h \in Handler : Owner[h] \in Npub
  BY HandlerFacts
<1> QED
  BY <1>1, <1>2 DEF CreditInv

\* What a task reads is paid for.
LEMMA CreditRead ==
    ASSUME TypeOK, CreditInv, NEW h \in Handler, ReadBalance(h), NEW label,
           Goto(h, label), UNCHANGED <<balance, row>>
    PROVE  CreditInv'
<1>1. \A g \in Handler \ {h} :
         (HoldsRead(g)' <=> HoldsRead(g)) /\ seen'[g] = seen[g]
  BY DEF TypeOK, ReadBalance, Goto, HoldsRead
<1>2. seen'[h] = balance[Owner[h]] /\ \A g \in Handler : Owner[g] \in Npub
  BY HandlerFacts DEF TypeOK, ReadBalance
<1>3. \A n \in Npub : Noted(n)' = Noted(n) /\ PaidIn(n)' = PaidIn(n)
  BY DEF Noted, PaidIn
<1> QED
  BY <1>1, <1>2, <1>3 DEF CreditInv

\* The credit of a zap leaves at most what was read and the amount noted.
LEMMA CreditMark ==
    ASSUME TypeOK, ProgressInv, CreditInv, NEW z \in Zap, MarkCommit(z)
    PROVE  CreditInv'
<1> DEFINE n == Owner[z]
<1>1. /\ z \in Handler /\ HoldsRead(z) /\ n \in Npub /\ row[z] = "open"
      /\ AsInt4(Msat[z]) \in Int /\ Msat[z] \in Nat /\ seen[z] \in Int
  BY HandlerFacts, Int4IsInt
  DEF Handler, MarkCommit, HoldsRead, ProgressInv, ZapProgress, TypeOK
<1>2. /\ IsFiniteSet(Noted(n)') /\ PaidIn(n)' = PaidIn(n) + Msat[z]
      /\ \A k \in Npub \ {n} : Noted(k)' = Noted(k)
  BY <1>1, PaidInGrows DEF MarkCommit
<1>3. \A k \in Npub : PaidIn(k) \in Nat
  BY PaidInType DEF CreditInv
<1>4. \A k \in Npub \ {n} : PaidIn(k)' = PaidIn(k)
  BY <1>2 DEF PaidIn
<1>5. /\ balance'[n] <= seen[z] + AsInt4(Msat[z])
      /\ \A k \in Npub \ {n} : balance'[k] = balance[k]
  BY <1>1, UpdateLeaves DEF MarkCommit
<1>6. seen[z] <= PaidIn(n) /\ AsInt4(Msat[z]) <= Msat[z]
  BY <1>1, AsInt4Less DEF CreditInv
<1>7. balance'[n] \in Int
  BY <1>1, UpdateKeepsTypes, Int4IsInt DEF MarkCommit
<1>8. balance'[n] <= PaidIn(n)'
  <2> HIDE DEF n
  <2> QED
    BY <1>1, <1>2, <1>3, <1>5, <1>6, <1>7
<1>9. /\ seen' = seen
      /\ \A h \in Handler : HoldsRead(h)' => HoldsRead(h)
  BY <1>1 DEF MarkCommit, Goto, HoldsRead, TypeOK
<1>10. ASSUME NEW h \in Handler, HoldsRead(h)' PROVE seen'[h] <= PaidIn(Owner[h])'
  <2>1. seen'[h] <= PaidIn(Owner[h]) /\ Owner[h] \in Npub /\ seen'[h] \in Int
    BY <1>9, <1>10, HandlerFacts, Int4IsInt DEF CreditInv, TypeOK
  <2> HIDE DEF n
  <2> QED
    BY <1>1, <1>2, <1>3, <1>4, <2>1
<1> QED
  BY <1>2, <1>4, <1>5, <1>8, <1>10 DEF CreditInv

\* A charge takes something off: it is only made when the price was covered.
LEMMA CreditCharge ==
    ASSUME TypeOK, ProgressInv, CreditInv, NEW d \in Delivery, JobCharge(d)
    PROVE  CreditInv'
<1> DEFINE n == Owner[d]
<1>1. /\ d \in Handler /\ HoldsRead(d) /\ n \in Npub
      /\ Msat[d] \in Nat /\ seen[d] \in Int4 /\ seen[d] >= Msat[d]
  BY HandlerFacts
  DEF Handler, JobCharge, HoldsRead, ProgressInv, JobProgress, TypeOK
<1>2. AsInt4(Msat[d]) = Msat[d]
  <2>1. Msat[d] \in 0 .. Int4Max
    BY <1>1, LedgerAssumption DEF Int4
  <2> QED
    BY <2>1, AsInt4Fits
<1>3. -AsInt4(Msat[d]) \in Int
  BY <1>1, <1>2
<1>4. /\ balance'[n] <= seen[d] + (-AsInt4(Msat[d]))
      /\ \A k \in Npub \ {n} : balance'[k] = balance[k]
  BY <1>1, <1>3, UpdateLeaves DEF JobCharge
<1>5. \A k \in Npub : Noted(k)' = Noted(k) /\ PaidIn(k)' = PaidIn(k)
  BY DEF JobCharge, Noted, PaidIn
<1>6. seen[d] <= PaidIn(n) /\ PaidIn(n) \in Nat /\ seen[d] \in Int
  BY <1>1, PaidInType, Int4IsInt DEF CreditInv
<1>7. balance'[n] \in Int
  BY <1>1, <1>3, UpdateKeepsTypes, Int4IsInt DEF JobCharge
<1>8. balance'[n] <= PaidIn(n)'
  <2>1. PaidIn(n)' = PaidIn(n)
    BY <1>1, <1>5
  <2> HIDE DEF n
  <2> QED
    BY <1>1, <1>2, <1>4, <1>6, <1>7, <2>1
<1>9. /\ seen' = seen
      /\ \A h \in Handler : HoldsRead(h)' => HoldsRead(h)
  BY <1>1 DEF JobCharge, Goto, HoldsRead, TypeOK
<1> QED
  BY <1>4, <1>5, <1>8, <1>9, HandlerFacts DEF CreditInv

LEMMA CreditStep ==
    TypeOK /\ ProgressInv /\ CreditInv /\ [Next]_vars => CreditInv'
<1> SUFFICES ASSUME TypeOK, ProgressInv, CreditInv, [Next]_vars
             PROVE  CreditInv'
  OBVIOUS
<1>1. ASSUME NEW z \in Zap, ZapStep(z) PROVE CreditInv'
  <2> z \in Handler
    BY DEF Handler
  <2>1. CASE MarkRead(z)
    BY <2>1, CreditRead DEF MarkRead
  <2>2. CASE MarkCommit(z)
    BY <2>2, CreditMark
  <2>3. CASE CreateZap(z)
    <3>1. row[z] = "none" /\ row' = [row EXCEPT ![z] = "open"]
      BY <2>3 DEF CreateZap, ProgressInv, ZapProgress
    <3>2. \A n \in Npub : Noted(n)' = Noted(n)
      BY <3>1 DEF TypeOK, Noted
    <3> QED
      BY <2>3, <3>2, CreditFrame DEF CreateZap, HoldsRead
  <2>4. CASE MarkReject(z) \/ SendReceipt(z) \/ Deliver(z) \/ Settle(z)
    BY <2>4, CreditFrame
    DEF TypeOK, MarkReject, SendReceipt, Deliver, Settle, Goto, HoldsRead, Noted
  <2>5. CASE AddInvoice(z) \/ CheckAccount(z) \/ CreateZapFails(z)
    BY <2>5, CreditFrame
    DEF AddInvoice, CheckAccount, CreateZapFails, HoldsRead, Noted
  <2> QED
    BY <1>1, <2>1, <2>2, <2>3, <2>4, <2>5 DEF ZapStep
<1>2. ASSUME NEW d \in Delivery, JobStep(d) PROVE CreditInv'
  <2> d \in Handler
    BY DEF Handler
  <2>1. CASE JobRead(d) /\ ReadBalance(d) /\ Goto(d, "paying")
    BY <2>1, CreditRead DEF JobRead
  <2>2. CASE JobRead(d) /\ Goto(d, "invoiced") /\ UNCHANGED <<seen, overlapped>>
    BY <2>2, CreditFrame DEF TypeOK, JobRead, Goto, HoldsRead, Noted
  <2>3. CASE JobCharge(d)
    BY <2>3, CreditCharge
  <2> QED
    BY <1>2, <2>1, <2>2, <2>3 DEF JobStep, JobRead
<1>3. ASSUME NEW h \in Handler, Fail(h) PROVE CreditInv'
  BY <1>3, CreditFrame DEF TypeOK, Fail, Goto, HoldsRead, Noted
<1>4. CASE StreamEnds \/ StreamPanics \/ Crash
  BY <1>4, CreditFrame
  DEF TypeOK, StreamEnds, StreamPanics, Crash, LoseQueue, InFlight, HoldsRead,
      Noted
<1>5. CASE Subscribe \/ UNCHANGED vars
  BY <1>5, CreditFrame DEF Subscribe, vars, HoldsRead, Noted
<1> QED
  BY <1>1, <1>2, <1>3, <1>4, <1>5 DEF Next

\* A balance never exceeds the sum of the amounts of the zaps that are marked
\* as paid: a stale read, a clipped addition, a wrapped amount or a task that
\* stops halfway can lose money of a key but never make any (mark_zap_paid,
\* update_balance, handle_event).
THEOREM CreditIsPaidFor == Spec => []NoPhantomCredit
<1>1. CreditInv => NoPhantomCredit
  BY DEF CreditInv, PaidIn, SumOf, Noted, NoPhantomCredit
<1>2. Init => TypeOK /\ NoOverdraft /\ ProgressInv /\ CreditInv
  BY TypeInit, ProgressInit, CreditInit DEF Init, NoOverdraft
<1> QED
  BY <1>1, <1>2, TypeStep, OverdraftStep, ProgressStep, CreditStep, PTL DEF Spec

-----------------------------------------------------------------------------
(* Spent and left together.  On a quiet key the only span holds the current *)
(* balance (SeenIsCurrent), so what a write takes off or adds is exactly    *)
(* the price or at most the amount.                                         *)

Spent(n) == {d \in charged : Owner[d] = n}
SpentBy(n) == SumOf(Msat, Spent(n))

SpentInv ==
    \A n \in Npub :
        /\ IsFiniteSet(Spent(n))
        /\ n \notin overlapped => balance[n] + SpentBy(n) <= PaidIn(n)

LEMMA SpentByType ==
    ASSUME TypeOK, NEW n \in Npub, IsFiniteSet(Spent(n)) PROVE SpentBy(n) \in Nat
<1>1. \A d \in Spent(n) : Msat[d] \in Nat
  BY HandlerFacts DEF TypeOK, Spent, Handler
<1> HIDE DEF Spent
<1> QED
  BY <1>1, SumType DEF SpentBy

LEMMA SpentInit == Init => SpentInv
<1> SUFFICES ASSUME Init PROVE SpentInv
  OBVIOUS
<1>1. \A n \in Npub : Spent(n) = {} /\ Noted(n) = {} /\ balance[n] = 0
  BY DEF Init, Spent, Noted
<1>2. \A n \in Npub : SpentBy(n) = 0 /\ PaidIn(n) = 0
  BY <1>1, SumEmpty DEF SpentBy, PaidIn
<1> QED
  BY <1>1, <1>2, FS_EmptySet DEF SpentInv

\* A step that writes no balance, marks no zap and charges nothing.
LEMMA SpentFrame ==
    ASSUME SpentInv, UNCHANGED <<balance, charged>>,
           overlapped \subseteq overlapped',
           \A n \in Npub : Noted(n)' = Noted(n)
    PROVE  SpentInv'
<1>1. \A n \in Npub : /\ Spent(n)' = Spent(n) /\ SpentBy(n)' = SpentBy(n)
                      /\ PaidIn(n)' = PaidIn(n)
  BY DEF Spent, SpentBy, PaidIn
<1> QED
  BY <1>1 DEF SpentInv

\* A credit adds at most the amount to the balance, and the amount to what was
\* paid.
LEMMA SpentMark ==
    ASSUME TypeOK, QuietInv, ProgressInv, CreditInv, SpentInv,
           NEW z \in Zap, MarkCommit(z)
    PROVE  SpentInv'
<1>1. /\ z \in Handler /\ HoldsRead(z) /\ Owner[z] \in Npub /\ row[z] = "open"
      /\ AsInt4(Msat[z]) \in Int /\ Msat[z] \in Nat /\ seen[z] \in Int
  BY HandlerFacts, Int4IsInt
  DEF Handler, MarkCommit, HoldsRead, ProgressInv, ZapProgress, TypeOK
<1> PICK n \in Npub : n = Owner[z]
  BY <1>1
<1>2. /\ PaidIn(n)' = PaidIn(n) + Msat[z]
      /\ \A k \in Npub \ {n} : PaidIn(k)' = PaidIn(k)
  BY <1>1, PaidInGrows DEF MarkCommit, PaidIn
<1>3. \A k \in Npub : Spent(k)' = Spent(k) /\ SpentBy(k)' = SpentBy(k)
  BY DEF MarkCommit, Spent, SpentBy
<1>4. overlapped' = overlapped /\ \A k \in Npub \ {n} : balance'[k] = balance[k]
  BY <1>1, UpdateLeaves DEF MarkCommit
<1>5. ASSUME n \notin overlapped
      PROVE  balance'[n] + SpentBy(n)' <= PaidIn(n)'
  <2>1. balance'[n] <= seen[z] + AsInt4(Msat[z]) /\ AsInt4(Msat[z]) <= Msat[z]
    BY <1>1, UpdateLeaves, AsInt4Less DEF MarkCommit
  <2>2. seen[z] = balance[n] /\ balance[n] + SpentBy(n) <= PaidIn(n)
    BY <1>1, <1>5 DEF QuietInv, SeenIsCurrent, Quiet, SpentInv
  <2>3. PaidIn(n) \in Nat /\ SpentBy(n) \in Nat
    BY PaidInType, SpentByType DEF CreditInv, SpentInv
  <2>4. balance'[n] \in Int
    BY <1>1, UpdateKeepsTypes, Int4IsInt DEF MarkCommit
  <2>5. SpentBy(n)' = SpentBy(n)
    BY <1>3
  <2> QED
    BY <1>1, <1>2, <2>1, <2>2, <2>3, <2>4, <2>5
<1> QED
  BY <1>2, <1>3, <1>4, <1>5 DEF SpentInv

\* A charge takes off exactly the price.
LEMMA SpentCharge ==
    ASSUME TypeOK, QuietInv, ProgressInv, CreditInv, SpentInv,
           NEW d \in Delivery, JobCharge(d)
    PROVE  SpentInv'
<1>1. /\ d \in Handler /\ HoldsRead(d) /\ Owner[d] \in Npub
      /\ Msat[d] \in Nat /\ seen[d] \in Int4 /\ seen[d] >= Msat[d]
      /\ d \notin charged /\ charged' = charged \cup {d}
  BY HandlerFacts
  DEF Handler, JobCharge, HoldsRead, ProgressInv, JobProgress, TypeOK
<1> PICK n \in Npub : n = Owner[d]
  BY <1>1
<1>2. AsInt4(Msat[d]) = Msat[d] /\ -AsInt4(Msat[d]) \in Int
  <2>1. Msat[d] \in 0 .. Int4Max
    BY <1>1, LedgerAssumption DEF Int4
  <2> QED
    BY <1>1, <2>1, AsInt4Fits
<1>3. Spent(n)' = Spent(n) \cup {d} /\ d \notin Spent(n)
  BY <1>1 DEF Spent
<1>4. /\ IsFiniteSet(Spent(n)') /\ SpentBy(n)' = SpentBy(n) + Msat[d]
  <2>1. IsFiniteSet(Spent(n))
    BY DEF SpentInv
  <2>2. \A q \in Spent(n) \cup {d} : Msat[q] \in Nat
    BY <1>1, HandlerFacts DEF TypeOK, Spent, Handler
  <2>3. SpentBy(n)' = SumOf(Msat, Spent(n) \cup {d})
    BY <1>3 DEF SpentBy
  <2> HIDE DEF Spent
  <2>4. SumOf(Msat, Spent(n) \cup {d}) = SumOf(Msat, Spent(n)) + Msat[d]
    BY <1>3, <2>1, <2>2, SumAdd
  <2> QED
    BY <1>3, <2>1, <2>3, <2>4, FS_AddElement DEF SpentBy
<1>5. \A k \in Npub \ {n} : Spent(k)' = Spent(k) /\ SpentBy(k)' = SpentBy(k)
  BY <1>1 DEF Spent, SpentBy
<1>6. \A k \in Npub : PaidIn(k)' = PaidIn(k)
  BY DEF JobCharge, Noted, PaidIn
<1>7. overlapped' = overlapped /\ \A k \in Npub \ {n} : balance'[k] = balance[k]
  BY <1>1, <1>2, UpdateLeaves DEF JobCharge
<1>8. ASSUME n \notin overlapped
      PROVE  balance'[n] + SpentBy(n)' <= PaidIn(n)'
  <2>1. balance'[n] <= seen[d] + (-AsInt4(Msat[d]))
    BY <1>1, <1>2, UpdateLeaves DEF JobCharge
  <2>2. seen[d] = balance[n] /\ balance[n] + SpentBy(n) <= PaidIn(n)
    BY <1>1, <1>8 DEF QuietInv, SeenIsCurrent, Quiet, SpentInv
  <2>3. PaidIn(n) \in Nat /\ SpentBy(n) \in Nat
    BY PaidInType, SpentByType DEF CreditInv, SpentInv
  <2>4. balance'[n] \in Int /\ seen[d] \in Int
    BY <1>1, <1>2, UpdateKeepsTypes, Int4IsInt DEF JobCharge
  <2>5. PaidIn(n)' = PaidIn(n)
    BY <1>6
  <2> QED
    BY <1>1, <1>2, <1>4, <2>1, <2>2, <2>3, <2>4, <2>5
<1> QED
  BY <1>4, <1>5, <1>6, <1>7, <1>8 DEF SpentInv

LEMMA SpentStep ==
    TypeOK /\ QuietInv /\ ProgressInv /\ CreditInv /\ SpentInv /\ [Next]_vars
      => SpentInv'
<1> SUFFICES ASSUME TypeOK, QuietInv, ProgressInv, CreditInv, SpentInv,
                    [Next]_vars
             PROVE  SpentInv'
  OBVIOUS
<1>1. ASSUME NEW z \in Zap, ZapStep(z) PROVE SpentInv'
  <2>1. CASE MarkRead(z)
    BY <2>1, SpentFrame DEF MarkRead, ReadBalance, Noted
  <2>2. CASE MarkCommit(z)
    BY <2>2, SpentMark
  <2>3. CASE CreateZap(z)
    <3>1. row[z] = "none" /\ row' = [row EXCEPT ![z] = "open"]
      BY <2>3 DEF CreateZap, ProgressInv, ZapProgress
    <3>2. \A n \in Npub : Noted(n)' = Noted(n)
      BY <3>1 DEF TypeOK, Noted
    <3> QED
      BY <2>3, <3>2, SpentFrame DEF CreateZap
  <2>4. CASE MarkReject(z) \/ SendReceipt(z) \/ Deliver(z) \/ Settle(z)
    BY <2>4, SpentFrame DEF MarkReject, SendReceipt, Deliver, Settle, Noted
  <2>5. CASE AddInvoice(z) \/ CheckAccount(z) \/ CreateZapFails(z)
    BY <2>5, SpentFrame DEF AddInvoice, CheckAccount, CreateZapFails, Noted
  <2> QED
    BY <1>1, <2>1, <2>2, <2>3, <2>4, <2>5 DEF ZapStep
<1>2. ASSUME NEW d \in Delivery, JobStep(d) PROVE SpentInv'
  <2>1. CASE JobRead(d)
    BY <2>1, SpentFrame DEF JobRead, ReadBalance, Noted
  <2>2. CASE JobCharge(d)
    BY <2>2, SpentCharge
  <2> QED
    BY <1>2, <2>1, <2>2 DEF JobStep
<1>3. CASE \/ \E h \in Handler : Fail(h)
           \/ StreamEnds \/ StreamPanics \/ Crash \/ Subscribe \/ UNCHANGED vars
  BY <1>3, SpentFrame
  DEF Fail, StreamEnds, StreamPanics, Crash, Subscribe, vars, Noted
<1> QED
  BY <1>1, <1>2, <1>3 DEF Next

\* As long as no two read-to-write spans of a key met, its jobs and what is
\* left of its balance were paid for together, for any number of zaps and
\* deliveries and any amounts: the double spending of handle_event needs an
\* overlap.
THEOREM QuietIsSolvent == Spec => []QuietAccountSolvent
<1>1. SpentInv => QuietAccountSolvent
  BY DEF SpentInv, SpentBy, Spent, PaidIn, SumOf, Noted, QuietAccountSolvent
<1>2. Init => /\ TypeOK /\ NoOverdraft /\ QuietInv /\ ProgressInv /\ CreditInv
              /\ SpentInv
  BY TypeInit, QuietInit, ProgressInit, CreditInit, SpentInit
  DEF Init, NoOverdraft
<1> QED
  BY <1>1, <1>2, TypeStep, OverdraftStep, QuietStep, ProgressStep, CreditStep,
     SpentStep, PTL DEF Spec

=============================================================================
