------------------------------ MODULE ZapLedger ------------------------------
(***************************************************************************)
(* The prepaid balances of the DVM: rows of the tables zaps and            *)
(* zap_balances, written by three kinds of concurrent tasks.               *)
(*                                                                         *)
(*   - the LNURL endpoint (routes.rs) creates an LND invoice and, when the *)
(*     payer sent a zap request, the zap row (models/mod.rs create_zap);   *)
(*   - the invoice subscription (invoice_subscriber.rs) spawns one task    *)
(*     per settled invoice, which publishes the zap receipt and credits    *)
(*     the balance (models/mod.rs mark_zap_paid);                          *)
(*   - one task per delivery of a job request (job_listener.rs             *)
(*     handle_event) compares the balance with the price and deducts it.   *)
(*     Nothing notes which request was charged: one that is delivered      *)
(*     again, after the listener subscribed anew or the process restarted, *)
(*     is charged again.                                                   *)
(*                                                                         *)
(* A balance is read in one statement and overwritten with an absolute     *)
(* value in a later one, so the read and the write are separate actions.   *)
(* The database runs at READ COMMITTED: an UPDATE waits for a concurrent   *)
(* one and then overwrites it, so only the order of the commits matters.   *)
(***************************************************************************)
EXTENDS Integers, FiniteSets, FiniteSetsExt

CONSTANTS
    Npub,      \* nostr public keys that own a balance
    Zap,       \* LNURL invoices, by payment hash
    Delivery,  \* deliveries of job requests (kind 5600 events)
    Owner,     \* [Zap \cup Delivery -> Npub]: the key credited or charged
    Msat,      \* [Zap \cup Delivery -> Nat]: invoice amount or price of the job
    Int4Max    \* largest value of a Postgres INTEGER and of an i32

Handler == Zap \cup Delivery

ASSUME LedgerAssumption ==
    /\ Zap \cap Delivery = {}
    /\ Owner \in [Handler -> Npub]
    /\ Msat \in [Handler -> Nat]
    /\ Int4Max \in Nat

VARIABLES
    account,    \* keys that have a row in zap_balances
    balance,    \* [Npub -> Int]: zap_balances.balance_msats (0 before the row)
    row,        \* [Zap -> ...]: the row of zaps; "noted" once note_id is set
    invoice,    \* [Zap -> ...]: the invoice at LND
    http,       \* [Zap -> ...]: where the get_invoice call is
    stream,     \* the invoice subscription
    pc,         \* [Handler -> ...]: where the spawned task is
    seen,       \* [Handler -> Int]: the balance the task read
    receipts,   \* zaps whose receipt event is published
    charged,    \* deliveries that deducted the price of their request
    ledger,     \* history: the balance had every operation been atomic
    overlapped  \* history: keys on which two read-to-write spans met

vars == <<account, balance, row, invoice, http, stream, pc, seen, receipts,
          charged, ledger, overlapped>>

-----------------------------------------------------------------------------
(* Integer conversions: `as i32`, saturating_add and `as u64`.              *)

AsInt4(n) == ((n + Int4Max + 1) % (2 * (Int4Max + 1))) - (Int4Max + 1)

\* Variant: a plain addition.
PlainAdd(a, b) == a + b

SatAdd(a, b) ==
    IF a + b > Int4Max THEN Int4Max
    ELSE IF a + b < -(Int4Max + 1) THEN -(Int4Max + 1)
    ELSE a + b

\* A negative i32 cast to u64 exceeds every price.
Covers(b, price) == b < 0 \/ b >= price

-----------------------------------------------------------------------------
(* Reading a balance and overwriting it later.                              *)

HoldsRead(h) == pc[h] \in {"marking", "paying"}

ReadBalance(h) ==
    /\ seen' = [seen EXCEPT ![h] = balance[Owner[h]]]
    /\ overlapped' =
         IF \E g \in Handler : HoldsRead(g) /\ Owner[g] = Owner[h]
         THEN overlapped \cup {Owner[h]} ELSE overlapped

\* Variants: the test of the new balance is gone; the balance read is ignored.
UncheckedUpdate(h, amount) ==
    /\ balance' = [balance EXCEPT ![Owner[h]] = SatAdd(seen[h], amount)]
    /\ ledger' = [ledger EXCEPT ![Owner[h]] = SatAdd(@, amount)]

OverwritingUpdate(h, amount) ==
    /\ SatAdd(seen[h], amount) >= 0
    /\ balance' = [balance EXCEPT ![Owner[h]] = SatAdd(0, amount)]
    /\ ledger' = [ledger EXCEPT ![Owner[h]] = SatAdd(@, amount)]

\* ZapBalance::update_balance, when it does not bail.
UpdateBalance(h, amount) ==
    /\ SatAdd(seen[h], amount) >= 0
    /\ balance' = [balance EXCEPT ![Owner[h]] = SatAdd(seen[h], amount)]
    /\ ledger' = [ledger EXCEPT ![Owner[h]] = SatAdd(@, amount)]

Goto(h, label) == pc' = [pc EXCEPT ![h] = label]

-----------------------------------------------------------------------------
(* GET /get-invoice: routes.rs get_invoice_impl and models create_zap.      *)

AddInvoice(z) ==
    /\ http[z] = "idle"
    /\ \E withRequest \in BOOLEAN :
         http' = [http EXCEPT ![z] = IF withRequest THEN "added" ELSE "plain"]
    /\ invoice' = [invoice EXCEPT ![z] = "open"]
    /\ UNCHANGED <<account, balance, row, stream, pc, seen, receipts, charged,
                   ledger, overlapped>>

\* First statement of the create_zap transaction: does the key have a row?
CheckAccount(z) ==
    /\ http[z] = "added"
    /\ http' = [http EXCEPT ![z] =
                  IF Owner[z] \in account THEN "hasRow" ELSE "noRow"]
    /\ UNCHANGED <<account, balance, row, invoice, stream, pc, seen, receipts,
                   charged, ledger, overlapped>>

\* The transaction inserts what is missing and commits.  An insert of a key
\* that another call inserted since CheckAccount violates the primary key,
\* and Zap::create panics on an invoice without an amount.
CreateZap(z) ==
    /\ http[z] = "hasRow" \/ (http[z] = "noRow" /\ Owner[z] \notin account)
    /\ Msat[z] > 0
    /\ http' = [http EXCEPT ![z] = "returned"]
    /\ account' = account \cup {Owner[z]}
    /\ row' = [row EXCEPT ![z] = "open"]
    /\ UNCHANGED <<balance, invoice, stream, pc, seen, receipts, charged,
                   ledger, overlapped>>

\* Variant: the error of create_zap is ignored.
CreateZapIgnored(z) ==
    /\ http[z] \in {"added", "hasRow", "noRow"}
    /\ http' = [http EXCEPT ![z] = "returned"]
    /\ UNCHANGED <<account, balance, row, invoice, stream, pc, seen, receipts,
                   charged, ledger, overlapped>>

CreateZapFails(z) ==
    /\ http[z] \in {"added", "hasRow", "noRow"}
    /\ http' = [http EXCEPT ![z] = "failed"]
    /\ UNCHANGED <<account, balance, row, invoice, stream, pc, seen, receipts,
                   charged, ledger, overlapped>>

-----------------------------------------------------------------------------
(* The invoice subscription.  LND pushes a settlement to the subscription   *)
(* that is open at that moment; a new one starts with later settlements.    *)

\* The payer got the invoice from the response, so it pays after "returned".
Settle(z) ==
    /\ invoice[z] = "open"
    /\ http[z] \in {"returned", "plain"}
    /\ invoice' = [invoice EXCEPT ![z] = "settled"]
    /\ Goto(z, IF stream = "open" THEN "queued" ELSE "missed")
    /\ UNCHANGED <<account, balance, row, http, stream, seen, receipts,
                   charged, ledger, overlapped>>

\* Settlements buffered in a subscription that goes away are gone.
LoseQueue == [h \in Handler |-> IF pc[h] = "queued" THEN "missed" ELSE pc[h]]

\* message() returns None: the loop of main.rs subscribes again.
StreamEnds ==
    /\ stream = "open"
    /\ stream' = "closed"
    /\ pc' = LoseQueue
    /\ UNCHANGED <<account, balance, row, invoice, http, seen, receipts,
                   charged, ledger, overlapped>>

Subscribe ==
    /\ stream = "closed"
    /\ stream' = "open"
    /\ UNCHANGED <<account, balance, row, invoice, http, pc, seen, receipts,
                   charged, ledger, overlapped>>

\* Either expect() panics the spawned task, and nothing starts the loop again.
StreamPanics ==
    /\ stream \in {"open", "closed"}
    /\ stream' = "dead"
    /\ pc' = LoseQueue
    /\ UNCHANGED <<account, balance, row, invoice, http, seen, receipts,
                   charged, ledger, overlapped>>

-----------------------------------------------------------------------------
(* The task of a settled invoice that is no job: handle_paid_zap.           *)

\* Variant: the credit comes without, or before, the receipt.
DeliverUnreceipted(z) ==
    /\ stream = "open"
    /\ pc[z] = "queued"
    /\ Goto(z, IF row[z] = "open" THEN "sent" ELSE "done")
    /\ UNCHANGED <<account, balance, row, invoice, http, stream, seen,
                   receipts, charged, ledger, overlapped>>

Deliver(z) ==
    /\ stream = "open"
    /\ pc[z] = "queued"
    /\ Goto(z, IF row[z] = "open" THEN "found" ELSE "done")
    /\ UNCHANGED <<account, balance, row, invoice, http, stream, seen,
                   receipts, charged, ledger, overlapped>>

\* Variant: the task ends with the receipt.
ReceiptOnly(z) ==
    /\ pc[z] = "found"
    /\ receipts' = receipts \cup {z}
    /\ Goto(z, "done")
    /\ UNCHANGED <<account, balance, row, invoice, http, stream, seen, charged,
                   ledger, overlapped>>

SendReceipt(z) ==
    /\ pc[z] = "found"
    /\ receipts' = receipts \cup {z}
    /\ Goto(z, "sent")
    /\ UNCHANGED <<account, balance, row, invoice, http, stream, seen, charged,
                   ledger, overlapped>>

\* mark_zap_paid up to ZapBalance::get; its own write is not visible yet.
MarkRead(z) ==
    /\ pc[z] = "sent"
    /\ ReadBalance(z)
    /\ Goto(z, "marking")
    /\ UNCHANGED <<account, balance, row, invoice, http, stream, receipts,
                   charged, ledger>>

\* Variant: the note_id is not stored.
MarkUnnoted(z) ==
    /\ pc[z] = "marking"
    /\ UpdateBalance(z, AsInt4(Msat[z]))
    /\ Goto(z, "done")
    /\ UNCHANGED <<account, row, invoice, http, stream, seen, receipts, charged,
                   overlapped>>

MarkCommit(z) ==
    /\ pc[z] = "marking"
    /\ UpdateBalance(z, AsInt4(Msat[z]))
    /\ row' = [row EXCEPT ![z] = "noted"]
    /\ Goto(z, "done")
    /\ UNCHANGED <<account, invoice, http, stream, seen, receipts, charged,
                   overlapped>>

\* "Insufficient balance": the transaction rolls back, note_id included.
MarkReject(z) ==
    /\ pc[z] = "marking"
    /\ SatAdd(seen[z], AsInt4(Msat[z])) < 0
    /\ Goto(z, "rejected")
    /\ UNCHANGED <<account, balance, row, invoice, http, stream, seen,
                   receipts, charged, ledger, overlapped>>

-----------------------------------------------------------------------------
(* The task of a delivery: the balance branch of handle_event.              *)

JobRead(d) ==
    /\ pc[d] = "idle"
    /\ IF Owner[d] \in account /\ Covers(balance[Owner[d]], Msat[d])
       THEN ReadBalance(d) /\ Goto(d, "paying")
       ELSE Goto(d, "invoiced") /\ UNCHANGED <<seen, overlapped>>
    /\ UNCHANGED <<account, balance, row, invoice, http, stream, receipts,
                   charged, ledger>>

\* Variant: the balance keeps what it was when the request came.
JobChargeForgotten(d) ==
    /\ pc[d] = "paying"
    /\ UpdateBalance(d, 0)
    /\ charged' = charged \cup {d}
    /\ Goto(d, "done")
    /\ UNCHANGED <<account, row, invoice, http, stream, seen, receipts,
                   overlapped>>

JobCharge(d) ==
    /\ pc[d] = "paying"
    /\ UpdateBalance(d, -AsInt4(Msat[d]))
    /\ charged' = charged \cup {d}
    /\ Goto(d, "done")
    /\ UNCHANGED <<account, row, invoice, http, stream, seen, receipts,
                   overlapped>>

-----------------------------------------------------------------------------
(* Failures.                                                                *)

InFlight(h) == pc[h] \in {"found", "sent", "marking", "paying"}

\* A query or a send returns an error: the task logs it and ends.
Fail(h) ==
    /\ InFlight(h)
    /\ Goto(h, "failed")
    /\ UNCHANGED <<account, balance, row, invoice, http, stream, seen,
                   receipts, charged, ledger, overlapped>>

\* The process dies and is started again; only the database, LND and the
\* relays remember.  LND does not replay the settlements in between.
Crash ==
    /\ stream # "closed" \/ \E h \in Handler : InFlight(h)
    /\ stream' = "closed"
    /\ pc' = [h \in Handler |-> IF InFlight(h) THEN "failed" ELSE LoseQueue[h]]
    /\ http' = [z \in Zap |-> IF http[z] \in {"added", "hasRow", "noRow"}
                              THEN "failed" ELSE http[z]]
    /\ UNCHANGED <<account, balance, row, invoice, seen, receipts, charged,
                   ledger, overlapped>>

-----------------------------------------------------------------------------

Init ==
    /\ account = {}
    /\ balance = [n \in Npub |-> 0]
    /\ row = [z \in Zap |-> "none"]
    /\ invoice = [z \in Zap |-> "none"]
    /\ http = [z \in Zap |-> "idle"]
    /\ stream = "closed"
    /\ pc = [h \in Handler |-> "idle"]
    /\ seen = [h \in Handler |-> 0]
    /\ receipts = {}
    /\ charged = {}
    /\ ledger = [n \in Npub |-> 0]
    /\ overlapped = {}

ZapStep(z) ==
    \/ AddInvoice(z) \/ CheckAccount(z) \/ CreateZap(z) \/ CreateZapFails(z)
    \/ Settle(z) \/ Deliver(z) \/ SendReceipt(z)
    \/ MarkRead(z) \/ MarkCommit(z) \/ MarkReject(z)

JobStep(d) == JobRead(d) \/ JobCharge(d)

Next ==
    \/ \E z \in Zap : ZapStep(z)
    \/ \E d \in Delivery : JobStep(d)
    \/ \E h \in Handler : Fail(h)
    \/ StreamEnds \/ Subscribe \/ StreamPanics \/ Crash

\* Spawned tasks run to their end: the tokio runtime polls a ready task.
Fairness ==
    /\ \A z \in Zap : WF_vars(Deliver(z) \/ SendReceipt(z) \/ MarkRead(z)
                              \/ MarkCommit(z) \/ MarkReject(z))
    /\ \A d \in Delivery : WF_vars(JobCharge(d))

Spec == Init /\ [][Next]_vars
FairSpec == Spec /\ Fairness

-----------------------------------------------------------------------------
(* Properties.                                                              *)

Int4 == -(Int4Max + 1) .. Int4Max

\* The type of every variable.
TypeOK ==
    /\ account \subseteq Npub
    /\ balance \in [Npub -> Int4]
    /\ row \in [Zap -> {"none", "open", "noted"}]
    /\ invoice \in [Zap -> {"none", "open", "settled"}]
    /\ http \in [Zap -> {"idle", "added", "hasRow", "noRow", "returned",
                         "plain", "failed"}]
    /\ stream \in {"open", "closed", "dead"}
    /\ pc \in [Handler -> {"idle", "queued", "missed", "found", "sent",
                           "marking", "paying", "invoiced", "done",
                           "failed", "rejected"}]
    /\ seen \in [Handler -> Int4]
    /\ receipts \subseteq Zap
    /\ charged \subseteq Delivery
    /\ ledger \in [Npub -> Int]
    /\ overlapped \subseteq Npub

\* No stored balance is negative, in spite of stale reads, wrapped amounts and
\* the clipped addition of update_balance (zap_balance.rs).  handle_event
\* relies on it: its `as u64` would let a negative balance pay for anything.
NoOverdraft == \A n \in Npub : balance[n] >= 0

\* An account on which no task ever read the balance between another task's
\* read and write holds exactly what the operations add up to when each of
\* them is atomic: the read and the absolute write of update_balance lose
\* nothing unless two spans overlap.
QuietAccountExact == \A n \in Npub \ overlapped : balance[n] = ledger[n]

\* A balance never exceeds what the zaps marked as paid brought in, whatever
\* updates are lost and however a task stops between receipt and credit.
NoPhantomCredit ==
    \A n \in Npub :
        balance[n] <= MapThenSumSet(LAMBDA z : Msat[z],
                          {z \in Zap : row[z] = "noted" /\ Owner[z] = n})

\* On an account without overlaps, what its jobs cost, each as often as it was
\* delivered and charged, and what is left of it together never exceed what its
\* zaps paid: no update of handle_event or mark_zap_paid brings back money that
\* was spent, as one may where spans overlap.
QuietAccountSolvent ==
    \A n \in Npub \ overlapped :
        balance[n] + MapThenSumSet(LAMBDA d : Msat[d],
                         {d \in charged : Owner[d] = n})
          <= MapThenSumSet(LAMBDA z : Msat[z],
                 {z \in Zap : row[z] = "noted" /\ Owner[z] = n})

\* Whoever paid an invoice with a zap request is in the zaps table, with an
\* account to credit, although two get_invoice calls may create the account
\* of the same key at the same time (create_zap).
PaidZapHasRow ==
    \A z \in Zap : invoice[z] = "settled" /\ http[z] # "plain" =>
        row[z] # "none" /\ Owner[z] \in account

\* A settled zap is credited in the end, unless its settlement fell into a gap
\* of the subscription, its task met an error or a crash, or its amount does
\* not fit an i32 (handle_paid_zap, mark_zap_paid).
SettledZapCredited ==
    \A z \in Zap :
        invoice[z] = "settled" /\ row[z] # "none"
          ~> \/ row[z] = "noted"
             \/ pc[z] \in {"missed", "failed"}
             \/ Msat[z] > Int4Max

\* "User has enough balance, deducting ... from balance and running job"
\* (job_listener.rs): the deductions of a key never exceed its credits.
ChargesCovered == \A n \in Npub : ledger[n] >= 0

\* Every amount the LNURL endpoint advertises as sendable can be credited:
\* no zap is refused after its receipt was published.
ZapNotRefused == \A z \in receipts : pc[z] # "rejected"

-----------------------------------------------------------------------------
(* The promise of PrepaidAccounts.                                          *)

Accounts == INSTANCE PrepaidAccounts WITH
    MaxBalance <- Int4Max,
    funds <- balance,
    receipted <- receipts,
    credited <- {z \in Zap : row[z] = "noted"},
    spoiled <- overlapped

\* The three kinds of tasks implement the accounts of PrepaidAccounts: every
\* zap is credited at most once and after its receipt, and until two spans of a
\* key overlap, each credit that fits an i32 counts in full and each charge
\* takes exactly its price out of a balance that covers it.  Nothing is said of
\* requests: each delivery is charged (handle_paid_zap, mark_zap_paid,
\* handle_event).
ImplementsAccounts == Accounts!Spec

=============================================================================
