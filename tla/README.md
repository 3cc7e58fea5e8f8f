# A TLA+ model of wasm-dvm

wasm-dvm is a nostr "data vending machine": clients send job requests (kind
5600 events) over relays, pay with Lightning invoices or from a prepaid balance
that zaps fill, and get back the output of a wasm program, at once or at a
date; for a scheduled job with expected outputs the DVM is also a DLC oracle.
This directory models the parts of it whose correctness depends on
interleavings, failures and order, checks them with TLC and proves the central
invariants with TLAPS. Paths below are relative to the repository.

## 1. Inventory

One process (`src/main.rs`) runs three endless loops and a web server. All of
them share a Postgres database through a pool of 16 connections, the worker
threads of one runtime, LND, and the relays.

| Component | State | Operations | Hard behaviour |
|---|---|---|---|
| LNURL endpoint (`routes.rs`) | LND invoices, rows of `zaps`, `zap_balances` | `get_invoice`, `create_zap` | concurrent creation of one key's account |
| Zaps and balances (`models/zap.rs`, `zap_balance.rs`, `mod.rs`) | `balance_msats`, `note_id` | `mark_zap_paid`, `update_balance` | read, then overwrite with an absolute value; `i32` arithmetic; receipt before credit |
| Invoice subscription (`invoice_subscriber.rs`) | the open subscription | `handle_invoice`, `handle_paid_zap`, `handle_job_request` | settlements lost in gaps; panics that end the loop; no retry |
| Request intake (`job_listener.rs`) | the open subscription, rows of `jobs`, `events`, `event_jobs` | `handle_event`, `create_job_feedback_invoice` | redelivery; two ways of paying; late inserts under unique columns |
| Scheduler (`job_listener.rs`, `main.rs`) | `active_jobs` and its mutex, the spawned tasks | `process_schedule_jobs_round`, `run_scheduled_job` | stale list, claim given up early, errors between steps, crash and re-run |
| Job table (`models/job.rs`, migrations) | `jobs` | three inserts, `set_response_id`, three queries | unique `request`, trigger on `scheduled_at` |
| Oracle events and nonces (`models/mod.rs`, `event*.rs`) | `events`, `event_nonces`, the counter in memory | kormir's `Storage` | index taken now and stored later; counter read from the table at each start; transactions whose end nobody saw |
| Wasm runner (`wasm_handler.rs`) | a temporary file, a blocking thread | `download_and_run_wasm`, `run_wasm` | no download timeout; timeout against result; a call that outlives its handler |
| Pool and runtime (`main.rs`, every `db_pool.get()`) | connections, worker threads, blocking threads | `get`, drop, `spawn_blocking` | `get` blocks its worker; a connection is kept over downloads and runs, the oracle takes a second one |
| Start and stop (`main.rs`, `config.rs`) | `keys.json`, the key in memory | `get_keys`, `write`, the metadata broadcast, graceful shutdown | the only copy of the key is truncated and rewritten; broadcast before write; handlers that are dropped |

The intake and the subscription call one common function,
`handle_job_request`: the intake for a request paid by balance, the
subscription for one paid by invoice. Everything else the components share goes
through the tables and the pool: the intake and the subscription insert rows of
`jobs` and `events` that the scheduler reads, the endpoint and the subscription
write balances that the intake spends, and all of them wait for the same
connections.

What makes each of them correct:

- balances: never negative, exact unless two spans overlap, never more than was
  paid in; a settled zap is credited; charges never exceed credits (false, but
  true of keys whose spans did not overlap); nothing keeps a request that is
  delivered twice from being charged twice;
- scheduler: a job never runs twice at the same time; it runs once (false), and
  at most twice plus once per failure; a stored response stands for a published
  reply, after the date; one outcome at most is attested; a due job starts;
- intake: every answer is paid for and every payment answered; the invoice a
  client holds leads to its job; only events of stored and paid jobs are
  linked; who pays for a job with expected outputs gets its announcement
  (false, for two reasons); what is run is paid for (false for scheduled jobs);
- oracle storage: no index is handed out that somebody holds or stored, but for
  a commit that came late; events are under the key of the service, unless that
  key was lost;
- the process: one identity, whatever a crash does to a `keys.json` that opens;
  a process that serves has published what it lists; handlers do not wait for
  each other for ever; every run is answered; a signal ends the process.

`PROJECT.json` lists every component with its status, and under `hazards` what
can go wrong at which line, with the properties that would notice it.

## 2. Modules

| Module | Models | Checked by |
|---|---|---|
| `ZapLedger` | zaps and balances: endpoint, subscription, charges | `MCZapLedger`, `ZapLedgerProofs` |
| `PrepaidAccounts` | abstract: accounts with receipts | implemented by `ZapLedger` |
| `Scheduler` | the round, the tasks, `active_jobs`, replies, attestations | `MCScheduler`, `SchedulerProofs` |
| `Intake` | from a delivered request to its row, its reply, its event | `MCIntake`, `IntakeProofs` |
| `Dvm` | `Intake` and `Scheduler` over the same tables and clock | `MCDvm`, `DvmProofs` |
| `OracleService` | abstract: the order of payment, announcement, runs, answer, signature, attestation | implemented by `Dvm` |
| `Startup` | `keys.json`, the key, the metadata events, start and end | in `Process` |
| `OracleStorage` | the nonce counter, the rows of oracle events | in `Process` |
| `Process` | `Startup`, `OracleStorage`, the pool, threads and timeouts | `MCProcess`, `ProcessProofs` |
| `SumProofs` | lemmas about sums over finite sets, for `ZapLedgerProofs` | |

`Dvm` composes what the handlers do to the tables, `Process` what they share
besides the tables. They are apart because their product is beyond TLC and
neither reads the other's variables.

A definition whose comment begins with "Variant" is a plausible bug in the
definition that follows it. No specification uses it; each one documents which
property notices that bug (`mutants` in `PROJECT.json`).

### ZapLedger and PrepaidAccounts

Each zap, by payment hash, and each delivery of a request has a handler whose
place is `pc`;
`http` is where its `get_invoice` call is, `stream` the subscription. A balance
is read in one statement (`ReadBalance`) and overwritten in a later one
(`UpdateBalance` in `MarkCommit` and `JobCharge`). Postgres runs at READ
COMMITTED, so what matters is the order of reads and commits; `mark_zap_paid`
is a transaction, but its read does not lock the row. `create_zap` is split in
the same way into `CheckAccount` and `CreateZap`. `AsInt4`, `SatAdd` and
`Covers` are `as i32`, `saturating_add` and the comparison after `as u64`;
`Int4Max` is a constant, 7 in the runs. Two history variables are no state of
the program: `ledger` is the balance had each operation been atomic,
`overlapped` the keys on which a read fell between another's read and write.
`StreamEnds`, `StreamPanics` and `Crash` lose settlements as the default
subscription does.

`ImplementsAccounts` says that every behaviour is one of `PrepaidAccounts`,
where `spoiled` is `overlapped`: always, a receipt comes before its credit and
each zap is credited at most once; and until two spans on a key overlap, a
credit that fits an `i32` counts in full and a charge is covered. Nothing is
promised of a request: `handle_event` charges each delivery of it, and two of
them are two members of `Delivery` with one price. After an overlap an operation
may leave any balance, as `zap_ledger_double_spend` shows it does.

### Scheduler

`round`, `fetched` and `todo` are the loop; a task goes through `running`,
`built`, `sent`, `locked`, `saved`, `signing`, `signed` and `stored`, one label
for each await or database call after which others can run. The mutex is held
from `locked` to the end of the task, by whichever return. `Fail` is any `?`;
before the mutex it leaves the job in `active` for good, and a failing send may
have reached a relay. The handlers that write the shared tables appear as
`Environment`. That the oracle refuses to sign a signed event belongs to the
library kormir, which is not in the repository.

### Intake

`at[r][d]` is where the handler of delivery `d` of request `r` is; the handler
of its settled invoice is `at[r][Paid]`. Both go through `handle_job_request`
(`RunJob`, or `CheckDate` to `SendAnnouncement`), and differ in how they store
an answer (`Record`). Whether the balance covers the price is a free choice
here; `ZapLedger` is about that. A client of nostr-sdk reports an event once,
so a request comes again only after `Relisten` or `Crash`. `RunAtDate` stands
for the scheduler. That an event is `announced` means that the id of its
announcement is stored; what is sent in the name of the announcement is `sent`.

### Dvm

Instances of `Intake` and `Scheduler` that share `now`, `jobs` and `event`; a
crash is one step of both. `ImplementsScheduler` and `ImplementsIntake`
discharge what each module assumes of the other: handlers insert before the
date and move events forward only, the scheduler answers only scheduled rows
after their date. So what is proved of the separate modules holds of the whole.

### OracleService

What both parts give a client together, without deliveries, tasks, claims,
failures and restarts: only what was paid for, from the balance or by invoice,
is announced (its announcement is stored), under a name of its own; runs show
results after the date, as often as there are runs; an answer is stored once one
was shown; the oracle signs once, a listed outcome that was shown of a request
announced and answered, and publishes what it signed. `Dvm!Oracle` maps its
state to the tables, the relays and the signatures of `Dvm`; `ImplementsOracle`
says that every behaviour of `Dvm` is one of its own.

### Startup

`phase` follows `main`: `down`, `generated` (a new key, its file created and
empty), `loaded`, `broadcast`, `rewriting` (the file truncated), `stored`,
`serving`, then `draining` (the web server is told to stop) and `stopping` (main
has returned). `file` is absent, truncated, or complete with what it lists.
`Crash` comes between any two steps, and also stands for the panics and errors
of `main`; a failing `batch_event` may have reached the relays with some of the
events. The installation is new or has a file of an earlier version, which knew
one of the two kinds of events.

`get_keys` generates a key on every error of `File::open`, and `write` empties
the file that was there. So `GenerateKey` is possible at each start, whatever
the file: it may be missing, moved, lost, or there and impossible to open. The
history variable `abandoned` holds the keys that are gone by such a start;
`OneIdentity` and `EventsFollowKey` are about the others. A file that opens and
is truncated ends every start, as `expect` does: it is never replaced, and as
long as it opens the process stays down.

### OracleStorage

`TakeIndex` is the `fetch_add` of `get_next_nonce_indexes`, `Save` the
transaction of `save_announcement`, `OpenStorage` the `get_next_id` of a start.
When the answer to COMMIT is lost (`SaveFails`) or the process dies waiting for
it (`LoseMemory`), the row is in doubt (`orphans`) and may still be inserted, by
`CommitLate`, after the next life has read the table; `late` remembers the
indexes for which that happened. An event has one nonce, because this program
creates enum events only. The actions carry no guard on the life of the process
and no idea of connections: `Process` adds both.

### Process

`Script` gives for each kind of handler the steps at which it takes a
connection, blocks, waits for something outside or calls the oracle, in the
order of the code: `http` (`get_invoice`), `zap` (`handle_paid_zap`), `bill`
(the invoice of `handle_event`, which keeps its connection while the node makes
it), `plain` and `event` (`handle_event` and `handle_invoice` with a paid job,
without and with expected outputs), `task` (`run_scheduled_job`). `left[h]` is
what remains of it. `held[h]` counts the connections: most handlers keep theirs
until they return, and the four calls in `OracleCalls` take one of their own and
give it back. `Pool::get` is not async: while it waits it blocks the worker
thread of its caller (`Blocked`), and nothing but another `get` goes on when all
workers are blocked (`CanStep`). It waits at most thirty seconds
(`GetTimesOut`).

`thread[h]` is the call that `spawn_blocking` made for `run_wasm`. It is
`queued` until a thread is free, and it goes on without its handler after a
`Timeout`; the timer runs while the call is still queued. `cancel` interrupts a
running call at an epoch check, or never in the host: `EndCall` is not fair.

A signal stops the web server; main waits for its handlers and no others
(`Shutdown`) and returns; then the runtime drops the tasks, each at its next
await (`Drop`), and waits for the blocking calls that had started
(`ExitProcess`). kormir's `sign_enum_event` is one step, since its calls of the
storage take a connection each, one after the other.

## 3. Runs, bounds, fairness

| Run | Specification | Result |
|---|---|---|
| `zap_ledger` | `FairSpec`; 1 key, 3 zaps, 2 deliveries | 6 invariants, `SettledZapCredited`, `ImplementsAccounts` |
| `zap_ledger_double_spend` | `Spec`; 2 keys, 2 zaps, 3 deliveries | **violated**: `ChargesCovered` |
| `zap_ledger_refused` | `Spec`; as `zap_ledger` | **violated**: `ZapNotRefused` |
| `scheduler` | `Spec`; 3 jobs, 2 tasks, 1 failure or crash | 6 invariants |
| `scheduler_liveness` | `FairSpec` | `DueJobStarts`, `RunEnds` |
| `scheduler_run_once` | `Spec`, no failures | **violated**: `RunOnce` |
| `intake_scheduled` | `Spec`; 2 requests with one event name, 2 deliveries, 1 failure | 3 invariants |
| `intake_payments` | `FairSpec`; 2 requests, 2 deliveries, 2 failures | 2 invariants, `PaidIsAnswered` |
| `intake_announcement` | `Spec`, no failures | **violated**: `AnnouncementPublished` |
| `dvm` | `Spec`; 2 requests, 2 tasks, a crash | `ImplementsScheduler`, `ImplementsIntake`, `ImplementsOracle` |
| `dvm_unpaid_run` | `Spec`, no failures | **violated**: `RunsArePaid` |
| `process` | `FairSpec`; 3 handlers, 2 connections, 2 workers, 1 thread, 2 keys, 1 restart | 5 invariants, `HandlersEnd`, `RunsAnswered`, `ShutdownEnds` |

Bounds. Three zaps and two deliveries on one key give every pair of overlapping
spans (credit and credit, credit and charge, charge and charge) and a third to
come between; their amounts wrap, saturate and fit. Two tasks for two scheduled
jobs never make a claimed job wait, and a re-run needs only one of them. Time
takes two or three values: before, at and after the date. `dvm` has one outcome,
because `scheduler` checks runs that differ (`AttestationSound`) and the
refinement is proved for any number of them. `MaxTime`,
`MaxFaults`, `MaxFailures`, `MaxRestarts` and the sets `Task`, `Delivery` and
`Handler` are the only bounds.

In `process`, two handlers that hold a connection each and want a second one
exhaust the pool and block both workers, so that the third can only wait: the
case the code has with 16 connections and as many workers as the machine has
cores. One thread lets a run that timed out keep it from the next. One restart
is enough for a truncated file, for a second reading of the counter and for a
commit that comes after it; the second key is the one a start generates that
cannot open the file of the first. The third
handler is of any kind but `task`; the first two, a `task` and an `event`, need
most of what is shared (`mcKinds`). `NewKey` chooses one of the keys not generated yet: keys differ by nothing else.

Deadlock checking is off: a system without clients stops.

Fairness. Spawned tasks go on, because tokio polls a ready task (weak fairness
of their steps). Taking the mutex has strong fairness, because tokio's mutex is
first come, first served. In `Process`, `Proceed` is weakly fair for each
handler: the timers of the pool and of a run fire, and a handler goes on while a
worker is free; `Shutdown` and `ExitProcess` are fair since main and the runtime
wait for nothing else. There is no fairness for clients, payments, deliveries,
failures, LND, the start, the download of the wasm, or the wasm itself. The
liveness properties exempt what the code does not promise: settlements missed by
the subscription, tasks that failed, claims that a failed task left in `active`,
downloads, an LND that does not answer, and for the end of the process a wasm
that goes on (`ShutdownEnds`: if again and again no wasm runs and no request of
the web server waits for LND, the process ends). Most of them have the form
`[]<>`: again and again the handler has ended, or is where nothing is promised.

Symmetry is used where no temporal property is checked: on tasks, on
deliveries, on scheduled requests with equal dates and names. In `dvm`, whose
refinements are safety properties, it is used on tasks, which no formula
tells apart.

### What the violated runs show

1. *Double spending* (`job_listener.rs:131`): two requests of one client read
   the same balance; each is covered alone, together they are not.
2. *Refused zaps* (`models/zap.rs:82`): an amount above 2^31-1 msat, which the
   endpoint advertises, wraps negative, and the credit is refused after the
   receipt.
3. *Second run* (`job_listener.rs:276`): a round waits for the mutex with a list
   in which a job is still open, and claims it after its task is done.
4. *No announcement* (`invoice_subscriber.rs:174`): a shadowed variable; the
   client's request is sent again instead. With that mended (if what is sent is
   the announcement) `AnnouncementPublished` is violated still, by line 164:
   the row of a request paid by invoice exists already, `create_scheduled`
   fails, and the event that was created before it is never linked, announced or
   attested.
5. *Unpaid run* (`models/job.rs:151`): the row of a scheduled request exists
   before its invoice is paid, and nothing asks for the payment.

Two properties that hold owe it to something a reader would not expect.
`HandlersEnd`: handlers that hold all connections and wait for second ones are
freed by nothing but the timeout of the pool, with an error for those who
waited. `LinkedIsPaid`: that no two deliveries of a request link its event is
due to the unique columns alone. And `HeldIndexIsFree` has an exception that the
code leaves open: after a commit that comes late the counter hands out a stored
index, and only the primary key of `event_nonces` refuses the second row.

What `up.sql` says of `oracle_metadata`, that it prevents several keys from
being used with one database, is done by no code. Events of an abandoned key
stay in the tables beside those of the new one; `EventsFollowKey` claims no more
than that events of other keys do not appear.

## 4. Proofs

TLAPS proves the following for all values of the constants, from the named
assumptions `LedgerAssumption`, `SchedulerAssumption`, `IntakeAssumption`,
`StartupAssumption`, `StorageAssumption`, `ProcessAssumption` and
`DvmAssumption` (types of the constants, disjointness of identities; the last is
the second and third together) and nothing else.

`ZapLedgerProofs`

- `TypeCorrect`. `TypeOK` is inductive once the casts are known to stay in the
  column type (`AsInt4Type`, `SatAddType`).
- `NeverOverdrawn`. The only writes go through `UpdateBalance`, whose test is on
  the value it stores.
- `QuietIsExact`, from `QuietInv`: on a key without overlaps, who holds a read
  holds the current balance, and nobody else holds one.
- `PayerHasRow`, from `ReturnInv`: only calls of `get_invoice` that returned
  give a zap invoice away, and these have left a row and an account.
- `CreditIsPaidFor` (`NoPhantomCredit`), from `CreditInv`: a balance, and what a
  task has read of one and may still write, is at most the sum of the zaps of
  its key noted as paid; a credit notes its own zap in the same step. The sum is
  a fold over a set, which the provers can evaluate for no set whose elements
  they do not know. `SumProofs` proves the two facts needed, that a sum takes
  out one element (`SumTakeOut`) and gains one (`SumAdd`), without induction: a
  table of partial sums over the subsets of a finite set is unique and exists
  because a smallest subset on which it failed would not (`SmallestSet`, from
  the well-foundedness of strict inclusion).
- `QuietIsSolvent` (`QuietAccountSolvent`), from `SpentInv`, `QuietInv` and
  `CreditInv`: on a key without overlaps the prices of the charged requests and
  the balance together are at most that sum. A charge takes off exactly the
  price, because its task holds the current balance and was covered by it.
- `AccountsAreImplemented`, the refinement, from `ProgressInv`, which ties the
  place of a handler to what it has published and stored, and `QuietInv`.

`SchedulerProofs`

- `TypeCorrect`, with `TaskOK`: a task past its run has a job and an outcome.
- `NeverConcurrent`, from `ClaimInv`: a task before the mutex has its job in
  `active` and not in `todo`; a task behind it is its holder, and no round
  claims while it is held. `NoConcurrentRun` is not inductive alone: the stale
  list could name any job.
- `DoneIsReplied` and `AttestationIsSound`, from `ReplyInv`: what is fetched,
  claimed or run is due; a task past its send has its reply on the relays; a
  signature is never replaced. The proof shows for each action three facts
  about what it may change (`Growth`, `TaskMoves`, `Sources`), and from these,
  once, that the invariant is kept.
- `ClaimsLive`, from `LiveInv`: `RoundClaim` replaces `todo`, so the invariant
  adds that the round before it has spawned everything.
- `RepliesAreBounded`, from `CountInv`. An open job has no reply beyond the
  failures but that of the task about to store it. A job that is done can come
  back only from a list read before it was done, and it is never both in that
  list and claimed, so it comes back once.

`IntakeProofs`

- `TypeCorrect`.
- `NoPaymentStrands` (`InvoiceFindsJob`), `LinkedIsPaidFor` (`LinkedIsPaid`)
  and `NothingForFree` (`AnswersArePaid`), from `IntakeInv`. Its parts say: what
  the label of a handler implies about its request (`PathInv`), which invoices
  a row can have (`RowInv`), that one handler at most goes on with an
  event and one event at most has a name (`EventInv`), and that answers plus
  handlers between payment and answer do not exceed the payments of a request
  (`PendingInv`, a cardinality).

`DvmProofs`

- `HandlersFitScheduler` and `SchedulerFitsIntake`, the two refinements. Neither
  comes first: that a step of the handlers is one the scheduler allows needs
  the invariant of `Intake`, that a task's step is one the handlers allow needs
  the types of `Scheduler` and that what it has in hand is due (`DateInv`), and
  each invariant is kept only by steps its module knows. So `DvmInv`, their
  conjunction, is proved by one induction, which cites `IntakeStep` and
  `TypeStep` through instances of the two proof modules. With the refinements
  every theorem about `Scheduler` and `Intake` is one about the process:
  `SchedulerIsSafeInProcess` and `IntakeIsSafeInProcess` say so for their safety
  invariants.
- `OracleIsImplemented` (`ImplementsOracle`): an action of the handlers is
  invisible, a payment or an announcement (`IntakeServes`); an action of the
  scheduler is invisible, shows, stores, signs or attests (`SchedulerServes`).
  That it may do so follows from `DvmInv`, the `ReplyInv` of the scheduler and
  `AnnouncedInv`: who is past the reading of an event, and who has attested it,
  read it as announced. `AttestationsRestInProcess` follows from it and from
  `AttestationsRest`, proved about `OracleService` alone: an attestation is the
  only one of its request and rests on a payment, on an announcement under a
  name of its own, on a stored answer and on a reply published after the date.

`ProcessProofs`

- `TypeCorrect`, from `StepsInv`: a handler has ended and holds nothing, or what
  remains of it is the rest of its script from some step on and it holds what
  the steps before took and did not give back (`Holding`). `held[h] \in 0..2`
  is not inductive alone, because nothing in it says that a handler that gives
  a connection back has one.
- `ProcessIsStartup`: whatever handlers do, the life of the process is that of
  `Startup`. In the same way each step is one of `OracleStorage`
  (`ProcessIsStorage`), which lets the invariants of the parts be proved apart.
- `ServiceHasOneKey`, from `KeyInv`: what the memory and the file show is not
  abandoned, and every key generated is abandoned or is that one.
  `ServiceIsPublished`, from `MetadataInv`: what the file or the memory lists is
  on the relays.
- `HeldIndexesAreFree`, from `StorageInv`: every index held or stored is below
  the counter, but for late rows. It holds across a restart because a process
  that is down holds no index (`IdleInv`).
- `EventsUnderIdentity` (`EventsFollowKey`), from `RowsInv` and `KeyInv`.

Every invariant and every safety refinement that a passing run checks is proved.
Only model-checked are the liveness properties (`SettledZapCredited`,
`DueJobStarts`, `RunEnds`, `PaidIsAnswered`, `HandlersEnd`, `RunsAnswered`,
`ShutdownEnds`), which TLAPS cannot prove under fairness. The five properties
that the code violates are refuted by TLC's counterexamples.

## 5. Not modelled

- The command-line options, parsed once and never changed; the schema,
  generated by diesel, whose constraints are modelled with their tables.
- The table `oracle_metadata`: no code reads or writes it.
- The nonce a signature is made with: `get_event` hands kormir the position of a
  nonce in its event, not the stored index (`models/mod.rs:279`), and what
  kormir does with it, as with its cryptography, is not in the repository. No
  property says that the nonce announced is the one used. `list_events` is
  called by nothing.
- The panic at `main.rs:211`, which would end the loop of the scheduler for the
  life of the process; `DueJobStarts` is about a loop that goes on.
- A start that generates a key and then cannot create the file: it ends with a
  panic and leaves nothing anyone can see.
- In `Process`, the connection of the scheduler's round, dropped before the
  round waits for anything, and the mutex of `active_jobs`, which is in
  `Scheduler`. A task that waits for the mutex holds no connection, so without
  it more tasks compete for the pool in `Process` than in the code.
- The format of events, encryption, invoices and zap receipts, the computation
  of a price, and what wasm computes. Postgres is taken to run in UTC, so that
  `now()` and the naive dates agree.

## 6. Plan

The handlers of requests, settled invoices, zaps and scheduled jobs, the web
server's calls that change state, and the start and stop of the process are
modelled, each in the module of the state it is about; `Process` has all of
them as scripts. What could follow:

1. The mutex of `active_jobs` in `Process`: a task that waits in `Pool::get`
   with the mutex keeps the round and the other tasks waiting as well, at most
   as long as the pool's timeout.
2. Several oracle keys and events with several nonces, should the program
   create other than enum events.
3. A model of kormir's storage calls once its version is vendored.
4. What a client may conclude from `PrepaidAccounts` alone, proved of the
   abstract module as `AttestationsRest` is of `OracleService`.
