------------------------------- MODULE Intake -------------------------------
(***************************************************************************)
(* From a request to its job.  listen_for_jobs (job_listener.rs) spawns    *)
(* handle_event for each request a relay delivers: it charges the balance  *)
(* of the client and goes on, or sends an invoice and leaves a row in the  *)
(* table jobs.  start_invoice_subscription (invoice_subscriber.rs) spawns  *)
(* handle_invoice when the invoice is settled.  Both call                  *)
(* handle_job_request, which runs the wasm and lets its caller reply, or   *)
(* stores a scheduled job with its oracle event.                           *)
(*                                                                         *)
(* Whether the balance covers the price is open here: ZapLedger is the     *)
(* module about balances.  So is what the scheduler does with a stored     *)
(* job, but for its effect on the row: Scheduler is the module about it.   *)
(***************************************************************************)
EXTENDS Naturals, FiniteSets

CONSTANTS
    Request,     \* job requests, by event id
    OutOfBounds, \* those without valid parameters or with a time not accepted
    Scheduled,   \* those with a schedule
    RunDate,     \* [Scheduled -> Nat]: schedule.run_date
    WithEvent,   \* scheduled requests with expected_outputs
    EventName,   \* [WithEvent -> ...]: schedule.name, or the request's id
    Delivery,    \* identities for the deliveries of a request
    Paid,        \* stands for the settled invoice of a request
    MaxTime,     \* bound on the clock
    MaxFailures  \* bound on failures, crashes and lost settlements

ASSUME IntakeAssumption ==
    /\ OutOfBounds \subseteq Request
    /\ Scheduled \subseteq Request
    /\ RunDate \in [Scheduled -> Nat]
    /\ WithEvent \subseteq Scheduled
    /\ DOMAIN EventName = WithEvent
    /\ Paid \notin Delivery
    /\ MaxTime \in Nat
    /\ MaxFailures \in Nat

VARIABLES
    now,        \* the clock
    jobs,       \* [Request -> ...]: no row, response_id null, response_id set
    byInvoice,  \* requests whose row has the payment hash of an invoice
    event,      \* [Request -> ...]: how far the oracle event is written
    seen,       \* requests this subscription to the relays has delivered
    at,         \* [Request -> [Delivery \cup {Paid} -> ...]]: where handlers are
    invoice,    \* [Request -> ...]: the invoice in the row
    charges,    \* [Request -> Nat]: how often the balance paid
    answers,    \* [Request -> Nat]: replies sent by the handlers
    sent,       \* [Request -> SUBSET ...]: what was sent as the announcement
    failures    \* failures, crashes and lost settlements so far

tables == <<jobs, byInvoice, event>>
relays == <<invoice, answers, sent>>
vars == <<now, tables, seen, at, relays, charges, failures>>

Handler == Delivery \cup {Paid}

Goto(r, d, label) == at' = [at EXCEPT ![r][d] = label]

-----------------------------------------------------------------------------
(* handle_event.                                                            *)

\* A client of nostr-sdk notifies of an event once.
Receive(r, d) ==
    /\ d \in Delivery /\ at[r][d] = "idle"
    /\ r \notin seen
    /\ seen' = seen \cup {r}
    /\ Goto(r, d, "received")
    /\ UNCHANGED <<now, tables, relays, charges, failures>>

\* get_job_params fails, or the time is not accepted and feedback says so.
Refuse(r, d) ==
    /\ at[r][d] = "received"
    /\ r \in OutOfBounds
    /\ Goto(r, d, "over")
    /\ UNCHANGED <<now, tables, seen, relays, charges, failures>>

\* ZapBalance::get, and the comparison of the balance with the price.
ReadBalance(r, d) ==
    /\ at[r][d] = "received"
    /\ r \notin OutOfBounds
    /\ Goto(r, d, "charge") \/ Goto(r, d, "bill")
    /\ UNCHANGED <<now, tables, seen, relays, charges, failures>>

\* Variant: an error of update_balance is ignored.
ChargeIgnored(r, d) ==
    /\ at[r][d] = "charge"
    /\ charges' = [charges EXCEPT ![r] = @ + 1] \/ UNCHANGED charges
    /\ Goto(r, d, "job")
    /\ UNCHANGED <<now, tables, seen, relays, failures>>

\* update_balance, which overwrites what other handlers spent since the read.
Charge(r, d) ==
    /\ at[r][d] = "charge"
    /\ charges' = [charges EXCEPT ![r] = @ + 1]
    /\ Goto(r, d, "job")
    /\ UNCHANGED <<now, tables, seen, relays, failures>>

\* Variant: no trigger.
CanInsertAnyDate(r) == jobs[r] = "none"

\* The column request is unique, and a trigger refuses a past date.
CanInsert(r) ==
    /\ jobs[r] = "none"
    /\ r \in Scheduled => RunDate[r] >= now

\* Variant: the error of Job::create is ignored.
CreateJobIgnored(r, d) ==
    /\ at[r][d] = "bill"
    /\ IF CanInsert(r)
       THEN jobs' = [jobs EXCEPT ![r] = "open"] /\ byInvoice' = byInvoice \cup {r}
       ELSE UNCHANGED <<jobs, byInvoice>>
    /\ invoice' = [invoice EXCEPT ![r] = "made"]
    /\ Goto(r, d, "offer")
    /\ UNCHANGED <<now, event, seen, answers, sent, charges, failures>>

\* create_job_feedback_invoice: add_invoice, then Job::create.
CreateJob(r, d) ==
    /\ at[r][d] = "bill"
    /\ IF CanInsert(r)
       THEN /\ jobs' = [jobs EXCEPT ![r] = "open"]
            /\ byInvoice' = byInvoice \cup {r}
            /\ invoice' = [invoice EXCEPT ![r] = "made"]
            /\ Goto(r, d, "offer")
       ELSE Goto(r, d, "over") /\ UNCHANGED <<jobs, byInvoice, invoice>>
    /\ UNCHANGED <<now, event, seen, answers, sent, charges, failures>>

Offer(r) == invoice' = [invoice EXCEPT ![r] = "offered"]

SendOffer(r, d) ==
    /\ at[r][d] = "offer"
    /\ Offer(r)
    /\ Goto(r, d, "over")
    /\ UNCHANGED <<now, tables, seen, answers, sent, charges, failures>>

-----------------------------------------------------------------------------
(* handle_invoice.                                                          *)

\* The client pays; the subscription reports it, or misses it while it is down.
Settle(r) ==
    /\ invoice[r] = "offered"
    /\ invoice' = [invoice EXCEPT ![r] = "settled"]
    /\ \/ Goto(r, Paid, "settled") /\ UNCHANGED failures
       \/ /\ failures < MaxFailures /\ failures' = failures + 1
          /\ UNCHANGED at
    /\ UNCHANGED <<now, tables, seen, answers, sent, charges>>

\* Variant: Job::create stored another hash, every payment is taken for a zap.
FindNoJob(r) ==
    /\ at[r][Paid] = "settled"
    /\ Goto(r, Paid, "over")
    /\ UNCHANGED <<now, tables, seen, relays, charges, failures>>

\* Job::get_by_payment_hash; the payment of another invoice is for a zap.
FindJob(r) ==
    /\ at[r][Paid] = "settled"
    /\ Goto(r, Paid, IF r \in byInvoice THEN "job" ELSE "over")
    /\ UNCHANGED <<now, tables, seen, relays, charges, failures>>

-----------------------------------------------------------------------------
(* handle_job_request, and what its callers do with the result.             *)

\* run_job_request, for a job without schedule; it always yields a reply.
RunJob(r, d) ==
    /\ at[r][d] = "job"
    /\ r \notin Scheduled
    /\ Goto(r, d, "reply")
    /\ UNCHANGED <<now, tables, seen, relays, charges, failures>>

CheckDate(r, d) ==
    /\ at[r][d] = "job"
    /\ r \in Scheduled
    /\ Goto(r, d, IF RunDate[r] <= now THEN "over"
                  ELSE IF r \in WithEvent THEN "event" ELSE "row")
    /\ UNCHANGED <<now, tables, seen, relays, charges, failures>>

\* create_enum_event; the column name of the table events is unique.
CreateEvent(r, d) ==
    /\ at[r][d] = "event"
    /\ IF \A q \in WithEvent : EventName[q] = EventName[r] => event[q] = "none"
       THEN event' = [event EXCEPT ![r] = "created"] /\ Goto(r, d, "row")
       ELSE Goto(r, d, "over") /\ UNCHANGED event
    /\ UNCHANGED <<now, jobs, byInvoice, seen, relays, charges, failures>>

CreateScheduled(r, d) ==
    /\ at[r][d] = "row"
    /\ IF CanInsert(r)
       THEN /\ jobs' = [jobs EXCEPT ![r] = "open"]
            /\ Goto(r, d, IF r \in WithEvent THEN "link" ELSE "send")
       ELSE Goto(r, d, "over") /\ UNCHANGED jobs
    /\ UNCHANGED <<now, byInvoice, event, seen, relays, charges, failures>>

\* EventJob::create.
LinkEvent(r, d) ==
    /\ at[r][d] = "link"
    /\ event' = [event EXCEPT ![r] = "linked"]
    /\ Goto(r, d, "note")
    /\ UNCHANGED <<now, jobs, byInvoice, seen, relays, charges, failures>>

\* add_announcement_event_id: "announced" means that the id is stored.
NoteAnnouncement(r, d) ==
    /\ at[r][d] = "note"
    /\ event' = [event EXCEPT ![r] = "announced"]
    /\ Goto(r, d, "send")
    /\ UNCHANGED <<now, jobs, byInvoice, seen, relays, charges, failures>>

\* Variant: yet another event is sent.
OracleAttestation == "attestation"

\* What handle_job_request returns as oracle_announcement is the variable
\* `event` of its argument: the `event` with the announcement is out of scope.
OracleAnnouncement == "request"

SendAnnouncement(r, d) ==
    /\ at[r][d] = "send"
    /\ sent' = [sent EXCEPT ![r] = @ \cup {OracleAnnouncement}]
    /\ Goto(r, d, "over")
    /\ UNCHANGED <<now, tables, seen, invoice, answers, charges, failures>>

Answer(r) == answers' = [answers EXCEPT ![r] = @ + 1]

SendReply(r, d) ==
    /\ at[r][d] = "reply"
    /\ Answer(r)
    /\ Goto(r, d, "record")
    /\ UNCHANGED <<now, tables, seen, invoice, sent, charges, failures>>

\* set_response_id on the row of the invoice, or Job::create_completed, which
\* fails if the request has a row.
Record(r, d) ==
    /\ at[r][d] = "record"
    /\ IF d = Paid \/ jobs[r] = "none"
       THEN jobs' = [jobs EXCEPT ![r] = "done"]
       ELSE UNCHANGED jobs
    /\ Goto(r, d, "over")
    /\ UNCHANGED <<now, byInvoice, event, seen, relays, charges, failures>>

-----------------------------------------------------------------------------
(* Failures, and the environment.                                           *)

\* Every `?` ends the handler.  A send may reach a relay and return an error.
Fail(r, d) ==
    /\ at[r][d] \notin {"idle", "over"}
    /\ failures < MaxFailures
    /\ failures' = failures + 1
    /\ Goto(r, d, "over")
    /\ \/ UNCHANGED <<invoice, answers>>
       \/ at[r][d] = "offer" /\ Offer(r) /\ UNCHANGED answers
       \/ at[r][d] = "reply" /\ Answer(r) /\ UNCHANGED invoice
    /\ UNCHANGED <<now, tables, seen, sent, charges>>

\* listen_for_jobs returns and main.rs calls it again, with a new client that
\* has seen nothing; a request dated ahead of its delivery comes once more.
\* The handlers go on.
Relisten ==
    /\ seen # {}
    /\ seen' = {}
    /\ UNCHANGED <<now, tables, at, relays, charges, failures>>

\* The process dies and starts again.
Crash ==
    /\ failures < MaxFailures
    /\ failures' = failures + 1
    /\ seen' = {}
    /\ at' = [r \in Request |-> [d \in Handler |->
                 IF at[r][d] = "idle" THEN "idle" ELSE "over"]]
    /\ UNCHANGED <<now, tables, relays, charges>>

Tick ==
    /\ now < MaxTime
    /\ now' = now + 1
    /\ UNCHANGED <<tables, seen, at, relays, charges, failures>>

\* The scheduler sets the response of a job whose date has passed; it does it
\* again if the job ran twice.
RunAtDate(r) ==
    /\ r \in Scheduled
    /\ jobs[r] # "none"
    /\ RunDate[r] < now
    /\ jobs' = [jobs EXCEPT ![r] = "done"]
    /\ UNCHANGED <<now, byInvoice, event, seen, at, relays, charges, failures>>

-----------------------------------------------------------------------------

Init ==
    /\ now = 0
    /\ jobs = [r \in Request |-> "none"]
    /\ byInvoice = {}
    /\ event = [r \in Request |-> "none"]
    /\ seen = {}
    /\ at = [r \in Request |-> [d \in Handler |-> "idle"]]
    /\ invoice = [r \in Request |-> "none"]
    /\ charges = [r \in Request |-> 0]
    /\ answers = [r \in Request |-> 0]
    /\ sent = [r \in Request |-> {}]
    /\ failures = 0

\* A handler goes on with its request.
Proceed(r, d) ==
    \/ Refuse(r, d) \/ ReadBalance(r, d) \/ Charge(r, d) \/ CreateJob(r, d)
    \/ SendOffer(r, d)
    \/ d = Paid /\ FindJob(r)
    \/ CheckDate(r, d) \/ CreateEvent(r, d) \/ CreateScheduled(r, d)
    \/ LinkEvent(r, d) \/ NoteAnnouncement(r, d) \/ SendAnnouncement(r, d)
    \/ SendReply(r, d) \/ Record(r, d)

\* The steps of the handlers and of what calls them.
IntakeNext ==
    \/ \E r \in Request : Settle(r)
    \/ \E r \in Request, d \in Handler :
          Receive(r, d) \/ Proceed(r, d) \/ RunJob(r, d) \/ Fail(r, d)
    \/ Relisten

Next == IntakeNext \/ Crash \/ Tick \/ \E r \in Request : RunAtDate(r)

\* Handlers go on.  Nothing bounds the download inside RunJob, nothing makes a
\* client pay, and no relay owes a delivery.
Fairness == \A r \in Request, d \in Handler : WF_vars(Proceed(r, d))

Spec == Init /\ [][Next]_vars
FairSpec == Spec /\ Fairness

-----------------------------------------------------------------------------
(* Properties.                                                              *)

\* The type of every variable.
TypeOK ==
    /\ now \in Nat
    /\ jobs \in [Request -> {"none", "open", "done"}]
    /\ byInvoice \subseteq Request
    /\ event \in [Request -> {"none", "created", "linked", "announced"}]
    /\ seen \subseteq Request
    /\ at \in [Request -> [Handler ->
          {"idle", "received", "charge", "bill", "offer", "settled", "job",
           "event", "row", "link", "note", "send", "reply", "record", "over"}]]
    /\ invoice \in [Request -> {"none", "made", "offered", "settled"}]
    /\ charges \in [Request -> Nat]
    /\ answers \in [Request -> Nat]
    /\ sent \in [Request -> SUBSET {"request", "announcement"}]
    /\ failures \in Nat

Payments(r) == charges[r] + (IF invoice[r] = "settled" THEN 1 ELSE 0)

\* A request without schedule is answered at most once for each time it was
\* paid for, by whichever of the two ways, and only what was answered is
\* stored as done, although several deliveries of it and its invoice are
\* handled at once (handle_event, handle_invoice).
AnswersArePaid ==
    \A r \in Request \ Scheduled :
        /\ answers[r] <= Payments(r)
        /\ jobs[r] = "done" => answers[r] > 0

\* No payment is stranded: the invoice a client holds leads to a row, and the
\* row of an unanswered request without schedule, which nothing but a payment
\* ever runs, has an invoice (create_job_feedback_invoice, get_by_payment_hash).
InvoiceFindsJob ==
    \A r \in Request :
        /\ invoice[r] # "none" => r \in byInvoice /\ jobs[r] # "none"
        /\ jobs[r] = "open" /\ r \notin Scheduled => invoice[r] # "none"

\* The oracle event of a job becomes the job's own, so that it can be
\* attested, only for a payment and for a job that is stored, however many
\* deliveries of it are handled at once, and of the requests that share a name,
\* one at most gets that far (handle_event, handle_job_request).
LinkedIsPaid ==
    \A r \in WithEvent :
        event[r] \in {"linked", "announced"} =>
            /\ Payments(r) > 0 /\ jobs[r] # "none"
            /\ \A q \in WithEvent \ {r} :
                  EventName[q] = EventName[r] => event[q] = "none"

\* Who has paid for a request without schedule gets an answer, unless the run
\* does not end or something failed (handle_event, handle_invoice).
PaidIsAnswered ==
    \A r \in Request \ Scheduled :
        Payments(r) > 0
          ~> answers[r] = Payments(r) \/ failures > 0 \/ \E d \in Handler : at[r][d] = "job"

\* "Expected outputs, if provided, a DLC announcement will be made if the output
\* matches" (wasm_handler.rs): who has paid in time for a job with expected
\* outputs, by the balance or by an invoice, has its announcement sent once its
\* handlers are through, if nothing failed (handle_job_request).
AnnouncementPublished ==
    \A r \in WithEvent :
        /\ Payments(r) > 0 /\ now < RunDate[r] /\ failures = 0
        /\ \A d \in Handler : at[r][d] \in {"idle", "over"}
        => "announcement" \in sent[r]

=============================================================================
