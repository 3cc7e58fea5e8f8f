--------------------------- MODULE OracleService ---------------------------
(***************************************************************************)
(* What the service promises about scheduled requests with an oracle       *)
(* event, without deliveries, tasks, claims and mutexes, failures and      *)
(* restarts: the order in which payment, announcement, runs, signature and *)
(* attestation come, and what each of them may rest on.                    *)
(***************************************************************************)
EXTENDS Naturals, TLAPS

CONSTANTS Request, Scheduled, RunDate, WithEvent, EventName, Outcome,
          Expected, NoOutcome

VARIABLES
    now,        \* the clock
    paid,       \* requests that were paid for, from a balance or by invoice
    announced,  \* requests whose event has the id of its announcement stored
    shown,      \* [Request -> SUBSET Outcome]: contents of the replies
    answered,   \* scheduled requests whose answer is stored
    signed,     \* [Request -> Outcome \cup {NoOutcome}]: the signature
    attested    \* [Request -> SUBSET Outcome]: what the oracle published

vars == <<now, paid, announced, shown, answered, signed, attested>>

Init ==
    /\ now = 0
    /\ paid = {}
    /\ announced = {}
    /\ shown = [r \in Request |-> {}]
    /\ answered = {}
    /\ signed = [r \in Request |-> NoOutcome]
    /\ attested = [r \in Request |-> {}]

Tick ==
    /\ now' = now + 1
    /\ UNCHANGED <<paid, announced, shown, answered, signed, attested>>

Pay(r) ==
    /\ paid' = paid \cup {r}
    /\ UNCHANGED <<now, announced, shown, answered, signed, attested>>

\* Only what is paid for is announced, and no name twice.
Announce(r) ==
    /\ r \in WithEvent \cap paid
    /\ \A q \in announced \ {r} : EventName[q] # EventName[r]
    /\ announced' = announced \cup {r}
    /\ UNCHANGED <<now, paid, shown, answered, signed, attested>>

\* A run shows its result, after the date and as often as there are runs.
Show(r, o) ==
    /\ r \in Scheduled
    /\ RunDate[r] < now
    /\ shown' = [shown EXCEPT ![r] = @ \cup {o}]
    /\ UNCHANGED <<now, paid, announced, answered, signed, attested>>

\* An answer is stored once the client can see one.
Store(r) ==
    /\ r \in Scheduled
    /\ shown[r] # {}
    /\ answered' = answered \cup {r}
    /\ UNCHANGED <<now, paid, announced, shown, signed, attested>>

\* The oracle signs once, an outcome it announced and a run showed.
Sign(r, o) ==
    /\ r \in announced \cap answered
    /\ o \in Expected \cap shown[r]
    /\ signed[r] = NoOutcome
    /\ signed' = [signed EXCEPT ![r] = o]
    /\ UNCHANGED <<now, paid, announced, shown, answered, attested>>

\* It publishes what it signed.
Attest(r) ==
    /\ signed[r] # NoOutcome
    /\ attested' = [attested EXCEPT ![r] = {signed[r]}]
    /\ UNCHANGED <<now, paid, announced, shown, answered, signed>>

Next ==
    \/ Tick
    \/ \E r \in Request :
          \/ Pay(r) \/ Announce(r) \/ Store(r) \/ Attest(r)
          \/ \E o \in Outcome : Show(r, o) \/ Sign(r, o)

Spec == Init /\ [][Next]_vars

-----------------------------------------------------------------------------
(* What a client may conclude from an attestation.                          *)

\* An attestation stands alone for its request, and rests on a payment, on an
\* announcement under a name no other has, on a stored answer and on a result
\* shown after the date.
AttestationRests ==
    \A r \in Request : attested[r] # {} =>
        \E o \in Expected :
            /\ attested[r] = {o} /\ o \in shown[r]
            /\ r \in paid \cap announced \cap answered
            /\ RunDate[r] < now
            /\ \A q \in announced \ {r} : EventName[q] # EventName[r]

\* Each thing the oracle does rests on the one before.
ServiceInv ==
    /\ now \in Nat
    /\ signed \in [Request -> Outcome \cup {NoOutcome}]
    /\ shown \in [Request -> SUBSET Outcome]
    /\ attested \in [Request -> SUBSET Outcome]
    /\ announced \subseteq paid
    /\ \A q, r \in announced : EventName[q] = EventName[r] => q = r
    /\ \A r \in Request : shown[r] # {} => r \in Scheduled /\ RunDate[r] < now
    /\ \A r \in Request : signed[r] # NoOutcome =>
          /\ r \in announced \cap answered
          /\ signed[r] \in Expected \cap shown[r]
    /\ \A r \in Request : attested[r] # {} =>
          /\ signed[r] # NoOutcome
          /\ attested[r] = {signed[r]}

LEMMA ServiceStep ==
    ASSUME RunDate \in [Scheduled -> Nat], ServiceInv, [Next]_vars
    PROVE  ServiceInv'
<1>1. CASE Tick
  BY <1>1 DEF Tick, ServiceInv
<1>2. ASSUME NEW r \in Request, Pay(r) PROVE ServiceInv'
  BY <1>2 DEF Pay, ServiceInv
<1>3. ASSUME NEW r \in Request, Announce(r) PROVE ServiceInv'
  BY <1>3 DEF Announce, ServiceInv
<1>4. ASSUME NEW r \in Request, NEW o \in Outcome, Show(r, o)
      PROVE  ServiceInv'
  BY <1>4 DEF Show, ServiceInv
<1>5. ASSUME NEW r \in Request, Store(r) PROVE ServiceInv'
  BY <1>5 DEF Store, ServiceInv
<1>6. ASSUME NEW r \in Request, NEW o \in Outcome, Sign(r, o)
      PROVE  ServiceInv'
  BY <1>6 DEF Sign, ServiceInv
<1>7. ASSUME NEW r \in Request, Attest(r) PROVE ServiceInv'
  BY <1>7 DEF Attest, ServiceInv
<1>8. CASE UNCHANGED vars
  BY <1>8 DEF vars, ServiceInv
<1> QED
  BY <1>1, <1>2, <1>3, <1>4, <1>5, <1>6, <1>7, <1>8 DEF Next

\* Every attestation is the only one of its request and rests on a payment, an
\* announcement, a stored answer and a shown result (handle_job_request,
\* run_scheduled_job).
THEOREM AttestationsRest ==
    ASSUME RunDate \in [Scheduled -> Nat]
    PROVE  Spec => []AttestationRests
<1>1. Init => ServiceInv
  BY DEF Init, ServiceInv
<1>2. ServiceInv /\ [Next]_vars => ServiceInv'
  BY ServiceStep
<1>3. ServiceInv => AttestationRests
  BY DEF ServiceInv, AttestationRests
<1> QED
  BY <1>1, <1>2, <1>3, PTL DEF Spec

=============================================================================
