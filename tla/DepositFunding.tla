--------------------------- MODULE DepositFunding ---------------------------
(***************************************************************************)
(* Card deposits into a customer wallet: checkout requests that open a     *)
(* provider session and attach it to a deposit attempt, signed checkout    *)
(* webhooks, and the recovery worker that asks the provider itself about   *)
(* attempts no webhook has credited.  Webhook and recovery finish in the   *)
(* same transaction, finalizeDepositCredit.                                *)
(*                                                                         *)
(* Every database transaction and every provider call is one action.       *)
(* Inbox and recovery rows are leased as LeaseRow describes.  The provider *)
(* and the customer are external: a session is paid at most once, an       *)
(* expired one never, and opening a session twice under one idempotency    *)
(* key gives the first session again.                                      *)
(***************************************************************************)
EXTENDS Integers, FiniteSets, Functions, LeaseRow

CONSTANTS
  Deposits,       \* deposit attempts: (wallet, idempotency key) pairs
  Credit,         \* Credit[d]: the amount deposit d credits
  CheckoutLanes,  \* concurrent createCheckoutSession requests
  WebhookLanes,   \* concurrent webhook handlers
  WorkerLanes,    \* concurrent runs of processDepositCreditRecovery
  Runtimes,       \* deployments: finance mode, API key, recovery key
  MaxRequests,    \* bound: checkout requests per attempt
  MaxDeliveries,  \* bound: webhook deliveries, redeliveries included
  MaxFaults,      \* bound: crashes, redeployments and failing calls
  MaxExpiries,    \* bound: claims after which a held lease no longer expires
  MaxPolls,       \* bound: polls of a session that is neither paid nor expired
  None            \* SQL null

ServerLanes == CheckoutLanes \cup WebhookLanes
Lanes == ServerLanes \cup WorkerLanes

FinanceModes == {"normal", "recovery_only", "locked"}

\* stripe: the API's key is configured and fits the events' mode.
\* recoveryKey: the worker's own key fits, is missing, or is of another mode.
RuntimeRecords == [finance : FinanceModes, stripe : BOOLEAN,
                   recoveryKey : {"ok", "missing", "mismatch"}]

\* completedPaid and completedUnpaid are checkout.session.completed with the
\* payment status they carry; asyncPaid and asyncFailed are
\* checkout.session.async_payment_succeeded and _failed.
SuccessKinds == {"completedPaid", "completedUnpaid", "asyncPaid"}
FailureKinds == {"asyncFailed", "expired"}
Events == [deposit : Deposits, kind : SuccessKinds \cup FailureKinds]

\* "altered": signed under the identity of the genuine event, with other amounts.
Envelopes == {"exact", "altered"}

ASSUME ConstantsAssumption ==
  /\ IsFiniteSet(Deposits)
  /\ Credit \in [Deposits -> Nat \ {0}]
  /\ Runtimes \subseteq RuntimeRecords
  /\ CheckoutLanes \cap WebhookLanes = {}
  /\ ServerLanes \cap WorkerLanes = {}
  /\ MaxRequests \in Nat /\ MaxDeliveries \in Nat /\ MaxFaults \in Nat
  /\ MaxExpiries \in Nat /\ MaxPolls \in Nat
  /\ None \notin Deposits \cup Events

VARIABLES
  attempt,     \* DepositAttempt rows
  credits,     \* credits[d]: DEPOSIT ledger rows that reference d's session
  available,   \* Wallet.availableBalance
  inbox,       \* PaymentProviderEvent rows
  recovery,    \* DepositCreditRecovery rows
  evidence,    \* DepositCreditEvidence rows, by deposit
  session,     \* the provider's Checkout Session of each attempt
  flagged,     \* the session's charge was refunded or disputed
  linked,      \* attempts whose checkout URL reached the customer
  sent,        \* events the provider has emitted
  lane,        \* what each request, handler and worker lane is doing
  batch,       \* batch[w]: what worker lane w has selected and not yet tried
  runtime,     \* the deployed environment
  requests,    \* checkout requests made for each attempt
  deliveries,  \* webhook deliveries so far
  faults       \* crashes, redeployments and failing calls so far

moneyVars == <<attempt, credits, available>>
providerVars == <<session, flagged, linked, sent>>
boundVars == <<runtime, requests, deliveries, faults>>
vars == <<attempt, credits, available, inbox, recovery, evidence, session,
          flagged, linked, sent, lane, batch, runtime, requests, deliveries,
          faults>>

-----------------------------------------------------------------------------
(* State *)

CreditBacked == {"SUCCEEDED", "DISPUTED", "CHARGEBACK"}
PreCredit == {"CREATED", "PENDING_CUSTOMER_ACTION", "FAILED", "EXPIRED"}

\* session: providerSessionId is set; ledger: ledgerTransactionId is set.
NoAttempt == [status |-> "NONE", session |-> FALSE, ledger |-> FALSE]

NoRow == [status |-> "ABSENT", attempts |-> 0, due |-> FALSE, env |-> "exact"]

\* evidence: the claim whose DepositCreditEvidence the row selected, or 0.
NoRecovery == [status |-> "ABSENT", attempts |-> 0, due |-> FALSE, evidence |-> 0]

\* What a retrieval has read: the session, and whether its payment succeeded.
NoFacts == [checkout |-> "NONE", paid |-> FALSE]

\* A lane at program point pc working on an attempt or event under a claim.
At(pc, job, attempts) ==
  [pc |-> pc, job |-> job, attempts |-> attempts, seen |-> NoFacts,
   verdict |-> "NONE"]

Idle == At("idle", None, 0)

Init ==
  /\ attempt = [d \in Deposits |-> NoAttempt]
  /\ credits = [d \in Deposits |-> 0]
  /\ available = 0
  /\ inbox = [e \in Events |-> NoRow]
  /\ recovery = [d \in Deposits |-> NoRecovery]
  /\ evidence = [d \in Deposits |-> {}]
  /\ session = [d \in Deposits |-> "NONE"]
  /\ flagged = [d \in Deposits |-> FALSE]
  /\ linked = {}
  /\ sent = {}
  /\ lane = [l \in Lanes |-> Idle]
  /\ batch = [w \in WorkerLanes |-> {}]
  /\ runtime \in Runtimes
  /\ requests = [d \in Deposits |-> 0]
  /\ deliveries = 0
  /\ faults = 0

\* Finance mode gates (finance-runtime-mode.ts).
RecoveryAllowed == runtime.finance # "locked"
NewLiabilityAllowed == runtime.finance = "normal"

Goto(l, pc) == lane' = [lane EXCEPT ![l].pc = pc]
Rest(l) == lane' = [lane EXCEPT ![l] = Idle]
Caught(l, verdict) == [lane[l] EXCEPT !.pc = "caught", !.verdict = verdict]

Fault == faults < MaxFaults /\ faults' = faults + 1

-----------------------------------------------------------------------------
(* createCheckoutSession.                                                  *)

\* assertExactDepositAttempt: the two phases a request may go on from.
PreSession(a) == a.status \in {"CREATED", "FAILED"} /\ ~a.session
Attached(a) == a.status = "PENDING_CUSTOMER_ACTION" /\ a.session

Found(a) == IF a.status = "NONE" THEN [a EXCEPT !.status = "CREATED"] ELSE a

\* The request finds or creates the attempt of its idempotency key; the unique
\* key makes concurrent creation the same as finding it.
CheckoutStart(l, d) ==
  LET a == Found(attempt[d])
  IN /\ lane[l].pc = "idle"
     /\ NewLiabilityAllowed
     /\ runtime.stripe
     /\ requests[d] < MaxRequests
     /\ requests' = [requests EXCEPT ![d] = @ + 1]
     /\ attempt' = [attempt EXCEPT ![d] = a]
     /\ lane' = [lane EXCEPT ![l] = IF PreSession(a) THEN At("opening", d, 0)
                                    ELSE IF Attached(a) THEN At("reusing", d, 0)
                                    ELSE Idle]
     /\ UNCHANGED <<credits, available, inbox, recovery, evidence, providerVars,
                    batch, runtime, deliveries, faults>>

Opened(d) == [session EXCEPT ![d] = IF @ = "NONE" THEN "OPEN" ELSE @]

\* createSession under the attempt's own idempotency key.
OpenSession(l) ==
  /\ lane[l].pc = "opening"
  /\ session' = Opened(lane[l].job)
  /\ Goto(l, "attaching")
  /\ UNCHANGED <<moneyVars, inbox, recovery, evidence, flagged, linked, sent,
                 batch, boundVars>>

\* The call fails, before or after the provider acted on it.
OpenSessionFails(l) ==
  /\ lane[l].pc = "opening"
  /\ Fault
  /\ session' \in {session, Opened(lane[l].job)}
  /\ Goto(l, "failing")
  /\ UNCHANGED <<moneyVars, inbox, recovery, evidence, flagged, linked, sent,
                 batch, runtime, requests, deliveries>>

\* Mutant: the failure of a request resets the attempt, whoever attached it.
MutRecordFailure(l) ==
  LET d == lane[l].job
  IN /\ lane[l].pc = "failing"
     /\ attempt' = [attempt EXCEPT ![d].status = "FAILED", ![d].session = FALSE]
     /\ Rest(l)
     /\ UNCHANGED <<credits, available, inbox, recovery, evidence, providerVars,
                    batch, boundVars>>

\* recordDepositProviderFailure: only an attempt without a session fails.
RecordFailure(l) ==
  LET d == lane[l].job
  IN /\ lane[l].pc = "failing"
     /\ attempt' = IF PreSession(attempt[d])
                     THEN [attempt EXCEPT ![d].status = "FAILED"]
                     ELSE attempt
     /\ Rest(l)
     /\ UNCHANGED <<credits, available, inbox, recovery, evidence, providerVars,
                    batch, boundVars>>

\* The answer reaches the customer, or is lost on the way.
Answer(d) == linked' \in {linked, linked \cup {d}}

WithSession(a) ==
  [a EXCEPT !.status = "PENDING_CUSTOMER_ACTION", !.session = TRUE]

\* The session is attached once; a request that comes second answers only if it
\* finds exactly that attachment.
Attach(l) ==
  LET d == lane[l].job
      first == PreSession(attempt[d])
  IN /\ lane[l].pc = "attaching"
     /\ attempt' = IF first
                     THEN [attempt EXCEPT ![d] = WithSession(@)]
                     ELSE attempt
     /\ IF first \/ Attached(attempt[d]) THEN Answer(d) ELSE UNCHANGED linked
     /\ Rest(l)
     /\ UNCHANGED <<credits, available, inbox, recovery, evidence, session,
                    flagged, sent, batch, boundVars>>

\* A repeated request retrieves the attached session and returns it if open.
Reuse(l) ==
  LET d == lane[l].job
  IN /\ lane[l].pc = "reusing"
     /\ IF session[d] = "OPEN" THEN Answer(d) ELSE UNCHANGED linked
     /\ Rest(l)
     /\ UNCHANGED <<moneyVars, inbox, recovery, evidence, session, flagged, sent,
                    batch, boundVars>>

-----------------------------------------------------------------------------
(* The provider and the customer (external).                               *)

Becomes(d, status, kind) ==
  /\ session' = [session EXCEPT ![d] = status]
  /\ sent' = sent \cup {[deposit |-> d, kind |-> kind]}
  /\ UNCHANGED <<moneyVars, inbox, recovery, evidence, flagged, linked, lane,
                 batch, boundVars>>

\* The customer completes the session; a card is charged at once, another
\* method settles later.
Pay(d) ==
  /\ d \in linked
  /\ session[d] = "OPEN"
  /\ \/ Becomes(d, "PAID", "completedPaid")
     \/ Becomes(d, "PROCESSING", "completedUnpaid")

Settle(d) ==
  /\ session[d] = "PROCESSING"
  /\ \/ Becomes(d, "PAID", "asyncPaid")
     \/ Becomes(d, "DECLINED", "asyncFailed")

\* The session expires; or it is announced as expired while a payment is still
\* in flight that may yet succeed (the race deposit-status.ts names).
ExpireSession(d) ==
  \/ session[d] = "OPEN" /\ Becomes(d, "EXPIRED", "expired")
  \/ session[d] \in {"OPEN", "PROCESSING"} /\ Becomes(d, session[d], "expired")

\* The charge of a paid session is disputed or refunded at the provider.
Flag(d) ==
  /\ session[d] = "PAID"
  /\ ~flagged[d]
  /\ flagged' = [flagged EXCEPT ![d] = TRUE]
  /\ UNCHANGED <<moneyVars, inbox, recovery, evidence, session, linked, sent,
                 lane, batch, boundVars>>

\* transitionPaymentDispute projects disputes onto a credited attempt.
DisputeProjects(d, status) ==
  /\ flagged[d]
  /\ attempt[d].status \in CreditBacked \ {status}
  /\ attempt' = [attempt EXCEPT ![d].status = status]
  /\ UNCHANGED <<credits, available, inbox, recovery, evidence, providerVars,
                 lane, batch, boundVars>>

-----------------------------------------------------------------------------
(* finalizeDepositCredit: one Serializable transaction for both authorities. *)

\* The ledger row of the session exists and the attempt points at it.
Replays(d) ==
  credits[d] = 1 /\ attempt[d].ledger /\ attempt[d].status \in CreditBacked

\* Mutant: the ledger is not searched for the session.
MutCreditable(d) == attempt[d].status \in PreCredit \cup CreditBacked

Creditable(d) ==
  credits[d] = 0 /\ ~attempt[d].ledger /\ attempt[d].status \in PreCredit

\* findExactAttempt and assertAttemptExact demand the attached session.
Finalizable(d) == attempt[d].session /\ (Replays(d) \/ Creditable(d))

Finalize(d) ==
  IF Creditable(d)
    THEN /\ attempt' = [attempt EXCEPT ![d].status = "SUCCEEDED", ![d].ledger = TRUE]
         /\ credits' = [credits EXCEPT ![d] = @ + 1]
         /\ available' = available + Credit[d]
    ELSE UNCHANGED moneyVars

-----------------------------------------------------------------------------
(* Signed checkout webhooks: handleWebhook.                                *)

Proceed(l, e, attempts) ==
  lane' = [lane EXCEPT ![l] =
             IF RecoveryAllowed THEN At("received", e, attempts) ELSE Idle]

\* The row is persisted first, in every finance mode.
ReceiveNew(l, e, v) ==
  /\ inbox[e].status = "ABSENT"
  /\ inbox' = [inbox EXCEPT ![e] =
                 [status |-> "PENDING", attempts |-> 0, due |-> TRUE, env |-> v]]
  /\ Proceed(l, e, 0)

\* A processed success is replayed against the ledger, another terminal row is
\* acknowledged, anything else goes on to the claim.
ReceiveDuplicate(l, e, v) ==
  LET row == inbox[e]
  IN /\ row.status # "ABSENT"
     /\ row.env = v
     /\ IF row.status = "QUARANTINED" \/ (row.status = "PROCESSED" /\ e.kind \in FailureKinds)
          THEN UNCHANGED lane
        ELSE IF row.status = "PROCESSED" /\ RecoveryAllowed
          THEN lane' = [lane EXCEPT ![l] = At("replaying", e, row.attempts)]
        ELSE IF row.status = "PROCESSED"
          THEN UNCHANGED lane
          ELSE Proceed(l, e, row.attempts)
     /\ UNCHANGED inbox

\* Another envelope under a known identity quarantines the row, whoever holds
\* its lease; checkout events are never canonical dispute evidence.
ReceiveConflict(l, e, v) ==
  /\ inbox[e].status # "ABSENT"
  /\ inbox[e].env # v
  /\ inbox' = [inbox EXCEPT ![e].status = "QUARANTINED", ![e].due = FALSE]
  /\ UNCHANGED lane

Receive(l, e, v) ==
  /\ lane[l].pc = "idle"
  /\ e \in sent
  /\ runtime.stripe
  /\ deliveries < MaxDeliveries
  /\ deliveries' = deliveries + 1
  /\ \/ ReceiveNew(l, e, v)
     \/ ReceiveDuplicate(l, e, v)
     \/ ReceiveConflict(l, e, v)
  /\ UNCHANGED <<moneyVars, recovery, evidence, providerVars, batch, runtime,
                 requests, faults>>

\* The handler returns its own row to the inbox if the lease is stale...
WebhookRecover(l) ==
  /\ lane[l].pc = "received"
  /\ inbox' = [inbox EXCEPT ![lane[l].job] = Recovered(@)]
  /\ Goto(l, "claiming")
  /\ UNCHANGED <<moneyVars, recovery, evidence, providerVars, batch, boundVars>>

\* ...and claims it, or answers 503 so that the provider delivers again.
WebhookClaim(l) ==
  LET e == lane[l].job
  IN /\ lane[l].pc = "claiming"
     /\ IF Claimable(inbox[e]) /\ inbox[e].attempts = lane[l].attempts
          THEN /\ inbox' = [inbox EXCEPT ![e] = Claimed(@)]
               /\ lane' = [lane EXCEPT ![l] = At("leased", e, lane[l].attempts + 1)]
          ELSE /\ Rest(l)
               /\ UNCHANGED inbox
     /\ UNCHANGED <<moneyVars, recovery, evidence, providerVars, batch, boundVars>>

OwnsEvent(l) == OwnedBy(inbox[lane[l].job], lane[l].attempts)

Processed(row) == [row EXCEPT !.status = "PROCESSED", !.due = FALSE]

\* The commit acknowledgement may be lost; the lane then handles an error.
MayLoseCommit(l, next) == \E n \in {next, Caught(l, "RETRY")} :
                            lane' = [lane EXCEPT ![l] = n]

\* assertProviderFacts on the signed session.
ShowsPaid(e) == e.kind \in {"completedPaid", "asyncPaid"} /\ inbox[e].env = "exact"

\* processSuccessfulPayment credits or replays.
WebhookCredit(l) ==
  LET e == lane[l].job
  IN /\ lane[l].pc = "leased"
     /\ ShowsPaid(e)
     /\ OwnsEvent(l)
     /\ Finalizable(e.deposit)
     /\ Finalize(e.deposit)
     /\ inbox' = [inbox EXCEPT ![e] = Processed(@)]
     /\ MayLoseCommit(l, Idle)
     /\ UNCHANGED <<recovery, evidence, providerVars, batch, boundVars>>

\* Paid facts that do not fit the attempt are quarantined.
WebhookRefused(l) ==
  LET e == lane[l].job
  IN /\ lane[l].pc = "leased"
     /\ e.kind \in {"completedPaid", "asyncPaid"}
     /\ OwnsEvent(l)
     /\ inbox[e].env = "altered" \/ ~Finalizable(e.deposit)
     /\ lane' = [lane EXCEPT ![l] = Caught(l, "QUARANTINE")]
     /\ UNCHANGED <<moneyVars, inbox, recovery, evidence, providerVars, batch,
                    boundVars>>

\* Unpaid facts and lost leases are left to a later delivery.
WebhookDeferred(l) ==
  LET e == lane[l].job
  IN /\ lane[l].pc = "leased"
     /\ e.kind = "completedUnpaid" \/ ~OwnsEvent(l)
     /\ lane' = [lane EXCEPT ![l] = Caught(l, "RETRY")]
     /\ UNCHANGED <<moneyVars, inbox, recovery, evidence, providerVars, batch,
                    boundVars>>

\* Mutant: the provider's word for a failed payment becomes the status.
MutFailureStatus(kind) == IF kind = "expired" THEN "EXPIRED" ELSE "DECLINED"

FailureStatus(kind) == IF kind = "expired" THEN "EXPIRED" ELSE "FAILED"

\* markDepositAttemptFromSession: only an attempt still waiting is marked.
Marked(a, kind) ==
  IF a.status \in {"CREATED", "PENDING_CUSTOMER_ACTION"}
    THEN [a EXCEPT !.status = FailureStatus(kind)]
    ELSE a

WebhookMark(l) ==
  LET e == lane[l].job
  IN /\ lane[l].pc = "leased"
     /\ e.kind \in FailureKinds
     /\ OwnsEvent(l)
     /\ attempt' = [attempt EXCEPT ![e.deposit] = Marked(@, e.kind)]
     /\ inbox' = [inbox EXCEPT ![e] = Processed(@)]
     /\ MayLoseCommit(l, Idle)
     /\ UNCHANGED <<credits, available, recovery, evidence, providerVars, batch,
                    boundVars>>

\* The database kept failing.
WebhookFails(l) ==
  /\ lane[l].pc = "leased"
  /\ Fault
  /\ lane' = [lane EXCEPT ![l] = Caught(l, "RETRY")]
  /\ UNCHANGED <<moneyVars, inbox, recovery, evidence, providerVars, batch,
                 runtime, requests, deliveries>>

\* The row fails or is quarantined if the lane still owns it.
WebhookHandleError(l) ==
  /\ lane[l].pc = "caught"
  /\ inbox' = IF OwnsEvent(l)
                THEN [inbox EXCEPT ![lane[l].job] = Returned(@, lane[l].verdict)]
                ELSE inbox
  /\ Rest(l)
  /\ UNCHANGED <<moneyVars, recovery, evidence, providerVars, batch, boundVars>>

\* The redelivery of a processed success proves the ledger again, under the
\* snapshot it read; facts that no longer replay quarantine the row.
ReplayProcessed(l) ==
  LET e == lane[l].job
      unchanged == inbox[e].status = "PROCESSED" /\ inbox[e].attempts = lane[l].attempts
      proves == ShowsPaid(e) /\ Finalizable(e.deposit)
  IN /\ lane[l].pc = "replaying"
     /\ IF unchanged /\ proves THEN Finalize(e.deposit) ELSE UNCHANGED moneyVars
     /\ inbox' = IF unchanged /\ ~proves
                   THEN [inbox EXCEPT ![e].status = "QUARANTINED"]
                   ELSE inbox
     /\ Rest(l)
     /\ UNCHANGED <<recovery, evidence, providerVars, batch, boundVars>>

-----------------------------------------------------------------------------
(* processDepositCreditRecovery: one run of a worker lane.                 *)

\* Attached attempts nobody has credited and no recovery covers yet; their
\* minimum age of 15 minutes is left out.
Unrecovered == {d \in Deposits : /\ attempt[d].session
                                 /\ ~attempt[d].ledger
                                 /\ attempt[d].status \in PreCredit
                                 /\ recovery[d].status = "ABSENT"}

\* A candidate of a batch: the attempt and the attempts counter read with it.
Candidate(d) == [deposit |-> d, attempts |-> recovery[d].attempts]

SeedSelect(w) ==
  /\ lane[w].pc = "idle"
  /\ RecoveryAllowed
  /\ batch' = [batch EXCEPT ![w] = {Candidate(d) : d \in Unrecovered}]
  /\ Goto(w, "seeding")
  /\ UNCHANGED <<moneyVars, inbox, recovery, evidence, providerVars, boundVars>>

\* Each selected attempt gets its recovery row unless another lane was first.
SeedCreate(w) ==
  /\ lane[w].pc = "seeding"
  /\ \E c \in batch[w] :
       /\ batch' = [batch EXCEPT ![w] = @ \ {c}]
       /\ recovery' = IF recovery[c.deposit].status = "ABSENT"
                        THEN [recovery EXCEPT ![c.deposit] =
                               [NoRecovery EXCEPT !.status = "PENDING", !.due = TRUE]]
                        ELSE recovery
  /\ UNCHANGED <<moneyVars, inbox, evidence, providerVars, lane, boundVars>>

Sweep(w) ==
  /\ lane[w].pc = "seeding"
  /\ batch[w] = {}
  /\ recovery' = [d \in Deposits |-> Recovered(recovery[d])]
  /\ Goto(w, "swept")
  /\ UNCHANGED <<moneyVars, inbox, evidence, providerVars, batch, boundVars>>

Select(w) ==
  LET eligible == {d \in Deposits : Claimable(recovery[d])}
  IN /\ lane[w].pc = "swept"
     /\ batch' = [batch EXCEPT ![w] = {Candidate(d) : d \in eligible}]
     /\ Goto(w, IF eligible = {} THEN "idle" ELSE "claiming")
     /\ UNCHANGED <<moneyVars, inbox, recovery, evidence, providerVars, boundVars>>

\* The lane goes on with its batch.
NextOf(w, todo) == IF todo = {} THEN Idle ELSE At("claiming", None, 0)
Continue(w) == lane' = [lane EXCEPT ![w] = NextOf(w, batch[w])]

Claim(w) ==
  /\ lane[w].pc = "claiming"
  /\ \E c \in batch[w] :
       LET d == c.deposit
           todo == batch[w] \ {c}
       IN /\ batch' = [batch EXCEPT ![w] = todo]
          /\ IF Claimable(recovery[d]) /\ recovery[d].attempts = c.attempts
               THEN /\ recovery' = [recovery EXCEPT ![d] = Claimed(@)]
                    /\ lane' = [lane EXCEPT ![w] = At("claimed", d, c.attempts + 1)]
               ELSE /\ lane' = [lane EXCEPT ![w] = NextOf(w, todo)]
                    /\ UNCHANGED recovery
  /\ UNCHANGED <<moneyVars, inbox, evidence, providerVars, boundVars>>

OwnsRecovery(w) == OwnedBy(recovery[lane[w].job], lane[w].attempts)

Credited(d) == attempt[d].status \in CreditBacked /\ attempt[d].ledger

\* The claimed row is read again with its attempt.
Reread(w) ==
  /\ lane[w].pc = "claimed"
  /\ IF ~OwnsRecovery(w) THEN Continue(w)
     ELSE Goto(w, IF Credited(lane[w].job) THEN "superseding" ELSE "retrieving")
  /\ UNCHANGED <<moneyVars, inbox, recovery, evidence, providerVars, batch, boundVars>>

Ended(row, status, claim) ==
  [row EXCEPT !.status = status, !.due = FALSE, !.evidence = claim]

\* supersedeCreditedRecovery, or a retry if the credit cannot be proved.
Supersede(w) ==
  LET d == lane[w].job
  IN /\ lane[w].pc = "superseding"
     /\ recovery' = IF ~OwnsRecovery(w) THEN recovery
                    ELSE [recovery EXCEPT ![d] =
                            IF Replays(d) THEN Ended(@, "SUPERSEDED", 0)
                                          ELSE Returned(@, "RETRY")]
     /\ Continue(w)
     /\ UNCHANGED <<moneyVars, inbox, evidence, providerVars, batch, boundVars>>

\* retrieveStripeDepositEvidence reads the session first...
RetrieveSession(w) ==
  /\ lane[w].pc = "retrieving"
  /\ lane' = [lane EXCEPT ![w] =
       CASE runtime.recoveryKey = "missing" -> Caught(w, "RETRY")
         [] runtime.recoveryKey = "mismatch" -> Caught(w, "QUARANTINE")
         [] OTHER -> [lane[w] EXCEPT !.pc = "reading",
                                     !.seen = [checkout |-> session[lane[w].job], paid |-> FALSE]]]
  /\ UNCHANGED <<moneyVars, inbox, recovery, evidence, providerVars, batch, boundVars>>

\* ...then the payment and the charge it named, if it named one: sessions nobody
\* completed may carry none.  A disputed or refunded charge is refused.
RetrievePayment(w) ==
  LET d == lane[w].job
      seen == lane[w].seen
  IN /\ lane[w].pc = "reading"
     /\ \E named \in BOOLEAN :
          /\ ~named => seen.checkout \in {"OPEN", "EXPIRED"}
          /\ lane' = [lane EXCEPT ![w] =
               IF named /\ flagged[d] THEN Caught(w, "QUARANTINE")
               ELSE [lane[w] EXCEPT !.pc = "persisting",
                                    !.seen.paid = named /\ session[d] = "PAID"]]
     /\ UNCHANGED <<moneyVars, inbox, recovery, evidence, providerVars, batch, boundVars>>

\* assertDepositRecoveryEvidenceMatchesAttempt: a session read as unpaid whose
\* payment had succeeded when it was read.
Contradicts(seen) == seen.checkout # "PAID" /\ seen.paid

\* Mutant: a session that is merely unpaid is closed like an expired one.
MutDecision(w) ==
  LET seen == lane[w].seen
  IN IF Contradicts(seen) THEN Caught(w, "QUARANTINE")
     ELSE IF seen.checkout # "PAID" THEN [lane[w] EXCEPT !.pc = "closing"]
     ELSE [lane[w] EXCEPT !.pc = "finalizing"]

\* Where the run goes from validated evidence.
Decision(w) ==
  LET seen == lane[w].seen
  IN IF Contradicts(seen) THEN Caught(w, "QUARANTINE")
     ELSE IF seen.checkout = "EXPIRED" THEN [lane[w] EXCEPT !.pc = "closing"]
     ELSE IF seen.checkout # "PAID" THEN Caught(w, "RETRY")
     ELSE [lane[w] EXCEPT !.pc = "finalizing"]

\* persistEvidence, fenced by the claim.
PersistEvidence(w) ==
  LET d == lane[w].job
      observed == [claim |-> lane[w].attempts, seen |-> lane[w].seen]
  IN /\ lane[w].pc = "persisting"
     /\ IF OwnsRecovery(w)
          THEN /\ evidence' = [evidence EXCEPT ![d] = @ \cup {observed}]
               /\ lane' = [lane EXCEPT ![w] = Decision(w)]
          ELSE /\ lane' = [lane EXCEPT ![w] = Caught(w, "QUARANTINE")]
               /\ UNCHANGED evidence
     /\ UNCHANGED <<moneyVars, inbox, recovery, providerVars, batch, boundVars>>

\* closeUnpaidRecovery: the attempt expires with its session.
CloseUnpaid(w) ==
  LET d == lane[w].job
  IN /\ lane[w].pc = "closing"
     /\ IF OwnsRecovery(w)
          THEN /\ attempt' = IF Credited(d) THEN attempt
                             ELSE [attempt EXCEPT ![d].status = "EXPIRED"]
               /\ recovery' = [recovery EXCEPT ![d] =
                                IF Credited(d) THEN Ended(@, "SUPERSEDED", 0)
                                ELSE Ended(@, "CLOSED_UNPAID", lane[w].attempts)]
               /\ MayLoseCommit(w, NextOf(w, batch[w]))
          ELSE /\ Continue(w)
               /\ UNCHANGED <<attempt, recovery>>
     /\ UNCHANGED <<credits, available, inbox, evidence, providerVars, batch, boundVars>>

\* finalizeDepositCredit under the recovery's authority.
RecoveryCredit(w) ==
  LET d == lane[w].job
  IN /\ lane[w].pc = "finalizing"
     /\ lane[w].seen.paid
     /\ OwnsRecovery(w)
     /\ Finalizable(d)
     /\ Finalize(d)
     /\ recovery' = [recovery EXCEPT ![d] = Ended(@, "PROCESSED", lane[w].attempts)]
     /\ MayLoseCommit(w, NextOf(w, batch[w]))
     /\ UNCHANGED <<inbox, evidence, providerVars, batch, boundVars>>

RecoveryRefused(w) ==
  /\ lane[w].pc = "finalizing"
  /\ ~(lane[w].seen.paid /\ OwnsRecovery(w) /\ Finalizable(lane[w].job))
  /\ lane' = [lane EXCEPT ![w] = Caught(w, "QUARANTINE")]
  /\ UNCHANGED <<moneyVars, inbox, recovery, evidence, providerVars, batch, boundVars>>

\* A provider call or a transaction fails.
RecoveryFails(w) ==
  /\ lane[w].pc \in {"retrieving", "reading", "persisting", "closing", "finalizing"}
  /\ Fault
  /\ lane' = [lane EXCEPT ![w] = Caught(w, "RETRY")]
  /\ UNCHANGED <<moneyVars, inbox, recovery, evidence, providerVars, batch,
                 runtime, requests, deliveries>>

\* Mutant: the error handler forgets to compare the claim.
MutRecoveryHandleError(w) ==
  LET d == lane[w].job
  IN /\ lane[w].pc = "caught"
     /\ recovery' = IF recovery[d].status = "PROCESSING"
                      THEN [recovery EXCEPT ![d] = Returned(@, lane[w].verdict)]
                      ELSE recovery
     /\ Continue(w)
     /\ UNCHANGED <<moneyVars, inbox, evidence, providerVars, batch, boundVars>>

\* A quarantined recovery keeps the evidence its claim persisted.
GivenUp(row, d, verdict) ==
  LET persisted == \E o \in evidence[d] : o.claim = row.attempts
  IN [Returned(row, verdict) EXCEPT !.evidence =
        IF verdict = "QUARANTINE" /\ persisted THEN row.attempts ELSE 0]

\* quarantineRecovery and retryRecovery, fenced by the claim.
RecoveryHandleError(w) ==
  LET d == lane[w].job
  IN /\ lane[w].pc = "caught"
     /\ recovery' = IF OwnsRecovery(w)
                      THEN [recovery EXCEPT ![d] = GivenUp(@, d, lane[w].verdict)]
                      ELSE recovery
     /\ Continue(w)
     /\ UNCHANGED <<moneyVars, inbox, evidence, providerVars, batch, boundVars>>

-----------------------------------------------------------------------------
(* Time and failures.                                                      *)

HoldsEvent(l, e) ==
  lane[l].pc \in {"leased", "caught"} /\ lane[l].job = e /\ OwnsEvent(l)

Working == {"claimed", "superseding", "retrieving", "reading", "persisting",
            "closing", "finalizing", "caught"}

HoldsRecovery(w, d) ==
  lane[w].pc \in Working /\ lane[w].job = d /\ OwnsRecovery(w)

\* The deadline of a row passes: its backoff ends or its lease goes stale.
\* After MaxExpiries claims a lease that is still held no longer expires.
ElapseEvent(e) ==
  LET row == inbox[e]
  IN /\ row.status \in {"PENDING", "FAILED", "PROCESSING"}
     /\ ~row.due
     /\ row.status = "PROCESSING" /\ (\E l \in WebhookLanes : HoldsEvent(l, e))
          => row.attempts < MaxExpiries
     /\ inbox' = [inbox EXCEPT ![e].due = TRUE]
     /\ UNCHANGED <<moneyVars, recovery, evidence, providerVars, lane, batch, boundVars>>

\* A poll that can settle something: the provider's answer is final and the
\* worker may read it.
Conclusive(d) == session[d] \in {"PAID", "EXPIRED"} /\ runtime.recoveryKey = "ok"

\* After MaxPolls claims only a conclusive poll is started.
ElapseRecovery(d) ==
  LET row == recovery[d]
  IN /\ row.status \in {"FAILED", "PROCESSING"}
     /\ ~row.due
     /\ row.status = "PROCESSING" /\ (\E w \in WorkerLanes : HoldsRecovery(w, d))
          => row.attempts < MaxExpiries
     /\ row.attempts < MaxPolls \/ Conclusive(d)
     /\ recovery' = [recovery EXCEPT ![d].due = TRUE]
     /\ UNCHANGED <<moneyVars, inbox, evidence, providerVars, lane, batch, boundVars>>

\* A process dies, or a worker run aborts on an error outside its try block.
Crash(l) ==
  /\ lane[l].pc # "idle"
  /\ Fault
  /\ Rest(l)
  /\ batch' = [w \in WorkerLanes |-> IF w = l THEN {} ELSE batch[w]]
  /\ UNCHANGED <<moneyVars, inbox, recovery, evidence, providerVars, runtime,
                 requests, deliveries>>

\* A redeployment restarts every process under a new environment.
Redeploy(r) ==
  /\ r # runtime
  /\ Fault
  /\ runtime' = r
  /\ lane' = [l \in Lanes |-> Idle]
  /\ batch' = [w \in WorkerLanes |-> {}]
  /\ UNCHANGED <<moneyVars, inbox, recovery, evidence, providerVars, requests,
                 deliveries>>

Checkout(l) == OpenSession(l) \/ RecordFailure(l) \/ Attach(l) \/ Reuse(l)

Handle(l) ==
  \/ WebhookRecover(l) \/ WebhookClaim(l)
  \/ WebhookCredit(l) \/ WebhookRefused(l) \/ WebhookDeferred(l) \/ WebhookMark(l)
  \/ WebhookHandleError(l) \/ ReplayProcessed(l)

Work(w) ==
  \/ SeedSelect(w) \/ SeedCreate(w) \/ Sweep(w) \/ Select(w) \/ Claim(w)
  \/ Reread(w) \/ Supersede(w)
  \/ RetrieveSession(w) \/ RetrievePayment(w) \/ PersistEvidence(w)
  \/ CloseUnpaid(w) \/ RecoveryCredit(w) \/ RecoveryRefused(w)
  \/ RecoveryHandleError(w)

Next ==
  \/ \E l \in CheckoutLanes : \/ \E d \in Deposits : CheckoutStart(l, d)
                              \/ Checkout(l)
                              \/ OpenSessionFails(l)
  \/ \E l \in WebhookLanes : \/ \E e \in Events, v \in Envelopes : Receive(l, e, v)
                             \/ Handle(l)
                             \/ WebhookFails(l)
  \/ \E w \in WorkerLanes : Work(w) \/ RecoveryFails(w)
  \/ \E d \in Deposits : \/ Pay(d) \/ Settle(d) \/ ExpireSession(d) \/ Flag(d)
                         \/ \E status \in CreditBacked : DisputeProjects(d, status)
                         \/ ElapseRecovery(d)
  \/ \E e \in Events : ElapseEvent(e)
  \/ \E l \in Lanes : Crash(l)
  \/ \E r \in Runtimes : Redeploy(r)

Spec == Init /\ [][Next]_vars

-----------------------------------------------------------------------------
(* Properties *)

AttemptRows == [status : {"NONE"} \cup PreCredit \cup CreditBacked,
                session : BOOLEAN, ledger : BOOLEAN]

InboxRows == [status : {"ABSENT", "PENDING", "PROCESSING", "FAILED", "PROCESSED",
                        "QUARANTINED"},
              attempts : Nat, due : BOOLEAN, env : Envelopes]

RecoveryRows == [status : {"ABSENT", "PENDING", "PROCESSING", "FAILED", "PROCESSED",
                           "CLOSED_UNPAID", "SUPERSEDED", "QUARANTINED"},
                 attempts : Nat, due : BOOLEAN, evidence : Nat]

SessionStatuses == {"NONE", "OPEN", "PROCESSING", "PAID", "DECLINED", "EXPIRED"}

Facts == [checkout : SessionStatuses, paid : BOOLEAN]

LaneStates == [pc : {"idle", "opening", "failing", "attaching", "reusing", "received",
                     "claiming", "leased", "replaying", "seeding", "swept"} \cup Working,
               job : Deposits \cup Events \cup {None}, attempts : Nat, seen : Facts,
               verdict : {"NONE", "RETRY", "QUARANTINE"}]

\* Every variable has its type (the rows of billing.service.ts and of
\* deposit-credit-recovery.processor.ts and the lanes that work on them).
TypeOK ==
  /\ attempt \in [Deposits -> AttemptRows]
  /\ credits \in [Deposits -> Nat]
  /\ available \in Nat
  /\ inbox \in [Events -> InboxRows]
  /\ recovery \in [Deposits -> RecoveryRows]
  /\ evidence \in [Deposits -> SUBSET [claim : Nat, seen : Facts]]
  /\ session \in [Deposits -> SessionStatuses]
  /\ flagged \in [Deposits -> BOOLEAN]
  /\ linked \subseteq Deposits
  /\ sent \subseteq Events
  /\ lane \in [Lanes -> LaneStates]
  /\ batch \in [WorkerLanes -> SUBSET [deposit : Deposits, attempts : Nat]]
  /\ runtime \in Runtimes
  /\ requests \in [Deposits -> Nat]
  /\ deliveries \in Nat
  /\ faults \in Nat

\* However many deliveries, replays and recovery runs prove one payment, the
\* wallet holds one ledger row for it, the attempt points at it exactly when it
\* shows a credit-backed status, and the balance is what the ledger says.  Only
\* a session the provider was paid for is credited: not a completed one that is
\* still unpaid, and not one whose facts were altered.
CreditedOnce ==
  /\ \A d \in Deposits :
       /\ credits[d] \in {0, 1}
       /\ credits[d] = 1 => session[d] = "PAID"
       /\ attempt[d].ledger <=> credits[d] = 1
       /\ attempt[d].status \in CreditBacked <=> credits[d] = 1
  /\ available = SumFunction([d \in Deposits |-> credits[d] * Credit[d]])

\* A checkout URL the customer can pay at belongs to a session the attempt is
\* attached to, although requests race, fail and repeat; a payment could
\* otherwise never be credited.
LinkAttached == \A d \in linked : attempt[d].session

\* A processed success has its credit.
EventProves(e) ==
  inbox[e].status = "PROCESSED" /\ e.kind \in SuccessKinds => credits[e.deposit] = 1

\* The row selected evidence of its own claim that shows the session so.
Selected(d, status) ==
  /\ recovery[d].evidence = recovery[d].attempts
  /\ \E o \in evidence[d] : /\ o.claim = recovery[d].attempts
                            /\ o.seen.checkout = status

\* A settled recovery has its credit, or its proof that there is none to give.
RecoveryProves(d) ==
  /\ recovery[d].status = "PROCESSED" => credits[d] = 1 /\ Selected(d, "PAID")
  /\ recovery[d].status = "SUPERSEDED" => credits[d] = 1 /\ recovery[d].evidence = 0
  /\ recovery[d].status = "CLOSED_UNPAID" =>
       /\ credits[d] = 0
       /\ session[d] = "EXPIRED"
       /\ attempt[d].status = "EXPIRED"
       /\ Selected(d, "EXPIRED")

\* Every finished authority is right about the money: processed events and
\* recoveries have their credit, with paid evidence of the very claim that
\* finished them, and a recovery closed as unpaid has expired evidence of a
\* session that never was and never will be paid.
AuthoritiesProve ==
  /\ \A e \in Events : EventProves(e)
  /\ \A d \in Deposits : RecoveryProves(d)

\* An unexpired claim of a recovery is ended only by the lane that holds it,
\* though stale lanes keep running against the same row.
RecoveryLeaseStep ==
  \A d \in Deposits :
    /\ recovery[d].status = "PROCESSING" /\ ~recovery[d].due
    /\ recovery'[d].status # "PROCESSING"
    => \E w \in WorkerLanes : HoldsRecovery(w, d) /\ lane'[w] # lane[w]

RecoveryFenced == [][RecoveryLeaseStep]_vars

-----------------------------------------------------------------------------
(* The contract this component implements.                                 *)

Contract == INSTANCE DepositContract WITH
  funding <- [d \in Deposits |-> IF credits[d] > 0 THEN "FUNDED"
                                 ELSE IF recovery[d].status = "CLOSED_UNPAID" THEN "CLOSED"
                                 ELSE "OPEN"],
  balance <- available

\* Webhooks, replays, recovery runs, crashes and lost answers implement the
\* contract: a deposit is funded once with its amount, or closed for good.
ImplementsContract == Contract!Spec

-----------------------------------------------------------------------------
(* Liveness *)

\* Requests in progress and scheduled worker runs make progress, and deadlines
\* pass.  Deliveries, payments and faults are never owed.
Fairness ==
  /\ \A l \in CheckoutLanes : WF_vars(Checkout(l))
  /\ \A l \in WebhookLanes : WF_vars(Handle(l))
  /\ \A w \in WorkerLanes : WF_vars(Work(w))
  /\ \A d \in Deposits : WF_vars(ElapseRecovery(d))

FairSpec == Spec /\ Fairness

\* The deployed worker may recover deposits.
Serving == RecoveryAllowed /\ runtime.recoveryKey = "ok"

\* Once the worker is allowed to recover and has its key, every payment is
\* credited and every expired session closed, or put before Finance, even if
\* no webhook is ever delivered and whatever crashed on the way.
DepositsSettle ==
  \A d \in Deposits :
    <>[]Serving =>
      /\ session[d] = "PAID" ~> (credits[d] = 1 \/ recovery[d].status = "QUARANTINED")
      /\ (session[d] = "EXPIRED" /\ attempt[d].session)
           ~> recovery[d].status \in {"CLOSED_UNPAID", "QUARANTINED"}

=============================================================================
