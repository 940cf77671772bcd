-------------------------- MODULE PayoutExecution --------------------------
(***************************************************************************)
(* Publisher withdrawals and their execution at a payout provider: the     *)
(* request that reserves balance, its approval or rejection, the operator  *)
(* requests that send, recover and cancel an execution, the worker that    *)
(* promotes stale stages and polls the provider, and the payout webhook    *)
(* inbox.  Every path to completion ends in finalizePayoutExecution.       *)
(*                                                                         *)
(* One database transaction, one provider call: one action.  Updates of    *)
(* PayoutExecution rows also pass the database trigger                     *)
(* guard_payout_execution_identity (Accepts).  Time is not measured: a     *)
(* 15-minute lease may be over at any moment, so a stale claim or stage    *)
(* may be taken over while its first owner is still running.  The age of a *)
(* claim counts only against the 23 hours after which it is no longer      *)
(* replayed and the 24 hours after which the provider forgets the key.     *)
(*                                                                         *)
(* Refusals that depend on who asks or on publisher data (roles, four      *)
(* eyes, debt, the send switch, routing snapshots) are free choices.  The  *)
(* provider is external: it creates one object per remembered idempotency  *)
(* key and answers a replay with the first answer.                         *)
(***************************************************************************)
EXTENDS Integers, FiniteSets, LeaseRow

CONSTANTS
  Withdrawals,    \* withdrawal requests of one publisher
  Amount,         \* Amount[w]: the amount of withdrawal w
  Balance,        \* PublisherBalance.withdrawableBalance at the start
  MaxExecutions,  \* bound: executions per withdrawal
  Methods,        \* Methods[w]: the payout methods withdrawal w may use
  OperatorLanes,  \* concurrent executeWithdrawal, retryExecution, cancelExecution
  StatusLanes,    \* concurrent runs of handleCheckStatus
  InboxLanes,     \* concurrent runs of processPayoutWebhookInbox
  BatchSize,      \* rows one run of handleCheckStatus takes
  MaxRequests,    \* bound: operator requests that reach the provider
  MaxDeliveries,  \* bound: webhook deliveries, redeliveries included
  MaxFaults,      \* bound: crashes and failing calls
  MaxExpiries,    \* bound: claims after which an inbox row is not due again
  MaxVersion,     \* bound: version at which the poll stops repeating a failure
  None            \* SQL null

Lanes == OperatorLanes \cup StatusLanes \cup InboxLanes

\* The executions of a withdrawal, in order.  idempotencyKey holds the version
\* of the withdrawal, which each execution advances: no two share a key.
Keys == Withdrawals \X (1..MaxExecutions)

\* "failed" stands for payout.failed and payout.canceled.
Events == [key : Keys, kind : {"paid", "failed"}]

ASSUME ConstantsAssumption ==
  /\ Amount \in [Withdrawals -> Nat \ {0}]
  /\ Balance \in Nat
  /\ MaxExecutions \in Nat
  /\ Methods \in [Withdrawals -> SUBSET {"stripe", "manual"}]
  /\ OperatorLanes \cap (StatusLanes \cup InboxLanes) = {}
  /\ StatusLanes \cap InboxLanes = {}
  /\ BatchSize \in Nat
  /\ MaxRequests \in Nat /\ MaxDeliveries \in Nat
  /\ MaxFaults \in Nat /\ MaxExpiries \in Nat /\ MaxVersion \in Nat
  /\ None \notin Keys \cup Events

VARIABLES
  withdrawal,    \* Withdrawal.status
  exec,          \* PayoutExecution rows
  claim,         \* PayoutExecutionClaim rows, by age
  withdrawable,  \* PublisherBalance.withdrawableBalance
  lifetimePaid,  \* PublisherBalance.lifetimePaid
  inbox,         \* PayoutWebhookEvent rows
  provider,      \* the provider's objects of each execution
  lane,          \* what each request and worker run is doing
  requests,      \* operator requests so far
  deliveries,    \* webhook deliveries so far
  faults         \* crashes and failing calls so far

balanceVars == <<withdrawable, lifetimePaid>>
boundVars == <<requests, deliveries, faults>>
vars == <<withdrawal, exec, claim, withdrawable, lifetimePaid, inbox, provider,
          lane, requests, deliveries, faults>>

-----------------------------------------------------------------------------
(* State *)

WithdrawalStatuses ==
  {"ABSENT", "PENDING", "APPROVED", "PROCESSING", "COMPLETED", "REJECTED"}
ExecutionStatuses == {"ABSENT", "PROCESSING", "COMPLETED", "CANCELLED"}

PreProvider == {"CREATED", "DESTINATION_VALIDATED"}
BankClaimed == {"BANK_PAYOUT_SEND_CLAIMED", "BANK_PAYOUT_RESUME_CLAIMED"}

\* Mutant: a bank payout whose outcome is not known may be cancelled.
MutCancellable == {"TRANSFER_RECOVERY_REQUIRED", "BANK_PAYOUT_CREATED",
                   "BANK_PAYOUT_RECOVERY_REQUIRED", "CANCEL_REQUESTED"}
                    \cup BankClaimed

Cancellable == {"TRANSFER_RECOVERY_REQUIRED", "BANK_PAYOUT_CREATED",
                "BANK_PAYOUT_RECOVERY_REQUIRED", "CANCEL_REQUESTED"}

Stripe(k) == exec[k].provider = "stripe"

\* validateStage of the finalization core.
FinalStages(k) ==
  IF Stripe(k)
  THEN {"BANK_PAID", "BANK_PAYOUT_CREATED", "BANK_PAYOUT_RECOVERY_REQUIRED",
        "PROVIDER_COMPLETION_RECOVERY_REQUIRED"}
  ELSE {"PROVIDER_SENT"}

Stages ==
  PreProvider \cup BankClaimed \cup Cancellable \cup
  {"PROVIDER_SEND_CLAIMED", "PROVIDER_SEND_CLAIM_EXPIRED", "TRANSFER_CREATED",
   "BANK_PAYOUT_CLAIM_EXPIRED", "BANK_PAID", "PROVIDER_SENT",
   "PROVIDER_OUTCOME_UNKNOWN", "PROVIDER_COMPLETION_RECOVERY_REQUIRED",
   "PROVIDER_FAILURE_REVIEW_REQUIRED", "MANUAL_CONFIRMED",
   "PRE_PROVIDER_ABORTED", "CANCELLED_REVERSED"}

\* transfer: providerExecutionId (and a Stripe transfer id) is recorded;
\* payout: providerPayoutId is recorded; the withdrawal's method gives provider.
NoExecution(method) ==
  [status |-> "ABSENT", stage |-> "CREATED", version |-> 0,
   transfer |-> FALSE, payout |-> FALSE, provider |-> method]

Ages == {"none", "young", "late", "forgotten"}
NoClaims == [send |-> "none", bank |-> "none"]

\* transfers, payouts: objects created; payout: the state of the latest payout;
\* answer: what the call that created it said.
NoObjects == [transfers |-> 0, reversed |-> FALSE, payouts |-> 0,
              payout |-> "NONE", answer |-> "NONE"]

NoRow == [status |-> "ABSENT", attempts |-> 0, due |-> FALSE]

\* result: the provider answer the lane holds.  "TRANSFER" and "SENT" answer
\* createTransfer, the others are payout states.
Results == {"NONE", "TRANSFER", "SENT", "PROCESSING", "COMPLETED", "FAILED",
            "REVERSED"}
At(pc, job, version) ==
  [pc |-> pc, job |-> job, version |-> version, result |-> "NONE",
   mode |-> "send"]

Idle == At("idle", None, 0)

Init ==
  /\ withdrawal = [w \in Withdrawals |-> "ABSENT"]
  /\ \E method \in [Withdrawals -> {"stripe", "manual"}] :
       /\ \A w \in Withdrawals : method[w] \in Methods[w]
       /\ exec = [k \in Keys |-> NoExecution(method[k[1]])]
  /\ claim = [k \in Keys |-> NoClaims]
  /\ withdrawable = Balance
  /\ lifetimePaid = 0
  /\ inbox = [e \in Events |-> NoRow]
  /\ provider = [k \in Keys |-> NoObjects]
  /\ lane = [l \in Lanes |-> Idle]
  /\ requests = 0
  /\ deliveries = 0
  /\ faults = 0

Goto(l, pc) == lane' = [lane EXCEPT ![l].pc = pc]
Rest(l) == lane' = [lane EXCEPT ![l] = Idle]
Request == requests < MaxRequests /\ requests' = requests + 1
Fault == faults < MaxFaults /\ faults' = faults + 1

Job(l) == lane[l].job
Row(l) == exec[Job(l)]

-----------------------------------------------------------------------------
(* guard_payout_execution_identity: what the database lets an update do.   *)

StageSteps ==
  {<<"CREATED", s>> : s \in {"DESTINATION_VALIDATED", "PRE_PROVIDER_ABORTED"}}
    \cup
  {<<"DESTINATION_VALIDATED", s>> :
     s \in {"PROVIDER_SEND_CLAIMED", "PRE_PROVIDER_ABORTED"}} \cup
  {<<"PROVIDER_SEND_CLAIMED", s>> :
     s \in {"PROVIDER_SEND_CLAIM_EXPIRED", "TRANSFER_CREATED",
            "TRANSFER_RECOVERY_REQUIRED", "PROVIDER_SENT",
            "PROVIDER_OUTCOME_UNKNOWN",
            "PROVIDER_COMPLETION_RECOVERY_REQUIRED"}} \cup
  {<<"TRANSFER_CREATED", s>> :
     s \in {"BANK_PAYOUT_SEND_CLAIMED", "TRANSFER_RECOVERY_REQUIRED"}} \cup
  {<<"TRANSFER_RECOVERY_REQUIRED", s>> :
     s \in {"BANK_PAYOUT_RESUME_CLAIMED", "CANCEL_REQUESTED"}} \cup
  BankClaimed \X {"BANK_PAYOUT_CLAIM_EXPIRED", "BANK_PAID",
                  "BANK_PAYOUT_CREATED", "BANK_PAYOUT_RECOVERY_REQUIRED",
                  "PROVIDER_COMPLETION_RECOVERY_REQUIRED"} \cup
  {"BANK_PAYOUT_CREATED", "BANK_PAYOUT_RECOVERY_REQUIRED"} \X
     {"BANK_PAID", "CANCEL_REQUESTED", "BANK_PAYOUT_RECOVERY_REQUIRED",
      "PROVIDER_COMPLETION_RECOVERY_REQUIRED"} \cup
  {<<"BANK_PAID", s>> :
     s \in {"PROVIDER_COMPLETION_RECOVERY_REQUIRED",
            "BANK_PAYOUT_RECOVERY_REQUIRED"}} \cup
  {"PROVIDER_SENT", "PROVIDER_OUTCOME_UNKNOWN"} \X
     {"MANUAL_CONFIRMED", "PROVIDER_COMPLETION_RECOVERY_REQUIRED",
      "PROVIDER_FAILURE_REVIEW_REQUIRED"} \cup
  {<<"PROVIDER_COMPLETION_RECOVERY_REQUIRED", s>> :
     s \in {"BANK_PAID", "BANK_PAYOUT_RECOVERY_REQUIRED",
            "PROVIDER_FAILURE_REVIEW_REQUIRED"}} \cup
  {<<"CANCEL_REQUESTED", s>> : s \in {"BANK_PAID", "CANCELLED_REVERSED"}}

\* A reference is attached only as the answer to the claimed call.
AttachesTransfer(old, new) ==
  /\ old.stage = "PROVIDER_SEND_CLAIMED"
  /\ new.stage \in IF old.provider = "stripe"
                   THEN {"TRANSFER_CREATED", "TRANSFER_RECOVERY_REQUIRED"}
                   ELSE {"PROVIDER_SENT", "PROVIDER_OUTCOME_UNKNOWN",
                         "PROVIDER_COMPLETION_RECOVERY_REQUIRED"}

AttachesPayout(old, new) ==
  /\ old.transfer
  /\ old.stage \in BankClaimed
  /\ new.stage \in {"BANK_PAID", "BANK_PAYOUT_CREATED",
                    "BANK_PAYOUT_RECOVERY_REQUIRED"}

\* COMPLETED and CANCELLED rows are immutable.
Accepts(old, new) ==
  /\ old.status = "PROCESSING"
  /\ old.stage = new.stage \/ <<old.stage, new.stage>> \in StageSteps
  /\ (new.transfer /\ ~old.transfer) => AttachesTransfer(old, new)
  /\ (new.payout /\ ~old.payout) => AttachesPayout(old, new)

\* An update of row k; Store is one the trigger may reject.
Stored(k, new) ==
  exec' = [exec EXCEPT ![k] = [new EXCEPT !.version = exec[k].version + 1]]
Store(k, new) ==
  IF Accepts(exec[k], new) THEN Stored(k, new) ELSE UNCHANGED exec

Staged(k, stage) == [exec[k] EXCEPT !.stage = stage]

\* Compare-and-set of a lane on the version it holds.
Holds(l, stages) ==
  /\ Row(l).status = "PROCESSING"
  /\ Row(l).stage \in stages
  /\ Row(l).version = lane[l].version

-----------------------------------------------------------------------------
(* publisher-payouts.service.ts: the withdrawal.                           *)

\* Mutant: the balance is not compared with the amount.
MutRequestWithdrawal(w) ==
  /\ withdrawal[w] = "ABSENT"
  /\ withdrawal' = [withdrawal EXCEPT ![w] = "PENDING"]
  /\ withdrawable' = withdrawable - Amount[w]
  /\ UNCHANGED <<exec, claim, lifetimePaid, inbox, provider, lane, boundVars>>

\* The balance is reserved by taking it from what is withdrawable.
RequestWithdrawal(w) ==
  /\ withdrawal[w] = "ABSENT"
  /\ withdrawable >= Amount[w]
  /\ withdrawal' = [withdrawal EXCEPT ![w] = "PENDING"]
  /\ withdrawable' = withdrawable - Amount[w]
  /\ UNCHANGED <<exec, claim, lifetimePaid, inbox, provider, lane, boundVars>>

Executions(w) == {k \in Keys : k[1] = w /\ exec[k].status # "ABSENT"}

ApproveWithdrawal(w) ==
  /\ withdrawal[w] = "PENDING"
  /\ Executions(w) = {}
  /\ withdrawal' = [withdrawal EXCEPT ![w] = "APPROVED"]
  /\ UNCHANGED <<exec, claim, balanceVars, inbox, provider, lane, boundVars>>

\* An approved withdrawal is rejected only if no execution reached a provider.
Returnable(w) ==
  \/ withdrawal[w] = "PENDING" /\ Executions(w) = {}
  \/ /\ withdrawal[w] = "APPROVED"
     /\ \A k \in Executions(w) :
          /\ exec[k].status = "CANCELLED"
          /\ exec[k].stage = "PRE_PROVIDER_ABORTED"
          /\ ~exec[k].transfer /\ ~exec[k].payout
          /\ claim[k] = NoClaims

RejectWithdrawal(w) ==
  /\ Returnable(w)
  /\ withdrawal' = [withdrawal EXCEPT ![w] = "REJECTED"]
  /\ withdrawable' = withdrawable + Amount[w]
  /\ UNCHANGED <<exec, claim, lifetimePaid, inbox, provider, lane, boundVars>>

-----------------------------------------------------------------------------
(* payout-finalization-core.ts *)

Siblings(k) == {j \in Executions(k[1]) : j # k}

\* Mutant: a completed row is finalized again by the next piece of evidence.
MutFinalizable(k) ==
  /\ exec[k].status \in {"PROCESSING", "COMPLETED"}
  /\ exec[k].stage \in FinalStages(k)
  /\ IF Stripe(k) THEN exec[k].payout ELSE exec[k].transfer

Finalizable(k) ==
  /\ exec[k].status = "PROCESSING"
  /\ withdrawal[k[1]] = "PROCESSING"
  /\ exec[k].stage \in FinalStages(k)
  /\ IF Stripe(k) THEN exec[k].payout ELSE exec[k].transfer
  /\ \A j \in Siblings(k) : exec[j].status = "CANCELLED"

Completed(k) ==
  [exec[k] EXCEPT !.status = "COMPLETED",
                  !.stage = IF Stripe(k) THEN "BANK_PAID"
                            ELSE "MANUAL_CONFIRMED"]

\* The execution, the withdrawal and the balance are finished together.
Finalize(k) ==
  /\ Finalizable(k)
  /\ Stored(k, Completed(k))
  /\ withdrawal' = [withdrawal EXCEPT ![k[1]] = "COMPLETED"]
  /\ lifetimePaid' = lifetimePaid + Amount[k[1]]

\* Already completed, or in a state the evidence conflicts with.
FinalizeSkips(k) ==
  /\ ~Finalizable(k)
  /\ UNCHANGED <<exec, withdrawal, lifetimePaid>>

-----------------------------------------------------------------------------
(* executeWithdrawal *)

\* A new execution needs every earlier one cancelled.
ExecuteStart(l, w) ==
  LET k == <<w, Cardinality(Executions(w)) + 1>>
  IN /\ lane[l] = Idle
     /\ Request
     /\ withdrawal[w] = "APPROVED"
     /\ k \in Keys
     /\ \A j \in Executions(w) : exec[j].status = "CANCELLED"
     /\ withdrawal' = [withdrawal EXCEPT ![w] = "PROCESSING"]
     /\ exec' = [exec EXCEPT ![k].status = "PROCESSING", ![k].version = 1]
     /\ lane' = [lane EXCEPT ![l] = At("validate", k, 1)]
     /\ UNCHANGED <<claim, balanceVars, inbox, provider, deliveries, faults>>

ExecuteValidate(l) ==
  /\ lane[l].pc = "validate"
  /\ \/ /\ Holds(l, {"CREATED"})
        /\ Stored(Job(l), Staged(Job(l), "DESTINATION_VALIDATED"))
        /\ Goto(l, "claimSend")
     \/ /\ UNCHANGED exec  \* the destination is refused, or the row has moved on
        /\ Goto(l, "abort")
  /\ UNCHANGED <<withdrawal, claim, balanceVars, inbox, provider, boundVars>>

\* claimExternalCall, common to every call: both rows are locked and fresh.
ClaimCall(l, stage, claimed, pc) ==
  /\ Row(l).status = "PROCESSING"
  /\ withdrawal[Job(l)[1]] = "PROCESSING"
  /\ Row(l).stage = stage
  /\ Stored(Job(l), Staged(Job(l), claimed))
  /\ lane' = [lane EXCEPT ![l].pc = pc, ![l].version = Row(l).version + 1]

ClaimSend(l) ==
  /\ lane[l].pc = "claimSend"
  /\ \/ /\ ClaimCall(l, "DESTINATION_VALIDATED", "PROVIDER_SEND_CLAIMED",
                     "callTransfer")
        /\ claim' = [claim EXCEPT ![Job(l)].send = "young"]
     \/ /\ Goto(l, "abort")
        /\ UNCHANGED <<exec, claim>>
  /\ UNCHANGED <<withdrawal, balanceVars, inbox, provider, boundVars>>

\* Mutant: only the recorded references count, not the durable claims.
MutAbortable(k) ==
  /\ exec[k].status = "PROCESSING"
  /\ withdrawal[k[1]] = "PROCESSING"
  /\ ~exec[k].transfer /\ ~exec[k].payout

Abortable(k) ==
  /\ exec[k].status = "PROCESSING"
  /\ withdrawal[k[1]] = "PROCESSING"
  /\ exec[k].stage \in PreProvider
  /\ ~exec[k].transfer /\ ~exec[k].payout
  /\ claim[k] = NoClaims

\* abortPreProviderExecution
AbortPreProvider(k) ==
  /\ Abortable(k)
  /\ Stored(k, [exec[k] EXCEPT !.status = "CANCELLED",
                               !.stage = "PRE_PROVIDER_ABORTED"])
  /\ withdrawal' = [withdrawal EXCEPT ![k[1]] = "APPROVED"]

ExecuteAbort(l) ==
  /\ lane[l].pc = "abort"
  /\ \/ AbortPreProvider(Job(l))
     \/ ~Abortable(Job(l)) /\ UNCHANGED <<exec, withdrawal>>
  /\ Rest(l)
  /\ UNCHANGED <<claim, balanceVars, inbox, provider, boundVars>>

\* The provider makes one object per key it remembers.  A manual transfer is
\* an instruction that somebody carries out later.
TransferMade(k) ==
  IF provider[k].transfers = 0 \/ claim[k].send = "forgotten"
  THEN IF Stripe(k)
       THEN [provider EXCEPT ![k].transfers = @ + 1]
       ELSE [provider EXCEPT ![k].transfers = @ + 1, ![k].payouts = @ + 1,
                             ![k].payout = "PENDING"]
  ELSE provider

\* createTransfer and recoverClaimedTransfer
CallTransfer(l) ==
  /\ lane[l].pc = "callTransfer"
  /\ provider' = TransferMade(Job(l))
  /\ lane' = [lane EXCEPT ![l].pc = "recordTransfer",
                          ![l].result = IF Stripe(Job(l)) THEN "TRANSFER"
                                        ELSE "SENT"]
  /\ UNCHANGED <<withdrawal, exec, claim, balanceVars, inbox, boundVars>>

\* The call fails, or its answer is lost.
CallTransferFails(l) ==
  /\ lane[l].pc = "callTransfer"
  /\ Fault
  /\ provider' \in {provider, TransferMade(Job(l))}
  /\ Goto(l, "caught")
  /\ UNCHANGED <<withdrawal, exec, claim, balanceVars, inbox, requests,
                 deliveries>>

\* quarantineUntrustedProviderResponse: an answer for another command.
CallUntrusted(l) ==
  /\ lane[l].pc \in {"callTransfer", "callBank"}
  /\ Fault
  /\ IF Holds(l, {"PROVIDER_SEND_CLAIMED"} \cup BankClaimed)
     THEN Stored(Job(l), Row(l)) ELSE UNCHANGED exec
  /\ Rest(l)
  /\ UNCHANGED <<withdrawal, claim, balanceVars, inbox, provider, requests,
                 deliveries>>

\* A lane of retryExecution, with no answer yet.
Recovering(pc, k) == [At(pc, k, exec[k].version + 1) EXCEPT !.mode = "recover"]

TransferStage(l) ==
  IF lane[l].mode = "recover" THEN "TRANSFER_RECOVERY_REQUIRED"
  ELSE IF Stripe(Job(l)) THEN "TRANSFER_CREATED" ELSE "PROVIDER_SENT"

RecordTransfer(l) ==
  /\ lane[l].pc = "recordTransfer"
  /\ \/ /\ Holds(l, {"PROVIDER_SEND_CLAIMED"})
        /\ Stored(Job(l), [Row(l) EXCEPT !.stage = TransferStage(l),
                                         !.transfer = TRUE])
        /\ lane' = [lane EXCEPT ![l] =
             CASE ~Stripe(Job(l)) -> Idle
               [] Stripe(Job(l)) /\ lane[l].mode = "recover" ->
                    Recovering("resume", Job(l))
               [] OTHER -> [lane[l] EXCEPT !.pc = "claimBank"]]
     \/ /\ ~Holds(l, {"PROVIDER_SEND_CLAIMED"})
        /\ Goto(l, "caught")
        /\ UNCHANGED exec
  /\ UNCHANGED <<withdrawal, claim, balanceVars, inbox, provider, boundVars>>

BankReady(l) == Row(l).transfer /\ ~Row(l).payout

ClaimBank(l) ==
  /\ lane[l].pc = "claimBank"
  /\ \/ /\ BankReady(l)
        /\ ClaimCall(l, "TRANSFER_CREATED", "BANK_PAYOUT_SEND_CLAIMED",
                     "callBank")
        /\ claim' = [claim EXCEPT ![Job(l)].bank = "young"]
     \/ /\ Goto(l, "caught")
        /\ UNCHANGED <<exec, claim>>
  /\ UNCHANGED <<withdrawal, balanceVars, inbox, provider, boundVars>>

PayoutState(answer) ==
  CASE answer = "COMPLETED" -> "PAID"
    [] answer = "FAILED" -> "FAILED"
    [] answer = "PROCESSING" -> "PENDING"

PayoutMade(k, answer) ==
  [provider EXCEPT ![k].payouts = @ + 1, ![k].payout = PayoutState(answer),
                   ![k].answer = answer]

NewPayout(k) == provider[k].payouts = 0 \/ claim[k].bank = "forgotten"

\* createBankPayout and recoverClaimedBankPayout
CallBank(l) ==
  /\ lane[l].pc = "callBank"
  /\ \/ /\ NewPayout(Job(l))
        /\ \E answer \in {"PROCESSING", "COMPLETED", "FAILED"} :
             /\ provider' = PayoutMade(Job(l), answer)
             /\ lane' = [lane EXCEPT ![l].pc = "recordBank",
                                     ![l].result = answer]
     \/ /\ ~NewPayout(Job(l))
        /\ lane' = [lane EXCEPT ![l].pc = "recordBank",
                                ![l].result = provider[Job(l)].answer]
        /\ UNCHANGED provider
  /\ UNCHANGED <<withdrawal, exec, claim, balanceVars, inbox, boundVars>>

CallBankFails(l) ==
  /\ lane[l].pc = "callBank"
  /\ Fault
  /\ \/ UNCHANGED provider
     \/ NewPayout(Job(l)) /\ provider' = PayoutMade(Job(l), "PROCESSING")
  /\ Goto(l, "caught")
  /\ UNCHANGED <<withdrawal, exec, claim, balanceVars, inbox, requests,
                 deliveries>>

BankStage(result) ==
  CASE result = "COMPLETED" -> "BANK_PAID"
    [] result = "FAILED" -> "BANK_PAYOUT_RECOVERY_REQUIRED"
    [] OTHER -> "BANK_PAYOUT_CREATED"

\* A failed payout is thrown: only executeWithdrawal records more about it.
AfterBank(l) ==
  CASE lane[l].result = "COMPLETED" -> Goto(l, "finalize")
    [] lane[l].result = "FAILED" /\ lane[l].mode = "send" -> Goto(l, "caught")
    [] OTHER -> Rest(l)

RecordBank(l) ==
  /\ lane[l].pc = "recordBank"
  /\ \/ /\ Holds(l, BankClaimed)
        /\ Stored(Job(l), [Row(l) EXCEPT !.stage = BankStage(lane[l].result),
                                         !.payout = TRUE])
        /\ AfterBank(l)
     \/ /\ ~Holds(l, BankClaimed)
        /\ Goto(l, "caught")
        /\ UNCHANGED exec
  /\ UNCHANGED <<withdrawal, claim, balanceVars, inbox, provider, boundVars>>

\* The database does not answer while the evidence is recorded.
RecordFails(l) ==
  /\ lane[l].pc \in {"recordTransfer", "recordBank"}
  /\ Fault
  /\ Goto(l, "caught")
  /\ UNCHANGED <<withdrawal, exec, claim, balanceVars, inbox, provider,
                 requests, deliveries>>

\* finalizePayoutExecution on the provider's own answer.
FinalizeAnswer(l) ==
  /\ lane[l].pc = "finalize"
  /\ \/ Finalize(Job(l)) /\ Rest(l)
     \/ /\ FinalizeSkips(Job(l))
        /\ IF lane[l].mode = "send" THEN Goto(l, "caught") ELSE Rest(l)
  /\ UNCHANGED <<claim, withdrawable, inbox, provider, boundVars>>

\* The stage the catch of executeWithdrawal writes on the row it finds.
CatchStage(row, result) ==
  IF result = "COMPLETED" THEN "PROVIDER_COMPLETION_RECOVERY_REQUIRED"
  ELSE IF row.payout \/ result \in {"PROCESSING", "FAILED"}
    THEN "BANK_PAYOUT_RECOVERY_REQUIRED"
  ELSE IF \/ row.stage = "BANK_PAYOUT_SEND_CLAIMED"
          \/ row.stage = "PROVIDER_SEND_CLAIMED" /\ result = "NONE"
    THEN row.stage
  ELSE IF row.provider = "stripe" /\ (row.transfer \/ result = "TRANSFER")
    THEN "TRANSFER_RECOVERY_REQUIRED"
  ELSE "PROVIDER_OUTCOME_UNKNOWN"

CatchRow(row, result) ==
  [row EXCEPT !.stage = CatchStage(row, result),
              !.transfer = @ \/ result \in {"TRANSFER", "SENT"},
              !.payout = @ \/ result \in {"PROCESSING", "COMPLETED", "FAILED"}]

\* It writes on whatever version it finds: a later owner's stage is only safe
\* because the trigger rejects the update.
ExecuteCaught(l) ==
  /\ lane[l].pc = "caught"
  /\ lane[l].mode = "send"
  /\ IF Row(l).status = "PROCESSING" /\ Row(l).stage # "CANCEL_REQUESTED"
     THEN Store(Job(l), CatchRow(Row(l), lane[l].result))
     ELSE UNCHANGED exec
  /\ Rest(l)
  /\ UNCHANGED <<withdrawal, claim, balanceVars, inbox, provider, boundVars>>

-----------------------------------------------------------------------------
(* retryExecution: recoverClaimedProviderSend, recoverClaimedStripeBankPayout, *)
(* resumeStripeBankPayout and the operator's own status poll.              *)

\* Mutant: a claim is replayed however old it is.
MutReplayable(age) == age # "none"

\* A claim older than 23 hours is not replayed any more.
Replayable(age) == age = "young"

\* The claim is touched and the call repeated, or the claim is retired: because
\* of its age, or because the routing it was made for has changed.
Reclaim(l, k, age, pc, expired) ==
  /\ lane[l] = Idle
  /\ Request
  /\ exec[k].status = "PROCESSING" /\ withdrawal[k[1]] = "PROCESSING"
  /\ \/ /\ Replayable(age)
        /\ Stored(k, exec[k])
        /\ lane' = [lane EXCEPT ![l] = Recovering(pc, k)]
     \/ /\ Stored(k, Staged(k, expired))
        /\ UNCHANGED lane
  /\ UNCHANGED <<withdrawal, claim, balanceVars, inbox, provider, deliveries,
                 faults>>

RecoverTransfer(l, k) ==
  /\ Stripe(k)
  /\ exec[k].stage = "PROVIDER_SEND_CLAIMED"
  /\ Reclaim(l, k, claim[k].send, "callTransfer", "PROVIDER_SEND_CLAIM_EXPIRED")

RecoverBank(l, k) ==
  /\ exec[k].stage \in BankClaimed
  /\ Reclaim(l, k, claim[k].bank, "callBank", "BANK_PAYOUT_CLAIM_EXPIRED")

RetryResume(l, k) ==
  /\ lane[l] = Idle
  /\ Request
  /\ exec[k].status = "PROCESSING"
  /\ exec[k].stage = "TRANSFER_RECOVERY_REQUIRED"
  /\ lane' = [lane EXCEPT ![l] = Recovering("resume", k)]
  /\ UNCHANGED <<withdrawal, exec, claim, balanceVars, inbox, provider,
                 deliveries, faults>>

Resume(l) ==
  /\ lane[l].pc = "resume"
  /\ \/ /\ BankReady(l)
        /\ ClaimCall(l, "TRANSFER_RECOVERY_REQUIRED",
                     "BANK_PAYOUT_RESUME_CLAIMED", "callBank")
        /\ claim' = [claim EXCEPT ![Job(l)].bank = "young"]
     \/ Rest(l) /\ UNCHANGED <<exec, claim>>
  /\ UNCHANGED <<withdrawal, balanceVars, inbox, provider, boundVars>>

\* The recovery's own catch keeps to the version it claimed.
RecoverCaught(l) ==
  /\ lane[l].pc = "caught"
  /\ lane[l].mode = "recover"
  /\ IF Holds(l, {"PROVIDER_SEND_CLAIMED"} \cup BankClaimed)
     THEN Stored(Job(l), IF lane[l].result = "NONE" THEN Row(l)
                         ELSE IF lane[l].result = "TRANSFER"
                         THEN [Row(l) EXCEPT !.stage = "TRANSFER_RECOVERY_REQUIRED",
                                             !.transfer = TRUE]
                         ELSE [Row(l) EXCEPT !.stage = "BANK_PAYOUT_RECOVERY_REQUIRED",
                                             !.payout = TRUE])
     ELSE UNCHANGED exec
  /\ Rest(l)
  /\ UNCHANGED <<withdrawal, claim, balanceVars, inbox, provider, boundVars>>

RetryStatus(l, k) ==
  /\ lane[l] = Idle
  /\ Request
  /\ exec[k].status = "PROCESSING" /\ exec[k].payout
  /\ provider[k].payout = "PAID"
  /\ lane' = [lane EXCEPT ![l] = Recovering("finalize", k)]
  /\ UNCHANGED <<withdrawal, exec, claim, balanceVars, inbox, provider,
                 deliveries, faults>>

-----------------------------------------------------------------------------
(* cancelExecution *)

CancelPreProvider(l, k) ==
  /\ lane[l] = Idle
  /\ Request
  /\ AbortPreProvider(k)
  /\ UNCHANGED <<claim, balanceVars, inbox, provider, lane, deliveries, faults>>

\* A cancellation whose lease is over is claimed again.
CancelClaim(l, k) ==
  /\ lane[l] = Idle
  /\ Request
  /\ Stripe(k)
  /\ exec[k].status = "PROCESSING" /\ withdrawal[k[1]] = "PROCESSING"
  /\ exec[k].transfer
  /\ exec[k].stage \in Cancellable
  /\ Stored(k, Staged(k, "CANCEL_REQUESTED"))
  /\ lane' = [lane EXCEPT ![l] = At("cancelPayout", k, exec[k].version + 1)]
  /\ UNCHANGED <<withdrawal, claim, balanceVars, inbox, provider, deliveries,
                 faults>>

\* cancelTransfer: the payout first.  One in transit cannot be cancelled.
CancelPayout(l) ==
  LET payout == IF Row(l).payout THEN provider[Job(l)].payout ELSE "NONE"
  IN /\ lane[l].pc = "cancelPayout"
     /\ \/ /\ payout = "PAID"
           /\ Goto(l, "recordPaid")
           /\ UNCHANGED provider
        \/ /\ payout = "PENDING"
           /\ provider' = [provider EXCEPT ![Job(l)].payout = "CANCELED"]
           /\ Goto(l, "reverse")
        \/ /\ payout = "PENDING"
           /\ Goto(l, "cancelFailed")
           /\ UNCHANGED provider
        \/ /\ payout \in {"NONE", "FAILED", "CANCELED"}
           /\ Goto(l, "reverse")
           /\ UNCHANGED provider
     /\ UNCHANGED <<withdrawal, exec, claim, balanceVars, inbox, boundVars>>

\* The reversal is made once and recovered afterwards.
CancelReverse(l) ==
  /\ lane[l].pc = "reverse"
  /\ provider' = [provider EXCEPT ![Job(l)].reversed = TRUE]
  /\ Goto(l, "recordReversal")
  /\ UNCHANGED <<withdrawal, exec, claim, balanceVars, inbox, boundVars>>

CancelCallFails(l) ==
  /\ lane[l].pc \in {"cancelPayout", "reverse"}
  /\ Fault
  /\ \/ UNCHANGED provider
     \/ /\ lane[l].pc = "reverse"
        /\ provider' = [provider EXCEPT ![Job(l)].reversed = TRUE]
  /\ Goto(l, "cancelFailed")
  /\ UNCHANGED <<withdrawal, exec, claim, balanceVars, inbox, requests,
                 deliveries>>

CancelFailed(l) ==
  /\ lane[l].pc = "cancelFailed"
  /\ IF Holds(l, {"CANCEL_REQUESTED"}) THEN Stored(Job(l), Row(l))
     ELSE UNCHANGED exec
  /\ Rest(l)
  /\ UNCHANGED <<withdrawal, claim, balanceVars, inbox, provider, boundVars>>

\* The payout was paid before it could be cancelled.
CancelRecordPaid(l) ==
  /\ lane[l].pc = "recordPaid"
  /\ IF Holds(l, {"CANCEL_REQUESTED"})
     THEN /\ Stored(Job(l), Staged(Job(l), "BANK_PAID"))
          /\ lane' = [lane EXCEPT ![l].pc = "finalize", ![l].mode = "recover"]
     ELSE UNCHANGED exec /\ Rest(l)
  /\ UNCHANGED <<withdrawal, claim, balanceVars, inbox, provider, boundVars>>

CancelRecordReversal(l) ==
  /\ lane[l].pc = "recordReversal"
  /\ \/ /\ Holds(l, {"CANCEL_REQUESTED"})
        /\ Stored(Job(l), [Row(l) EXCEPT !.status = "CANCELLED",
                                         !.stage = "CANCELLED_REVERSED"])
        /\ withdrawal[Job(l)[1]] = "PROCESSING"
        /\ withdrawal' = [withdrawal EXCEPT ![Job(l)[1]] = "APPROVED"]
     \/ /\ ~Holds(l, {"CANCEL_REQUESTED"})
        /\ UNCHANGED <<exec, withdrawal>>
  /\ Rest(l)
  /\ UNCHANGED <<claim, balanceVars, inbox, provider, boundVars>>

\* completeManualWithdrawal: an operator has seen the bank transfer.
CompleteManual(k) ==
  /\ ~Stripe(k)
  /\ provider[k].payout = "PAID"
  /\ Finalize(k)
  /\ UNCHANGED <<claim, withdrawable, inbox, provider, lane, boundVars>>

-----------------------------------------------------------------------------
(* payout.processor.ts: promoteStalePayoutStages and handleCheckStatus.    *)

Promoted(stage) ==
  IF stage = "TRANSFER_CREATED" THEN "TRANSFER_RECOVERY_REQUIRED"
  ELSE "BANK_PAYOUT_RECOVERY_REQUIRED"

\* Stale rows are selected first and promoted later, one by one.
PromoteSelect(l, k) ==
  /\ lane[l] = Idle
  /\ exec[k].status = "PROCESSING"
  /\ \/ exec[k].stage = "TRANSFER_CREATED" /\ ~exec[k].payout
     \/ exec[k].stage = "BANK_PAYOUT_CREATED" /\ exec[k].payout
  /\ lane' = [lane EXCEPT ![l] = At("promote", k, exec[k].version)]
  /\ UNCHANGED <<withdrawal, exec, claim, balanceVars, inbox, provider,
                 boundVars>>

Promote(l) ==
  /\ lane[l].pc = "promote"
  /\ IF Holds(l, {"TRANSFER_CREATED", "BANK_PAYOUT_CREATED"})
     THEN Store(Job(l), Staged(Job(l), Promoted(Row(l).stage)))
     ELSE UNCHANGED exec
  /\ Rest(l)
  /\ UNCHANGED <<withdrawal, claim, balanceVars, inbox, provider, boundVars>>

\* Mutant: recovery stages are left to an operator as well.
MutNotPolled == BankClaimed \cup
  {"TRANSFER_RECOVERY_REQUIRED", "PROVIDER_SEND_CLAIMED",
   "PROVIDER_SEND_CLAIM_EXPIRED", "BANK_PAYOUT_CLAIM_EXPIRED",
   "CANCEL_REQUESTED", "BANK_PAYOUT_RECOVERY_REQUIRED"}

\* Stages the sweep leaves to an operator.
NotPolled == BankClaimed \cup
  {"TRANSFER_RECOVERY_REQUIRED", "PROVIDER_SEND_CLAIMED",
   "PROVIDER_SEND_CLAIM_EXPIRED", "BANK_PAYOUT_CLAIM_EXPIRED",
   "CANCEL_REQUESTED"}

PollAnswer(k) ==
  CASE provider[k].payout = "PAID" -> "COMPLETED"
    [] provider[k].payout \in {"FAILED", "CANCELED"} -> "FAILED"
    [] OTHER -> "PROCESSING"

\* The rows the sweep asks for.  Some stay: a manual transfer has no status to
\* poll, and a failed payout waits for an operator.
Pending ==
  {k \in Keys : /\ exec[k].status = "PROCESSING"
                /\ exec[k].transfer \/ exec[k].payout
                /\ exec[k].stage \notin NotPolled}

\* The sweep takes the BatchSize oldest of them: all of them.
Uncrowded == Cardinality(Pending) <= BatchSize

\* A status that is neither changes nothing.  Which rows are the oldest is not
\* modelled: any may be in the batch.
PollRead(l, k) ==
  /\ lane[l] = Idle
  /\ k \in Pending
  /\ Stripe(k) /\ exec[k].payout
  /\ PollAnswer(k) # "PROCESSING"
  /\ PollAnswer(k) = "FAILED" => exec[k].version < MaxVersion
  /\ lane' = [lane EXCEPT ![l] = [At("pollApply", k, exec[k].version)
                                    EXCEPT !.result = PollAnswer(k)]]
  /\ UNCHANGED <<withdrawal, exec, claim, balanceVars, inbox, provider,
                 boundVars>>

\* failExecution: funds stay reserved and the row waits for an operator.
FailHolds(k) ==
  /\ exec[k].status = "PROCESSING"
  /\ withdrawal[k[1]] = "PROCESSING"
  /\ exec[k].stage # "CANCEL_REQUESTED"
FailedRow(k) ==
  Staged(k, IF Stripe(k) /\ exec[k].transfer
            THEN "BANK_PAYOUT_RECOVERY_REQUIRED"
            ELSE "PROVIDER_FAILURE_REVIEW_REQUIRED")

PollApply(l) ==
  /\ lane[l].pc = "pollApply"
  /\ \/ /\ lane[l].result = "COMPLETED"
        /\ Finalize(Job(l)) \/ FinalizeSkips(Job(l))
     \/ /\ lane[l].result = "FAILED"
        /\ IF FailHolds(Job(l)) THEN Store(Job(l), FailedRow(Job(l)))
           ELSE UNCHANGED exec
        /\ UNCHANGED <<withdrawal, lifetimePaid>>
  /\ Rest(l)
  /\ UNCHANGED <<claim, withdrawable, inbox, provider, boundVars>>

-----------------------------------------------------------------------------
(* payout-webhook.controller.ts and processPayoutWebhookInbox.             *)

\* A signed event is persisted; a duplicate changes nothing.
Receive(e) ==
  /\ deliveries < MaxDeliveries
  /\ deliveries' = deliveries + 1
  /\ provider[e.key].payout \in IF e.kind = "paid" THEN {"PAID"}
                                ELSE {"FAILED", "CANCELED"}
  /\ Stripe(e.key)
  /\ inbox' = IF inbox[e].status = "ABSENT"
              THEN [inbox EXCEPT ![e] = [status |-> "PENDING", attempts |-> 0,
                                         due |-> TRUE]]
              ELSE inbox
  /\ UNCHANGED <<withdrawal, exec, claim, balanceVars, provider, lane, requests,
                 faults>>

InboxRecover(l) ==
  /\ lane[l] = Idle
  /\ \E e \in Events : Stale(inbox[e])
  /\ inbox' = [e \in Events |-> Recovered(inbox[e])]
  /\ UNCHANGED <<withdrawal, exec, claim, balanceVars, provider, lane, boundVars>>

InboxClaim(l, e) ==
  /\ lane[l] = Idle
  /\ Claimable(inbox[e])
  /\ inbox' = [inbox EXCEPT ![e] = Claimed(@)]
  /\ lane' = [lane EXCEPT ![l] = At("inbox", e, inbox[e].attempts + 1)]
  /\ UNCHANGED <<withdrawal, exec, claim, balanceVars, provider, boundVars>>

Owned(l) == OwnedBy(inbox[Job(l)], lane[l].version)
Ended(l, status) == inbox' = [inbox EXCEPT ![Job(l)].status = status,
                                           ![Job(l)].due = FALSE]

\* No row carries the payout id yet: retried until the window of 72 hours ends.
InboxUnmatched(l) ==
  /\ lane[l].pc = "inbox"
  /\ Owned(l)
  /\ ~exec[Job(l).key].payout
  /\ \E verdict \in {"RETRY", "QUARANTINE"} :
       inbox' = [inbox EXCEPT ![Job(l)] = Returned(@, verdict)]
  /\ Rest(l)
  /\ UNCHANGED <<withdrawal, exec, claim, balanceVars, provider, boundVars>>

InboxPaid(l) ==
  LET k == Job(l).key
  IN /\ lane[l].pc = "inbox"
     /\ Owned(l)
     /\ Job(l).kind = "paid"
     /\ exec[k].payout
     /\ \/ Finalize(k) /\ Ended(l, "PROCESSED")
        \/ /\ FinalizeSkips(k)
           /\ Ended(l, IF exec[k].status = "COMPLETED" THEN "PROCESSED"
                       ELSE "QUARANTINED")
     /\ Rest(l)
     /\ UNCHANGED <<claim, withdrawable, provider, boundVars>>

InboxFailed(l) ==
  LET k == Job(l).key
  IN /\ lane[l].pc = "inbox"
     /\ Owned(l)
     /\ Job(l).kind = "failed"
     /\ exec[k].payout
     /\ \/ /\ FailHolds(k)
           /\ Accepts(exec[k], FailedRow(k))
           /\ Stored(k, FailedRow(k))
           /\ Ended(l, "PROCESSED")
        \/ /\ FailHolds(k)
           /\ ~Accepts(exec[k], FailedRow(k))
           /\ inbox' = [inbox EXCEPT ![Job(l)] = Returned(@, "RETRY")]
           /\ UNCHANGED exec
        \/ /\ ~FailHolds(k)
           /\ Ended(l, "QUARANTINED")
           /\ UNCHANGED exec
     /\ Rest(l)
     /\ UNCHANGED <<withdrawal, claim, balanceVars, provider, boundVars>>

\* The lease went stale while the lane held it.
InboxLost(l) ==
  /\ lane[l].pc = "inbox"
  /\ ~Owned(l)
  /\ Rest(l)
  /\ UNCHANGED <<withdrawal, exec, claim, balanceVars, inbox, provider,
                 boundVars>>

-----------------------------------------------------------------------------
(* Time, the provider and crashes *)

\* A retry is due, or a lease is over.
InboxDue(e) ==
  /\ inbox[e].status \in {"PROCESSING", "FAILED"}
  /\ ~inbox[e].due
  /\ inbox[e].attempts < MaxExpiries
  /\ inbox' = [inbox EXCEPT ![e].due = TRUE]
  /\ UNCHANGED <<withdrawal, exec, claim, balanceVars, provider, lane, boundVars>>

Calling(pc, k) == \E l \in OperatorLanes : lane[l].pc = pc /\ Job(l) = k

Older(age, calling) ==
  CASE age = "young" -> "late"
    [] age = "late" /\ ~calling -> "forgotten"
    [] OTHER -> age

\* A claim turns 23 hours old, then 24.  The hour between is longer than any
\* call takes: no call is under way when the provider forgets its key.
ClaimAges(k) ==
  /\ \/ claim' = [claim EXCEPT ![k].send = Older(@, Calling("callTransfer", k))]
     \/ claim' = [claim EXCEPT ![k].bank = Older(@, Calling("callBank", k))]
  /\ claim' # claim
  /\ UNCHANGED <<withdrawal, exec, balanceVars, inbox, provider, lane, boundVars>>

\* The bank pays the payout, or (Stripe only) returns it.
ProviderSettles(k) ==
  /\ provider[k].payout = "PENDING"
  /\ \E outcome \in IF Stripe(k) THEN {"PAID", "FAILED"} ELSE {"PAID"} :
       provider' = [provider EXCEPT ![k].payout = outcome]
  /\ UNCHANGED <<withdrawal, exec, claim, balanceVars, inbox, lane, boundVars>>

Crash(l) ==
  /\ lane[l] # Idle
  /\ Fault
  /\ Rest(l)
  /\ UNCHANGED <<withdrawal, exec, claim, balanceVars, inbox, provider, requests,
                 deliveries>>

-----------------------------------------------------------------------------

WithdrawalStep ==
  \E w \in Withdrawals :
    RequestWithdrawal(w) \/ ApproveWithdrawal(w) \/ RejectWithdrawal(w)

OperatorRequest(l) ==
  \/ \E w \in Withdrawals : ExecuteStart(l, w)
  \/ \E k \in Keys : \/ RecoverTransfer(l, k) \/ RecoverBank(l, k)
                     \/ RetryResume(l, k) \/ RetryStatus(l, k)
                     \/ CancelPreProvider(l, k) \/ CancelClaim(l, k)

OperatorStep(l) ==
  \/ ExecuteValidate(l) \/ ClaimSend(l) \/ ExecuteAbort(l)
  \/ CallTransfer(l) \/ RecordTransfer(l) \/ ClaimBank(l)
  \/ CallBank(l) \/ RecordBank(l) \/ FinalizeAnswer(l) \/ ExecuteCaught(l)
  \/ Resume(l) \/ RecoverCaught(l)
  \/ CancelPayout(l) \/ CancelReverse(l) \/ CancelFailed(l)
  \/ CancelRecordPaid(l) \/ CancelRecordReversal(l)

OperatorFault(l) ==
  \/ CallTransferFails(l) \/ CallBankFails(l) \/ CallUntrusted(l)
  \/ RecordFails(l) \/ CancelCallFails(l)

StatusStep(l) == Promote(l) \/ PollApply(l)
StatusSelect(l) == \E k \in Keys : PromoteSelect(l, k) \/ PollRead(l, k)

InboxStep(l) ==
  \/ InboxRecover(l)
  \/ \E e \in Events : InboxClaim(l, e)
  \/ InboxUnmatched(l) \/ InboxPaid(l) \/ InboxFailed(l) \/ InboxLost(l)

World ==
  \/ \E k \in Keys : ClaimAges(k) \/ ProviderSettles(k) \/ CompleteManual(k)
  \/ \E e \in Events : Receive(e) \/ InboxDue(e)
  \/ \E l \in Lanes : Crash(l)

Next ==
  \/ WithdrawalStep
  \/ \E l \in OperatorLanes : OperatorRequest(l) \/ OperatorStep(l) \/ OperatorFault(l)
  \/ \E l \in StatusLanes : StatusStep(l) \/ StatusSelect(l)
  \/ \E l \in InboxLanes : InboxStep(l)
  \/ World

Spec == Init /\ [][Next]_vars

\* The status job runs on its own schedule: while its batch has room for every
\* pending row, a payout that stays due is read, and a run that was not stopped
\* goes on.  A crowd of older rows may keep a row out of the batch for ever.
FairSpec ==
  /\ Spec
  /\ \A l \in StatusLanes :
       /\ WF_vars(StatusStep(l))
       /\ \A k \in Keys : SF_vars(Uncrowded /\ PollRead(l, k))

-----------------------------------------------------------------------------
(* Properties *)

ExecutionRows ==
  [status : ExecutionStatuses, stage : Stages, version : Nat,
   transfer : BOOLEAN, payout : BOOLEAN, provider : {"stripe", "manual"}]

LaneRecords ==
  [pc : {"idle", "validate", "claimSend", "abort", "callTransfer",
         "recordTransfer", "claimBank", "callBank", "recordBank", "finalize",
         "caught", "resume", "cancelPayout", "reverse", "cancelFailed",
         "recordPaid", "recordReversal", "promote", "pollApply", "inbox"},
   job : Keys \cup Events \cup {None}, version : Nat, result : Results,
   mode : {"send", "recover"}]

\* Every variable holds values of the kind the schema and the services allow.
TypeOK ==
  /\ withdrawal \in [Withdrawals -> WithdrawalStatuses]
  /\ exec \in [Keys -> ExecutionRows]
  /\ claim \in [Keys -> [send : Ages, bank : Ages]]
  /\ withdrawable \in Nat
  /\ lifetimePaid \in Nat
  /\ inbox \in [Events -> [status : {"ABSENT", "PENDING", "PROCESSING", "FAILED",
                                     "PROCESSED", "QUARANTINED"},
                           attempts : Nat, due : BOOLEAN]]
  /\ provider \in [Keys -> [transfers : Nat, reversed : BOOLEAN, payouts : Nat,
                            payout : {"NONE", "PENDING", "PAID", "FAILED",
                                      "CANCELED"},
                            answer : {"NONE", "PROCESSING", "COMPLETED", "FAILED"}]]
  /\ lane \in [Lanes -> LaneRecords]
  /\ requests \in Nat /\ deliveries \in Nat /\ faults \in Nat

\* Money of execution k is, or may still arrive, at the publisher.
Exposed(k) ==
  \/ provider[k].transfers > 0 /\ ~provider[k].reversed
  \/ provider[k].payout \in {"PENDING", "PAID"}

\* A withdrawal is never on its way to the publisher twice: the provider holds
\* at most one transfer and one payout per execution, and at most one execution
\* of a withdrawal whose money was not taken back.  A transfer that was reversed
\* has no payout that is paid or still may be: the money taken back had not left
\* the connected account.
PaidOnce ==
  /\ \A k \in Keys : provider[k].transfers <= 1 /\ provider[k].payouts <= 1
  /\ \A j, k \in Keys : j[1] = k[1] /\ Exposed(j) /\ Exposed(k) => j = k
  /\ \A k \in Keys :
       provider[k].reversed => provider[k].payout \notin {"PENDING", "PAID"}

\* The books follow the money: a completed withdrawal was paid by its execution,
\* and a rejected or resendable one has nothing left at the provider.
BooksFollowMoney ==
  \A w \in Withdrawals :
    /\ withdrawal[w] = "COMPLETED" =>
         \E k \in Executions(w) : /\ exec[k].status = "COMPLETED"
                                  /\ provider[k].payout = "PAID"
                                  /\ ~provider[k].reversed
    /\ withdrawal[w] \in {"PENDING", "APPROVED", "REJECTED"} =>
         \A k \in Executions(w) : ~Exposed(k)

\* Every update the services guard themselves is one the database trigger
\* accepts: none of their steps can fail on it half way.
UpdatesAccepted ==
  [][\A k \in Keys :
       exec[k].status # "ABSENT" /\ exec'[k] # exec[k]
         => Accepts(exec[k], exec'[k])]_vars

Contract == INSTANCE PayoutContract WITH
  state <- [w \in Withdrawals |->
              CASE withdrawal[w] = "ABSENT" -> "NONE"
                [] withdrawal[w] = "COMPLETED" -> "PAID"
                [] withdrawal[w] = "REJECTED" -> "RETURNED"
                [] OTHER -> "RESERVED"],
  paidOut <- [w \in Withdrawals |->
                \E k \in Keys : k[1] = w /\ provider[k].payout = "PAID"]

\* The component implements the payout contract: a reservation is paid once or
\* returned once, and only money the bank has paid is booked as paid.
ImplementsContract == Contract!Spec

\* Unless older rows that stay crowd it out of the sweep's batch for ever, a
\* payout the provider has paid and the row knows is booked, or an operator's
\* cancellation has taken the row.
PaidIsBooked ==
  <>[]Uncrowded =>
    \A k \in Keys :
      exec[k].payout /\ provider[k].payout = "PAID"
        ~> \/ exec[k].status = "COMPLETED"
           \/ exec[k].stage = "CANCEL_REQUESTED"
=============================================================================
