----------------------- MODULE PayoutExecutionProofs -----------------------
(***************************************************************************)
(* Proofs about PayoutExecution.                                           *)
(*                                                                         *)
(* The inductive invariant IInv says, for each execution, how its row, its *)
(* claims and its objects at the provider fit together (RowOK); for each   *)
(* lane, what it may still rely on of the execution it read earlier        *)
(* (LaneOK); for each webhook event, that it tells the truth (EventOK);    *)
(* and for each withdrawal, that at most one of its executions is open and *)
(* that they are numbered without gaps (WithdrawalOK, Numbered).           *)
(*                                                                         *)
(* Every action is shown to have the shape Moves: what it does to one      *)
(* execution respects KeyMoves, the facts no step takes back, so that what *)
(* every other lane and event relies on survives; and it is a step of the  *)
(* contract or one the contract does not see.  Lemma Update deals once     *)
(* with every update of a row that the trigger accepts.                    *)
(***************************************************************************)
EXTENDS PayoutExecution, FiniteSetTheorems, TLAPS

-----------------------------------------------------------------------------
(* The inductive invariant *)

Payouts == {"PROCESSING", "COMPLETED", "FAILED"}
Before == PreProvider \cup {"PRE_PROVIDER_ABORTED"}
BankStages == BankClaimed \cup {"BANK_PAYOUT_CLAIM_EXPIRED"}

\* Stages from which no call to the provider is claimed any more.
Late == {"CANCEL_REQUESTED", "BANK_PAID", "CANCELLED_REVERSED",
         "PROVIDER_COMPLETION_RECOVERY_REQUIRED",
         "BANK_PAYOUT_RECOVERY_REQUIRED", "PROVIDER_FAILURE_REVIEW_REQUIRED"}

StripeStages ==
  BankStages \cup
  {"TRANSFER_CREATED", "TRANSFER_RECOVERY_REQUIRED", "BANK_PAYOUT_CREATED",
   "BANK_PAYOUT_RECOVERY_REQUIRED", "BANK_PAID", "CANCEL_REQUESTED",
   "CANCELLED_REVERSED"}

ClaimRows == [send : Ages, bank : Ages]
ProviderRows ==
  [transfers : Nat, reversed : BOOLEAN, payouts : Nat,
   payout : {"NONE", "PENDING", "PAID", "FAILED", "CANCELED"},
   answer : {"NONE", "PROCESSING", "COMPLETED", "FAILED"}]

\* No payout of the execution is under way or can be started any more.
Quiesced(row, c, p) ==
  /\ row.stage \in Late
  /\ row.provider = "stripe"
  /\ p.payout \in {"NONE", "FAILED", "CANCELED"}
  /\ p.payout = "NONE" => c.bank = "none"

\* The claims of an execution follow its stage.
ClaimsFit(row, c) ==
  /\ (c.send = "none") <=> (row.stage \in Before)
  /\ c.send = "none" => c.bank = "none" /\ ~row.transfer /\ ~row.payout
  /\ c.bank # "none" => row.payout \/ row.stage \in BankStages
  /\ row.stage \in BankStages => c.bank # "none" /\ ~row.payout /\ row.transfer

\* The status of an execution follows its stage.
StatusFits(row) ==
  /\ row.status = "ABSENT" => row.version = 0 /\ row.stage = "CREATED"
  /\ (row.status = "CANCELLED") <=>
       (row.stage \in {"PRE_PROVIDER_ABORTED", "CANCELLED_REVERSED"})
  /\ row.stage \in StripeStages => row.provider = "stripe"
  /\ row.payout => row.provider = "stripe"

\* The provider's objects are the ones the claims and the row account for.
ObjectsFit(row, c, p) ==
  /\ c.send = "none" => p = NoObjects
  /\ p.transfers <= 1 /\ p.payouts <= 1
  /\ (p.payouts = 0) <=> (p.payout = "NONE")
  /\ row.provider = "stripe" /\ p.payouts > 0 => c.bank # "none"
  /\ row.provider # "stripe" => p.payouts = p.transfers
  /\ p.answer = "COMPLETED" => p.payout = "PAID"
  /\ row.payout => p.payouts > 0
  /\ row.status = "COMPLETED" => p.payout = "PAID"
  /\ row.stage = "CANCELLED_REVERSED" => p.reversed
  /\ p.reversed => Quiesced(row, c, p)

RowOK(row, c, p) == ClaimsFit(row, c) /\ StatusFits(row) /\ ObjectsFit(row, c, p)

\* A recovery that still holds the version it claimed still has its stage.
Fenced(n, row) ==
  LET stages == IF \/ n.pc \in {"callTransfer", "recordTransfer"}
                   \/ n.pc = "caught" /\ n.result = "TRANSFER"
                THEN {"PROVIDER_SEND_CLAIMED"}
                ELSE IF \/ n.pc \in {"callBank", "recordBank"}
                        \/ n.pc = "caught" /\ n.result \in Payouts
                THEN BankClaimed
                ELSE {"PROVIDER_SEND_CLAIMED"} \cup BankClaimed
  IN /\ row.provider = "stripe"
     /\ n.version <= row.version
     /\ n.version = row.version => row.stage \in stages

\* What an operator's request knows of the execution it works on.
RequestOK(n, row, c, p) ==
  /\ n.pc \notin {"promote", "pollApply", "inbox"}
  /\ n.result # "REVERSED"
  /\ n.result = "SENT" => row.provider # "stripe"
  /\ n.result = "TRANSFER" => row.provider = "stripe"
  /\ n.result \in Payouts => p.payouts > 0 /\ row.provider = "stripe"
  /\ n.result = "COMPLETED" => p.payout = "PAID"
  /\ n.pc \in {"finalize", "recordPaid"} => p.payout = "PAID"
  /\ n.pc \in {"validate", "claimSend", "callTransfer", "resume"}
       => n.result = "NONE"
  /\ n.pc = "callTransfer" => c.send \in {"young", "late"}
  /\ n.pc = "callBank" => /\ c.bank \in {"young", "late"}
                          /\ n.result \in {"NONE", "TRANSFER"}
                          /\ row.provider = "stripe"
  /\ n.pc = "recordTransfer" => n.result \in {"TRANSFER", "SENT"}
  /\ n.pc = "recordBank" => n.result \in Payouts \cup {"NONE"} /\ p.payouts > 0
                            /\ row.provider = "stripe"
  /\ n.pc \in {"resume", "claimBank"} => row.provider = "stripe"
  /\ n.pc = "claimBank" => n.result = "TRANSFER"
  /\ n.pc \in {"validate", "claimSend", "claimBank"} => n.mode = "send"
  /\ n.mode = "recover" /\ n.pc = "callBank" => n.result = "NONE"
  /\ n.mode = "recover" /\ n.pc \in {"callTransfer", "recordTransfer", "callBank",
                                     "recordBank", "caught"}
       => Fenced(n, row)
  /\ n.pc \in {"cancelPayout", "reverse", "recordReversal"}
       => row.stage \in Late /\ row.provider = "stripe"
  /\ n.pc \in {"reverse", "recordReversal"} => Quiesced(row, c, p)
  /\ n.pc = "recordReversal" => p.reversed

\* What a run of the status job knows of it.
SweepOK(n, row, p) ==
  /\ n.pc \in {"promote", "pollApply"}
  /\ n.pc = "pollApply" => row.payout
  /\ n.pc = "pollApply" /\ n.result = "COMPLETED" => p.payout = "PAID"

\* A lane works on one execution, or one event, of its kind.
LaneOK(l, n, x, c, p) ==
  \/ n.pc = "idle"
  \/ /\ l \in OperatorLanes /\ n.job \in Keys
     /\ RequestOK(n, x[n.job], c[n.job], p[n.job])
  \/ /\ l \in StatusLanes /\ n.job \in Keys
     /\ SweepOK(n, x[n.job], p[n.job])
  \/ l \in InboxLanes /\ n.pc = "inbox" /\ n.job \in Events

\* An event in the inbox is about a Stripe payout that came to its end.
EventOK(e, status, row, p) ==
  status # "ABSENT" =>
    /\ row.provider = "stripe"
    /\ e.kind = "paid" => p.payout = "PAID"

Open == {"PROCESSING", "COMPLETED"}

\* At most one execution of a withdrawal is open, and it decides its status.
WithdrawalOK(w, status, x) ==
  /\ \A k \in Keys : k[1] = w /\ x[k].status \in Open => status = x[k].status
  /\ \A j, k \in Keys :
       j[1] = w /\ k[1] = w /\ x[j].status \in Open /\ x[k].status \in Open
         => j = k
  /\ status = "COMPLETED" =>
       \E k \in Keys : k[1] = w /\ x[k].status = "COMPLETED"

\* The executions of a withdrawal are numbered without gaps.
Numbered(w, x) ==
  \E n \in 0..MaxExecutions :
    \A i \in 1..MaxExecutions : (x[<<w, i>>].status # "ABSENT") <=> (i <= n)

RowsOK == \A k \in Keys : RowOK(exec[k], claim[k], provider[k])
LanesOK == \A l \in Lanes : LaneOK(l, lane[l], exec, claim, provider)
InboxOK == \A e \in Events : EventOK(e, inbox[e].status, exec[e.key], provider[e.key])
WithdrawalsOK ==
  \A w \in Withdrawals : WithdrawalOK(w, withdrawal[w], exec) /\ Numbered(w, exec)

IInv == TypeOK /\ RowsOK /\ LanesOK /\ InboxOK /\ WithdrawalsOK

-----------------------------------------------------------------------------
(* Steps of one execution *)

\* What every step keeps of an execution, its claims and its provider objects.
KeyMoves(row, c, p, row2, c2, p2) ==
  /\ row2.provider = row.provider
  /\ row2 = row \/ row2.version > row.version
  /\ row2 = row \/ row.status = "ABSENT" \/ Accepts(row, row2)
  /\ row.payout => row2.payout
  /\ row.stage \in Late => row2.stage \in Late
  /\ p.payouts > 0 => p2.payouts > 0
  /\ p.payout = "PAID" => p2.payout = "PAID"
  /\ p.reversed => p2.reversed
  /\ Quiesced(row, c, p) => Quiesced(row2, c2, p2)

KeysMove ==
  /\ exec' \in [Keys -> ExecutionRows]
  /\ claim' \in [Keys -> ClaimRows]
  /\ provider' \in [Keys -> ProviderRows]
  /\ \A k \in Keys : RowOK(exec'[k], claim'[k], provider'[k])
  /\ \A k \in Keys : KeyMoves(exec[k], claim[k], provider[k],
                              exec'[k], claim'[k], provider'[k])

\* The parts of the type invariant the proofs cite.
LEMMA Types ==
  ASSUME TypeOK
  PROVE  /\ exec \in [Keys -> ExecutionRows]
         /\ claim \in [Keys -> ClaimRows]
         /\ provider \in [Keys -> ProviderRows]
         /\ lane \in [Lanes -> LaneRecords]
  BY DEF TypeOK, ClaimRows, ProviderRows

\* Nothing changes for an execution no step touches.
LEMMA KeyStill ==
  ASSUME NEW row, NEW c, NEW p
  PROVE  KeyMoves(row, c, p, row, c, p)
  BY DEF KeyMoves

\* A step that touches no execution.
LEMMA KeysStill ==
  ASSUME IInv, UNCHANGED <<exec, claim, provider>>
  PROVE  KeysMove
  BY Types, KeyStill DEF IInv, RowsOK, KeysMove

\* A step that touches one execution.
LEMMA KeyChange ==
  ASSUME IInv, NEW k \in Keys,
         NEW r \in ExecutionRows, NEW c \in ClaimRows, NEW p \in ProviderRows,
         exec' = [exec EXCEPT ![k] = r],
         claim' = [claim EXCEPT ![k] = c],
         provider' = [provider EXCEPT ![k] = p],
         RowOK(r, c, p),
         KeyMoves(exec[k], claim[k], provider[k], r, c, p)
  PROVE  KeysMove
<1>1. /\ exec' \in [Keys -> ExecutionRows]
      /\ claim' \in [Keys -> ClaimRows]
      /\ provider' \in [Keys -> ProviderRows]
  BY Types DEF IInv
<1>2. ASSUME NEW j \in Keys
      PROVE  /\ RowOK(exec'[j], claim'[j], provider'[j])
             /\ KeyMoves(exec[j], claim[j], provider[j],
                         exec'[j], claim'[j], provider'[j])
  <2>1. CASE j = k
    <3>1. exec'[j] = r /\ claim'[j] = c /\ provider'[j] = p
      BY <2>1, Types DEF IInv
    <3> QED BY <2>1, <3>1
  <2>2. CASE j # k
    <3>1. exec'[j] = exec[j] /\ claim'[j] = claim[j] /\ provider'[j] = provider[j]
      BY <2>2, Types DEF IInv
    <3> QED BY <3>1, KeyStill DEF IInv, RowsOK
  <2> QED BY <2>1, <2>2
<1> QED BY <1>1, <1>2 DEF KeysMove

\* A step of the row alone.
LEMMA RowChange ==
  ASSUME IInv, NEW k \in Keys, NEW r \in ExecutionRows,
         exec' = [exec EXCEPT ![k] = r], UNCHANGED <<claim, provider>>,
         RowOK(r, claim[k], provider[k]),
         KeyMoves(exec[k], claim[k], provider[k], r, claim[k], provider[k])
  PROVE  KeysMove
<1>1. claim[k] \in ClaimRows /\ provider[k] \in ProviderRows
  BY Types DEF IInv
<1>2. /\ claim' = [claim EXCEPT ![k] = claim[k]]
      /\ provider' = [provider EXCEPT ![k] = provider[k]]
  BY Types DEF IInv
<1> QED BY <1>1, <1>2, KeyChange

\* A step of the provider alone.
LEMMA ObjectChange ==
  ASSUME IInv, NEW k \in Keys, NEW p \in ProviderRows,
         provider' = [provider EXCEPT ![k] = p], UNCHANGED <<exec, claim>>,
         RowOK(exec[k], claim[k], p),
         KeyMoves(exec[k], claim[k], provider[k], exec[k], claim[k], p)
  PROVE  KeysMove
<1>1. exec[k] \in ExecutionRows /\ claim[k] \in ClaimRows
  BY Types DEF IInv
<1>2. /\ exec' = [exec EXCEPT ![k] = exec[k]]
      /\ claim' = [claim EXCEPT ![k] = claim[k]]
  BY Types DEF IInv
<1> QED BY <1>1, <1>2, KeyChange

-----------------------------------------------------------------------------
(* Steps of the lanes *)

\* Every call under way keeps a claim the provider remembers.
CallsKept ==
  \A l \in OperatorLanes :
    lane[l].job \in Keys =>
      /\ lane[l].pc = "callTransfer" /\ claim[lane[l].job].send \in {"young", "late"}
           => claim'[lane[l].job].send \in {"young", "late"}
      /\ lane[l].pc = "callBank" /\ claim[lane[l].job].bank \in {"young", "late"}
           => claim'[lane[l].job].bank \in {"young", "late"}

\* What a request knows stays true while others move the execution.
LEMMA RequestStable ==
  ASSUME NEW n \in LaneRecords,
         NEW row \in ExecutionRows, NEW c \in ClaimRows, NEW p \in ProviderRows,
         NEW row2 \in ExecutionRows, NEW c2 \in ClaimRows, NEW p2 \in ProviderRows,
         RequestOK(n, row, c, p), KeyMoves(row, c, p, row2, c2, p2),
         n.pc = "callTransfer" => c2.send \in {"young", "late"},
         n.pc = "callBank" => c2.bank \in {"young", "late"}
  PROVE  RequestOK(n, row2, c2, p2)
<1>1. Fenced(n, row) => Fenced(n, row2)
  <2>1. row.provider = row2.provider /\ (row2 = row \/ row2.version > row.version)
    BY DEF KeyMoves
  <2>2. row.version \in Nat /\ row2.version \in Nat /\ n.version \in Nat
    BY DEF ExecutionRows, LaneRecords
  <2> QED BY <2>1, <2>2 DEF Fenced
<1>2. /\ row.provider = row2.provider
      /\ row.stage \in Late => row2.stage \in Late
      /\ p.payouts > 0 => p2.payouts > 0
      /\ p.payout = "PAID" => p2.payout = "PAID"
      /\ p.reversed => p2.reversed
      /\ Quiesced(row, c, p) => Quiesced(row2, c2, p2)
  BY DEF KeyMoves
<1> QED BY <1>1, <1>2 DEF RequestOK

LEMMA LanesStable ==
  ASSUME IInv, KeysMove, CallsKept, NEW l \in Lanes
  PROVE  LaneOK(l, lane[l], exec', claim', provider')
<1>1. /\ LaneOK(l, lane[l], exec, claim, provider)
      /\ lane[l] \in LaneRecords
  BY Types DEF IInv, LanesOK
<1>2. CASE l \in OperatorLanes /\ lane[l].job \in Keys
           /\ RequestOK(lane[l], exec[lane[l].job], claim[lane[l].job],
                        provider[lane[l].job])
  <2>1. PICK k \in Keys : k = lane[l].job
    BY <1>2
  <2>2. RequestOK(lane[l], exec[k], claim[k], provider[k])
    BY <1>2, <2>1
  <2>3. /\ exec[k] \in ExecutionRows /\ claim[k] \in ClaimRows
        /\ provider[k] \in ProviderRows
    BY Types DEF IInv
  <2>4. /\ exec'[k] \in ExecutionRows /\ claim'[k] \in ClaimRows
        /\ provider'[k] \in ProviderRows
        /\ KeyMoves(exec[k], claim[k], provider[k], exec'[k], claim'[k], provider'[k])
    BY DEF KeysMove
  <2>5. /\ lane[l].pc = "callTransfer" => claim'[k].send \in {"young", "late"}
        /\ lane[l].pc = "callBank" => claim'[k].bank \in {"young", "late"}
    BY <1>2, <2>1, <2>2 DEF CallsKept, RequestOK
  <2>6. RequestOK(lane[l], exec'[k], claim'[k], provider'[k])
    BY <1>1, <2>2, <2>3, <2>4, <2>5, RequestStable
  <2> QED BY <1>2, <2>1, <2>6 DEF LaneOK
<1>3. CASE l \in StatusLanes /\ lane[l].job \in Keys
           /\ SweepOK(lane[l], exec[lane[l].job], provider[lane[l].job])
  BY <1>3 DEF LaneOK, SweepOK, KeysMove, KeyMoves
<1> QED BY <1>1, <1>2, <1>3 DEF LaneOK

LanesMove ==
  /\ lane' \in [Lanes -> LaneRecords]
  /\ \A l \in Lanes : LaneOK(l, lane'[l], exec', claim', provider')

\* A step that leaves the lanes alone.
LEMMA LanesStill ==
  ASSUME IInv, KeysMove, CallsKept, UNCHANGED lane
  PROVE  LanesMove
  BY LanesStable, Types DEF LanesMove, IInv

\* One lane moves on.
LEMMA LaneChange ==
  ASSUME IInv, KeysMove, CallsKept, NEW l \in Lanes, NEW n \in LaneRecords,
         lane' = [lane EXCEPT ![l] = n],
         LaneOK(l, n, exec', claim', provider')
  PROVE  LanesMove
<1>1. lane' \in [Lanes -> LaneRecords]
  BY Types DEF IInv
<1>2. ASSUME NEW m \in Lanes
      PROVE  LaneOK(m, lane'[m], exec', claim', provider')
  <2>1. CASE m = l
    BY <2>1, Types DEF IInv
  <2>2. CASE m # l
    BY <2>2, Types, LanesStable DEF IInv
  <2> QED BY <2>1, <2>2
<1> QED BY <1>1, <1>2 DEF LanesMove

\* A lane comes to rest.
LEMMA LaneRests ==
  ASSUME IInv, KeysMove, CallsKept, NEW l \in Lanes, Rest(l)
  PROVE  LanesMove
<1>1. Idle \in LaneRecords
  BY DEF Idle, At, LaneRecords, Results
<1>2. LaneOK(l, Idle, exec', claim', provider')
  BY DEF LaneOK, Idle, At
<1> QED BY <1>1, <1>2, LaneChange DEF Rest

\* Claims that are kept or made anew are remembered.
LEMMA ClaimsUnchanged ==
  ASSUME UNCHANGED claim
  PROVE  CallsKept
  BY DEF CallsKept

-----------------------------------------------------------------------------
(* Steps of the inbox and of the books *)

InboxRows ==
  [status : {"ABSENT", "PENDING", "PROCESSING", "FAILED", "PROCESSED",
             "QUARANTINED"},
   attempts : Nat, due : BOOLEAN]

InboxMoves ==
  /\ inbox' \in [Events -> InboxRows]
  /\ \A e \in Events : EventOK(e, inbox'[e].status, exec'[e.key], provider'[e.key])

LEMMA EventKey ==
  ASSUME NEW e \in Events
  PROVE  e.key \in Keys /\ e.kind \in {"paid", "failed"}
  BY DEF Events

\* What an event says stays true.
LEMMA EventStable ==
  ASSUME IInv, KeysMove, NEW e \in Events, inbox[e].status # "ABSENT"
  PROVE  /\ exec'[e.key].provider = "stripe"
         /\ e.kind = "paid" => provider'[e.key].payout = "PAID"
  BY EventKey DEF IInv, InboxOK, EventOK, KeysMove, KeyMoves

LEMMA InboxStill ==
  ASSUME IInv, KeysMove, UNCHANGED inbox
  PROVE  InboxMoves
  BY EventStable DEF InboxMoves, EventOK, IInv, TypeOK, InboxRows

\* An event that is in the inbox moves on.
LEMMA InboxChange ==
  ASSUME IInv, KeysMove, NEW e \in Events, NEW i \in InboxRows,
         inbox' = [inbox EXCEPT ![e] = i], inbox[e].status # "ABSENT"
  PROVE  InboxMoves
<1>1. inbox \in [Events -> InboxRows]
  BY DEF IInv, TypeOK, InboxRows
<1>2. ASSUME NEW f \in Events
      PROVE  EventOK(f, inbox'[f].status, exec'[f.key], provider'[f.key])
  BY <1>1, EventStable DEF EventOK
<1> QED BY <1>1, <1>2 DEF InboxMoves

BooksMove ==
  /\ withdrawal' \in [Withdrawals -> WithdrawalStatuses]
  /\ withdrawable' \in Nat /\ lifetimePaid' \in Nat
  /\ \A w \in Withdrawals :
       WithdrawalOK(w, withdrawal'[w], exec') /\ Numbered(w, exec')

BoundsMove == requests' \in Nat /\ deliveries' \in Nat /\ faults' \in Nat

ContractState(status) ==
  CASE status = "ABSENT" -> "NONE"
    [] status = "COMPLETED" -> "PAID"
    [] status = "REJECTED" -> "RETURNED"
    [] OTHER -> "RESERVED"

Refines == Contract!Next \/ UNCHANGED Contract!cvars

\* No payout becomes paid.
PaidKept ==
  \A k \in Keys : (provider'[k].payout = "PAID") <=> (provider[k].payout = "PAID")

Paid(w, p) == \E k \in Keys : k[1] = w /\ p[k].payout = "PAID"

\* A step the contract does not see.
LEMMA ContractStill ==
  ASSUME UNCHANGED <<withdrawable, lifetimePaid>>, PaidKept,
         \A w \in Withdrawals :
           ContractState(withdrawal'[w]) = ContractState(withdrawal[w])
  PROVE  Refines
  BY DEF Refines, PaidKept, ContractState, Contract!cvars

\* A step that opens and closes no execution.
LEMMA BooksKept ==
  ASSUME IInv, UNCHANGED <<withdrawal, balanceVars>>,
         \A k \in Keys : exec'[k].status = exec[k].status
  PROVE  BooksMove
<1>1. ASSUME NEW w \in Withdrawals
      PROVE  WithdrawalOK(w, withdrawal'[w], exec') /\ Numbered(w, exec')
  <2>1. WithdrawalOK(w, withdrawal[w], exec) /\ Numbered(w, exec)
    BY DEF IInv, WithdrawalsOK
  <2>2. WithdrawalOK(w, withdrawal'[w], exec')
    BY <2>1 DEF WithdrawalOK
  <2>3. \A i \in 1..MaxExecutions : <<w, i>> \in Keys
    BY DEF Keys
  <2>4. Numbered(w, exec')
    BY <2>1, <2>3 DEF Numbered
  <2> QED BY <2>2, <2>4
<1>2. withdrawal' \in [Withdrawals -> WithdrawalStatuses]
      /\ withdrawable' \in Nat /\ lifetimePaid' \in Nat
  BY DEF IInv, TypeOK, balanceVars
<1> QED BY <1>1, <1>2 DEF BooksMove

\* A step that also pays nothing.
LEMMA BooksStill ==
  ASSUME IInv, UNCHANGED <<withdrawal, balanceVars>>, PaidKept,
         \A k \in Keys : exec'[k].status = exec[k].status
  PROVE  BooksMove /\ Refines
<1>1. Refines
  BY ContractStill DEF balanceVars
<1> QED BY <1>1, BooksKept

Moves ==
  KeysMove /\ LanesMove /\ InboxMoves /\ BooksMove /\ BoundsMove /\ Refines

\* A step of this shape preserves the invariant.
LEMMA MovesPreserve ==
  ASSUME Moves
  PROVE  IInv'
<1>1. TypeOK'
  BY DEF Moves, KeysMove, LanesMove, InboxMoves, BooksMove, BoundsMove, TypeOK,
         ClaimRows, ProviderRows, InboxRows
<1>2. RowsOK' /\ LanesOK' /\ InboxOK' /\ WithdrawalsOK'
  BY DEF Moves, KeysMove, LanesMove, InboxMoves, BooksMove, RowsOK, LanesOK,
         InboxOK, WithdrawalsOK
<1> QED BY <1>1, <1>2 DEF IInv

\* The bounds of a step that spends nothing, a request, or a fault.
LEMMA BoundsStill ==
  ASSUME IInv, UNCHANGED boundVars
  PROVE  BoundsMove
  BY DEF IInv, TypeOK, boundVars, BoundsMove

LEMMA RequestSpent ==
  ASSUME IInv, Request, UNCHANGED <<deliveries, faults>>
  PROVE  BoundsMove
<1>1. requests + 1 \in Nat
  BY DEF IInv, TypeOK
<1> QED BY <1>1 DEF IInv, TypeOK, Request, BoundsMove

LEMMA FaultSpent ==
  ASSUME IInv, Fault, UNCHANGED <<requests, deliveries>>
  PROVE  BoundsMove
<1>1. faults + 1 \in Nat
  BY DEF IInv, TypeOK
<1> QED BY <1>1 DEF IInv, TypeOK, Fault, BoundsMove

\* A step of one row that leaves its status, and everything but the lanes,
\* alone.
LEMMA RowMoves ==
  ASSUME IInv, NEW k \in Keys, NEW r \in ExecutionRows,
         exec' = [exec EXCEPT ![k] = r], r.status = exec[k].status,
         UNCHANGED <<withdrawal, claim, balanceVars, provider>>,
         RowOK(r, claim[k], provider[k]),
         KeyMoves(exec[k], claim[k], provider[k], r, claim[k], provider[k])
  PROVE  KeysMove /\ CallsKept /\ BooksMove /\ Refines
<1>1. KeysMove
  BY RowChange
<1>2. \A j \in Keys : exec'[j].status = exec[j].status
  BY Types DEF IInv
<1>3. PaidKept
  BY DEF PaidKept
<1> QED BY <1>1, <1>2, <1>3, BooksStill, ClaimsUnchanged

\* A step that leaves every row alone.
LEMMA NoRowMoves ==
  ASSUME IInv, UNCHANGED <<withdrawal, exec, claim, balanceVars, provider>>
  PROVE  KeysMove /\ CallsKept /\ BooksMove /\ Refines
<1>1. PaidKept
  BY DEF PaidKept
<1> QED BY <1>1, KeysStill, BooksStill, ClaimsUnchanged

-----------------------------------------------------------------------------
(* Updates of one row *)

\* What the stage graph of the trigger says about the groups of stages.
LEMMA StageFacts ==
  ASSUME NEW a, NEW b, <<a, b>> \in StageSteps
  PROVE  /\ a \in Late => b \in Late
         /\ b \in Before => a \in PreProvider
         /\ a \in PreProvider => b \in Before \cup {"PROVIDER_SEND_CLAIMED"}
         /\ b \in BankClaimed =>
              a \in {"TRANSFER_CREATED", "TRANSFER_RECOVERY_REQUIRED"}
         /\ b = "BANK_PAYOUT_CLAIM_EXPIRED" => a \in BankClaimed
  BY DEF StageSteps, Late, Before, PreProvider, BankClaimed

\* An update that claims nothing: it keeps the references of the row, and
\* attaches only what the provider made.
Suits(row, new, c, p) ==
  /\ new.provider = row.provider
  /\ row.transfer => new.transfer
  /\ row.payout => new.payout
  /\ new.stage \in StripeStages => row.provider = "stripe"
  /\ new.stage \notin {"PRE_PROVIDER_ABORTED", "CANCELLED_REVERSED"}
  /\ new.stage = "PROVIDER_SEND_CLAIMED" => c.send # "none"
  /\ new.stage \in BankClaimed => row.stage \in BankClaimed
  /\ c.bank # "none" => new.payout \/ new.stage \in BankStages
  /\ new.payout => p.payouts > 0 /\ row.provider = "stripe"

LEMMA Update ==
  ASSUME NEW row \in ExecutionRows, NEW new \in ExecutionRows,
         NEW c \in ClaimRows, NEW p \in ProviderRows,
         RowOK(row, c, p), Accepts(row, new), Suits(row, new, c, p),
         new.status = "PROCESSING", new.version = row.version + 1
  PROVE  RowOK(new, c, p) /\ KeyMoves(row, c, p, new, c, p)
<1>1. row.status = "PROCESSING"
  BY DEF Accepts
<1>2. /\ row.stage \in Late => new.stage \in Late
      /\ new.stage \in Before => row.stage \in Before
      /\ row.stage \in PreProvider =>
           new.stage \in Before \cup {"PROVIDER_SEND_CLAIMED"}
      /\ new.stage = "BANK_PAYOUT_CLAIM_EXPIRED" =>
           row.stage \in BankClaimed \cup {"BANK_PAYOUT_CLAIM_EXPIRED"}
  <2>1. CASE row.stage = new.stage
    BY <2>1 DEF Before
  <2>2. CASE <<row.stage, new.stage>> \in StageSteps
    BY <2>2, StageFacts DEF Before
  <2> QED BY <2>1, <2>2 DEF Accepts
<1>3. row.stage \notin {"PRE_PROVIDER_ABORTED", "CANCELLED_REVERSED"}
  BY <1>1 DEF RowOK, StatusFits
<1>4. new.stage \in BankStages => row.stage \in BankStages
  BY <1>2 DEF Suits, BankStages
<1>5. (c.send = "none") <=> (new.stage \in Before)
  <2>1. (c.send = "none") <=> (row.stage \in Before)
    BY DEF RowOK, ClaimsFit
  <2>2. new.stage = "PROVIDER_SEND_CLAIMED" => c.send # "none"
    BY DEF Suits
  <2>3. row.stage \in Before => row.stage \in PreProvider
    BY <1>3 DEF Before
  <2> QED BY <1>2, <2>1, <2>2, <2>3
<1>6. c.send = "none" => c.bank = "none" /\ ~new.transfer /\ ~new.payout
  <2>1. row.stage \in Before =>
          row.stage # "PROVIDER_SEND_CLAIMED" /\ row.stage \notin BankClaimed
    BY DEF Before, PreProvider, BankClaimed
  <2>2. new.transfer /\ ~row.transfer => row.stage = "PROVIDER_SEND_CLAIMED"
    BY DEF Accepts, AttachesTransfer
  <2>3. new.payout /\ ~row.payout => row.stage \in BankClaimed
    BY DEF Accepts, AttachesPayout
  <2> QED BY <2>1, <2>2, <2>3 DEF RowOK, ClaimsFit
<1>7. new.stage \in BankStages => c.bank # "none" /\ ~new.payout /\ new.transfer
  <2>1. new.payout /\ ~row.payout => new.stage \notin BankStages
    BY DEF Accepts, AttachesPayout, BankStages, BankClaimed
  <2> QED BY <1>4, <2>1 DEF RowOK, ClaimsFit, Suits
<1>8. ClaimsFit(new, c)
  BY <1>5, <1>6, <1>7 DEF ClaimsFit, Suits
<1>9. StatusFits(new)
  BY DEF StatusFits, Suits
<1>10. ObjectsFit(new, c, p)
  <2>1. Quiesced(row, c, p) => Quiesced(new, c, p)
    BY <1>2 DEF Quiesced, Suits
  <2>2. ObjectsFit(row, c, p)
    BY DEF RowOK
  <2> QED BY <2>1, <2>2 DEF ObjectsFit, Suits
<1>11. KeyMoves(row, c, p, new, c, p)
  <2>1. Quiesced(row, c, p) => Quiesced(new, c, p)
    BY <1>2 DEF Quiesced, Suits
  <2>2. new.version > row.version
    BY DEF ExecutionRows
  <2> QED BY <1>2, <2>1, <2>2 DEF KeyMoves, Suits
<1> QED BY <1>8, <1>9, <1>10, <1>11 DEF RowOK

-----------------------------------------------------------------------------
(* Steps of an operator's request *)

\* The lane of a request under way.
LEMMA AtWork ==
  ASSUME IInv, NEW l \in OperatorLanes, lane[l].pc # "idle"
  PROVE  /\ l \in Lanes /\ lane[l] \in LaneRecords /\ lane[l].job \in Keys
         /\ RequestOK(lane[l], exec[lane[l].job], claim[lane[l].job],
                      provider[lane[l].job])
<1>1. l \in Lanes /\ l \notin StatusLanes /\ l \notin InboxLanes
  BY ConstantsAssumption DEF Lanes
<1>2. LaneOK(l, lane[l], exec, claim, provider) /\ lane[l] \in LaneRecords
  BY <1>1, Types DEF IInv, LanesOK
<1> QED BY <1>1, <1>2 DEF LaneOK

\* The request knows as much of the execution after the step.
LEMMA StillAtWork ==
  ASSUME IInv, KeysMove, CallsKept, NEW l \in OperatorLanes, lane[l].pc # "idle"
  PROVE  RequestOK(lane[l], exec'[lane[l].job], claim'[lane[l].job],
                   provider'[lane[l].job])
<1>1. l \in Lanes /\ l \notin StatusLanes /\ l \notin InboxLanes
  BY ConstantsAssumption DEF Lanes
<1>2. LaneOK(l, lane[l], exec', claim', provider')
  BY <1>1, LanesStable
<1> QED BY <1>1, <1>2 DEF LaneOK

\* The request goes on with record n.
LEMMA RequestGoes ==
  ASSUME IInv, KeysMove, CallsKept, NEW l \in OperatorLanes, NEW k \in Keys,
         NEW n \in LaneRecords, lane' = [lane EXCEPT ![l] = n], n.job = k,
         RequestOK(n, exec'[k], claim'[k], provider'[k])
  PROVE  LanesMove
<1>1. l \in Lanes
  BY DEF Lanes
<1>2. LaneOK(l, n, exec', claim', provider')
  BY DEF LaneOK
<1> QED BY <1>1, <1>2, LaneChange

Steps == {"validate", "claimSend", "abort", "callTransfer", "recordTransfer",
          "claimBank", "callBank", "recordBank", "finalize", "caught", "resume",
          "cancelPayout", "reverse", "cancelFailed", "recordPaid",
          "recordReversal"}

LEMMA Goes ==
  ASSUME IInv, KeysMove, CallsKept, NEW l \in OperatorLanes, lane[l].pc # "idle",
         NEW k \in Keys, k = lane[l].job, NEW pc \in Steps, Goto(l, pc),
         NEW n, n = [lane[l] EXCEPT !.pc = pc],
         RequestOK(n, exec'[k], claim'[k], provider'[k])
  PROVE  LanesMove
<1>1. l \in Lanes /\ lane[l] \in LaneRecords
  BY AtWork
<1>2. n \in LaneRecords /\ n.job = k
  BY <1>1 DEF LaneRecords, Steps
<1>3. lane' = [lane EXCEPT ![l] = n]
  BY <1>1 DEF Goto
<1> QED BY <1>2, <1>3, RequestGoes

\* Steps after which the request has nothing to rely on.
LEMMA GoesPlain ==
  ASSUME IInv, KeysMove, CallsKept, NEW l \in OperatorLanes, lane[l].pc # "idle",
         NEW pc \in {"claimSend", "abort", "cancelFailed"}, Goto(l, pc),
         pc = "claimSend" => lane[l].pc = "validate"
  PROVE  LanesMove
<1>1. PICK k \in Keys : k = lane[l].job
  BY AtWork
<1> DEFINE n == [lane[l] EXCEPT !.pc = pc]
<1>2. RequestOK(lane[l], exec'[k], claim'[k], provider'[k])
  BY <1>1, StillAtWork
<1>3. n.pc = pc /\ n.result = lane[l].result /\ n.mode = lane[l].mode
  BY AtWork DEF LaneRecords
<1>4. RequestOK(n, exec'[k], claim'[k], provider'[k])
  BY <1>2, <1>3 DEF RequestOK
<1> QED BY <1>1, <1>4, Goes DEF Steps

\* An error of a call or of its record is caught.
LEMMA GoesCaught ==
  ASSUME IInv, KeysMove, CallsKept, NEW l \in OperatorLanes, lane[l].pc # "idle",
         \/ lane[l].mode = "send"
         \/ lane[l].pc \in {"callTransfer", "recordTransfer", "callBank",
                            "recordBank"},
         Goto(l, "caught")
  PROVE  LanesMove
<1>1. PICK k \in Keys : k = lane[l].job
  BY AtWork
<1> DEFINE n == [lane[l] EXCEPT !.pc = "caught"]
<1>2. RequestOK(lane[l], exec'[k], claim'[k], provider'[k])
  BY <1>1, StillAtWork
<1>3. /\ n.pc = "caught" /\ n.result = lane[l].result /\ n.mode = lane[l].mode
      /\ n.version = lane[l].version /\ n.mode \in {"send", "recover"}
  BY AtWork DEF LaneRecords
<1> HIDE DEF n
<1>4. n.mode = "recover" => Fenced(n, exec'[k])
  <2>1. SUFFICES ASSUME n.mode = "recover" PROVE Fenced(n, exec'[k])
    OBVIOUS
  <2>2. /\ Fenced(lane[l], exec'[k])
        /\ lane[l].pc \in {"callTransfer", "recordTransfer", "callBank", "recordBank"}
    BY <1>2, <1>3, <2>1 DEF RequestOK
  <2>3. CASE lane[l].pc \in {"callTransfer", "recordTransfer"}
    <3>1. lane[l].result \notin Payouts
      BY <1>2, <2>3 DEF RequestOK, Payouts
    <3> QED BY <1>3, <2>2, <2>3, <3>1 DEF Fenced, BankClaimed
  <2>4. CASE lane[l].pc \in {"callBank", "recordBank"}
    <3>1. lane[l].result # "TRANSFER"
      BY <1>2, <1>3, <2>1, <2>4 DEF RequestOK, Payouts
    <3> QED BY <1>3, <2>2, <2>4, <3>1 DEF Fenced, BankClaimed
  <2> QED BY <2>2, <2>3, <2>4
<1>5. RequestOK(n, exec'[k], claim'[k], provider'[k])
  BY <1>2, <1>3, <1>4 DEF RequestOK
<1>6. n = [lane[l] EXCEPT !.pc = "caught"]
  BY DEF n
<1> QED BY <1>1, <1>5, <1>6, Goes DEF Steps

\* A row that is stored with what it claims and attaches.
LEMMA StoreMoves ==
  ASSUME IInv, NEW k \in Keys, NEW new \in ExecutionRows, Stored(k, new),
         new.status = "PROCESSING", Accepts(exec[k], new),
         Suits(exec[k], new, claim[k], provider[k]),
         UNCHANGED <<withdrawal, claim, balanceVars, provider>>
  PROVE  /\ KeysMove /\ CallsKept /\ BooksMove /\ Refines
         /\ exec'[k].version = exec[k].version + 1
         /\ exec'[k].stage = new.stage /\ exec'[k].provider = exec[k].provider
<1>1. /\ exec[k] \in ExecutionRows /\ claim[k] \in ClaimRows
      /\ provider[k] \in ProviderRows
      /\ RowOK(exec[k], claim[k], provider[k])
  BY Types DEF IInv, RowsOK
<1> DEFINE r == [new EXCEPT !.version = exec[k].version + 1]
<1>2. exec[k].version + 1 \in Nat
  BY <1>1 DEF ExecutionRows
<1>3. /\ r \in ExecutionRows /\ r.status = new.status /\ r.stage = new.stage
      /\ r.version = exec[k].version + 1 /\ r.transfer = new.transfer
      /\ r.payout = new.payout /\ r.provider = new.provider
  BY <1>2 DEF ExecutionRows
<1>4. exec' = [exec EXCEPT ![k] = r]
  BY DEF Stored
<1> HIDE DEF r
<1>5. Accepts(exec[k], r)
  BY <1>3 DEF Accepts, AttachesTransfer, AttachesPayout
<1>6. Suits(exec[k], r, claim[k], provider[k])
  BY <1>3 DEF Suits
<1>7. RowOK(r, claim[k], provider[k])
      /\ KeyMoves(exec[k], claim[k], provider[k], r, claim[k], provider[k])
  BY <1>1, <1>3, <1>5, <1>6, Update
<1>8. r.status = exec[k].status
  BY <1>3 DEF Accepts
<1>9. exec'[k] = r
  BY <1>4, Types DEF IInv
<1>10. KeysMove /\ CallsKept /\ BooksMove /\ Refines
  BY <1>3, <1>4, <1>7, <1>8, RowMoves
<1>11. r.provider = exec[k].provider
  BY <1>6 DEF Suits
<1> QED BY <1>3, <1>9, <1>10, <1>11

\* A row that is stored as it is.
LEMMA TouchMoves ==
  ASSUME IInv, NEW k \in Keys, Stored(k, exec[k]), exec[k].status = "PROCESSING",
         UNCHANGED <<withdrawal, claim, balanceVars, provider>>
  PROVE  /\ KeysMove /\ CallsKept /\ BooksMove /\ Refines
         /\ exec'[k].version = exec[k].version + 1
         /\ exec'[k].stage = exec[k].stage /\ exec'[k].provider = exec[k].provider
<1>1. exec[k] \in ExecutionRows /\ RowOK(exec[k], claim[k], provider[k])
  BY Types DEF IInv, RowsOK
<1>2. Accepts(exec[k], exec[k])
  BY DEF Accepts
<1>3. Suits(exec[k], exec[k], claim[k], provider[k])
  <2>1. exec[k].stage = "PROVIDER_SEND_CLAIMED" => exec[k].stage \notin Before
    BY DEF Before, PreProvider
  <2> QED BY <1>1, <2>1 DEF Suits, RowOK, ClaimsFit, StatusFits, ObjectsFit
<1> QED BY <1>1, <1>2, <1>3, StoreMoves

-----------------------------------------------------------------------------
(* Steps that open or close an execution *)

LEMMA KeyParts ==
  ASSUME NEW k \in Keys
  PROVE  k[1] \in Withdrawals /\ k[2] \in 1..MaxExecutions /\ k = <<k[1], k[2]>>
  BY DEF Keys

\* While an execution is open, no other one of its withdrawal is.
LEMMA OnlyOpen ==
  ASSUME IInv, NEW k \in Keys, exec[k].status \in Open
  PROVE  /\ \A j \in Keys : j[1] = k[1] /\ j # k => exec[j].status \notin Open
         /\ withdrawal[k[1]] = exec[k].status
  BY KeyParts DEF IInv, WithdrawalsOK, WithdrawalOK

\* The status of one execution and of its withdrawal change together.
LEMMA StatusChange ==
  ASSUME IInv, NEW k \in Keys, NEW r \in ExecutionRows,
         exec' = [exec EXCEPT ![k] = r],
         NEW s \in WithdrawalStatuses,
         withdrawal' = [withdrawal EXCEPT ![k[1]] = s],
         \A j \in Keys : j[1] = k[1] /\ j # k => exec[j].status \notin Open,
         r.status \in Open => s = r.status,
         s = "COMPLETED" => r.status = "COMPLETED",
         Numbered(k[1], exec')
  PROVE  /\ withdrawal' \in [Withdrawals -> WithdrawalStatuses]
         /\ \A w \in Withdrawals :
              WithdrawalOK(w, withdrawal'[w], exec') /\ Numbered(w, exec')
<1>1. k[1] \in Withdrawals /\ withdrawal \in [Withdrawals -> WithdrawalStatuses]
      /\ exec \in [Keys -> ExecutionRows]
  BY KeyParts, Types DEF IInv, TypeOK
<1>2. withdrawal' \in [Withdrawals -> WithdrawalStatuses]
  BY <1>1
<1>3. exec'[k] = r /\ \A j \in Keys : j # k => exec'[j] = exec[j]
  BY <1>1
<1>4. ASSUME NEW w \in Withdrawals, w # k[1]
      PROVE  WithdrawalOK(w, withdrawal'[w], exec') /\ Numbered(w, exec')
  <2>1. WithdrawalOK(w, withdrawal[w], exec) /\ Numbered(w, exec)
    BY DEF IInv, WithdrawalsOK
  <2>2. withdrawal'[w] = withdrawal[w]
    BY <1>1, <1>4
  <2>3. \A j \in Keys : j[1] = w => exec'[j] = exec[j]
    BY <1>3, <1>4
  <2>4. \A i \in 1..MaxExecutions : exec'[<<w, i>>] = exec[<<w, i>>]
    BY <2>3 DEF Keys
  <2>5. WithdrawalOK(w, withdrawal[w], exec')
    BY <2>1, <2>3 DEF WithdrawalOK
  <2>6. Numbered(w, exec')
    BY <2>1, <2>4 DEF Numbered
  <2> QED BY <2>2, <2>5, <2>6
<1>5. WithdrawalOK(k[1], s, exec')
  BY <1>3 DEF WithdrawalOK
<1>6. withdrawal'[k[1]] = s
  BY <1>1
<1> QED BY <1>2, <1>4, <1>5, <1>6

\* An execution that exists keeps its number.
LEMMA NumberKept ==
  ASSUME IInv, NEW k \in Keys, NEW r \in ExecutionRows,
         exec' = [exec EXCEPT ![k] = r],
         exec[k].status # "ABSENT", r.status # "ABSENT"
  PROVE  Numbered(k[1], exec')
<1>1. Numbered(k[1], exec) /\ exec \in [Keys -> ExecutionRows]
  BY KeyParts, Types DEF IInv, WithdrawalsOK
<1>2. \A i \in 1..MaxExecutions : <<k[1], i>> \in Keys
  BY KeyParts DEF Keys
<1>3. \A i \in 1..MaxExecutions :
        (exec'[<<k[1], i>>].status # "ABSENT") <=> (exec[<<k[1], i>>].status # "ABSENT")
  BY <1>1, <1>2
<1> QED BY <1>1, <1>3 DEF Numbered

\* The next number is free.
LEMMA NextNumber ==
  ASSUME IInv, NEW w \in Withdrawals, NEW k \in Keys,
         k = <<w, Cardinality(Executions(w)) + 1>>
  PROVE  /\ exec[k].status = "ABSENT"
         /\ \A r \in ExecutionRows :
              r.status # "ABSENT" => Numbered(w, [exec EXCEPT ![k] = r])
<1>1. PICK n \in 0..MaxExecutions :
        \A i \in 1..MaxExecutions : (exec[<<w, i>>].status # "ABSENT") <=> (i <= n)
  BY DEF IInv, WithdrawalsOK, Numbered
<1>2. n \in Nat /\ MaxExecutions \in Nat
  BY ConstantsAssumption
<1>3. Cardinality(Executions(w)) = n
  <2> DEFINE f == [i \in 1..n |-> <<w, i>>]
  <2>1. ASSUME NEW i \in 1..n
        PROVE  <<w, i>> \in Executions(w)
    <3>1. i \in 1..MaxExecutions
      BY <1>2
    <3>2. <<w, i>> \in Keys /\ <<w, i>>[1] = w
      BY <3>1 DEF Keys
    <3> QED BY <1>1, <3>1, <3>2 DEF Executions
  <2>2. ASSUME NEW j \in Executions(w)
        PROVE  \E i \in 1..n : <<w, i>> = j
    <3>1. j \in Keys /\ j[1] = w /\ exec[j].status # "ABSENT"
      BY DEF Executions
    <3>2. j = <<w, j[2]>> /\ j[2] \in 1..MaxExecutions
      BY <3>1, KeyParts
    <3>3. j[2] <= n
      BY <1>1, <3>1, <3>2
    <3>4. j[2] \in 1..n
      BY <1>2, <3>2, <3>3
    <3> QED BY <3>2, <3>4
  <2>3. f \in Bijection(1..n, Executions(w))
    <3>1. f \in [1..n -> Executions(w)]
      BY <2>1
    <3>2. \A a, b \in 1..n : f[a] = f[b] => a = b
      OBVIOUS
    <3>3. \A t \in Executions(w) : \E i \in 1..n : f[i] = t
      BY <2>2
    <3> QED BY <3>1, <3>2, <3>3 DEF Bijection, Injection, Surjection, IsInjective
  <2>4. ExistsBijection(1..n, Executions(w))
    BY <2>3 DEF ExistsBijection
  <2> QED BY <1>2, <2>4, FS_CountingElements
<1>4. k = <<w, n + 1>>
  BY <1>3
<1>5. n + 1 \in 1..MaxExecutions
  BY <1>4 DEF Keys
<1>6. exec[k].status = "ABSENT"
  BY <1>1, <1>2, <1>4, <1>5
<1>7. ASSUME NEW r \in ExecutionRows, r.status # "ABSENT"
      PROVE  Numbered(w, [exec EXCEPT ![k] = r])
  <2> DEFINE x == [exec EXCEPT ![k] = r]
  <2>1. \A i \in 1..MaxExecutions : <<w, i>> \in Keys
    BY DEF Keys
  <2>2. ASSUME NEW i \in 1..MaxExecutions
        PROVE  (x[<<w, i>>].status # "ABSENT") <=> (i <= n + 1)
    <3>1. CASE i = n + 1
      <4>1. x[<<w, i>>] = r
        BY <1>4, <2>1, <3>1, Types DEF IInv
      <4> QED BY <1>2, <1>7, <3>1, <4>1
    <3>2. CASE i # n + 1
      <4>1. x[<<w, i>>] = exec[<<w, i>>]
        BY <1>4, <2>1, <3>2, Types DEF IInv
      <4>2. (i <= n) <=> (i <= n + 1)
        BY <1>2, <3>2
      <4> QED BY <1>1, <4>1, <4>2
    <3> QED BY <3>1, <3>2
  <2>3. n + 1 \in 0..MaxExecutions
    BY <1>2, <1>5
  <2> QED BY <2>2, <2>3 DEF Numbered
<1> QED BY <1>6, <1>7

-----------------------------------------------------------------------------
(* The withdrawal *)

\* The status of a withdrawal without an open execution changes.
LEMMA WithdrawalChange ==
  ASSUME IInv, NEW w \in Withdrawals, UNCHANGED exec,
         withdrawal[w] \notin Open,
         NEW s \in WithdrawalStatuses \ Open,
         withdrawal' = [withdrawal EXCEPT ![w] = s]
  PROVE  /\ withdrawal' \in [Withdrawals -> WithdrawalStatuses]
         /\ \A v \in Withdrawals :
              WithdrawalOK(v, withdrawal'[v], exec') /\ Numbered(v, exec')
<1>1. withdrawal \in [Withdrawals -> WithdrawalStatuses]
  BY DEF IInv, TypeOK
<1>2. \A v \in Withdrawals : WithdrawalOK(v, withdrawal[v], exec) /\ Numbered(v, exec)
  BY DEF IInv, WithdrawalsOK
<1>3. WithdrawalOK(w, s, exec)
  BY <1>2 DEF WithdrawalOK, Open
<1>4. \A v \in Withdrawals : withdrawal'[v] = IF v = w THEN s ELSE withdrawal[v]
  BY <1>1
<1> QED BY <1>1, <1>2, <1>3, <1>4

\* Only the withdrawal and the balance change.
LEMMA WithdrawalMoves ==
  ASSUME IInv, UNCHANGED <<exec, claim, inbox, provider, lane, boundVars>>
  PROVE  KeysMove /\ LanesMove /\ InboxMoves /\ BoundsMove
  BY KeysStill, ClaimsUnchanged, LanesStill, InboxStill, BoundsStill

LEMMA RequestStep ==
  ASSUME IInv, NEW w \in Withdrawals, RequestWithdrawal(w)
  PROVE  Moves
<1>1. KeysMove /\ LanesMove /\ InboxMoves /\ BoundsMove
  BY WithdrawalMoves DEF RequestWithdrawal
<1>2. /\ Amount[w] \in Nat /\ withdrawable \in Nat /\ lifetimePaid \in Nat
      /\ withdrawal \in [Withdrawals -> WithdrawalStatuses]
  BY ConstantsAssumption DEF IInv, TypeOK
<1>3. withdrawable' \in Nat /\ lifetimePaid' \in Nat
  BY <1>2 DEF RequestWithdrawal
<1>4. BooksMove
  BY <1>3, WithdrawalChange DEF RequestWithdrawal, BooksMove, WithdrawalStatuses, Open
<1>5. Contract!Reserve(w)
  <2>1. withdrawal'[w] = "PENDING"
        /\ \A v \in Withdrawals : v # w => withdrawal'[v] = withdrawal[v]
    BY <1>2 DEF RequestWithdrawal
  <2> DEFINE S == [v \in Withdrawals |-> ContractState(withdrawal[v])]
             S2 == [v \in Withdrawals |-> ContractState(withdrawal'[v])]
  <2>2. S[w] = "NONE" /\ S2 = [S EXCEPT ![w] = "RESERVED"]
    BY <2>1 DEF ContractState, RequestWithdrawal
  <2> QED BY <2>2 DEF Contract!Reserve, ContractState, RequestWithdrawal
<1>6. Refines
  BY <1>5 DEF Refines, Contract!Next
<1> QED BY <1>1, <1>4, <1>6 DEF Moves

LEMMA ApproveStep ==
  ASSUME IInv, NEW w \in Withdrawals, ApproveWithdrawal(w)
  PROVE  Moves
<1>1. KeysMove /\ LanesMove /\ InboxMoves /\ BoundsMove
  BY WithdrawalMoves DEF ApproveWithdrawal
<1>2. /\ withdrawable \in Nat /\ lifetimePaid \in Nat
      /\ withdrawal \in [Withdrawals -> WithdrawalStatuses]
  BY DEF IInv, TypeOK
<1>3. BooksMove
  BY <1>2, WithdrawalChange
     DEF ApproveWithdrawal, BooksMove, WithdrawalStatuses, Open, balanceVars
<1>4. \A v \in Withdrawals :
        ContractState(withdrawal'[v]) = ContractState(withdrawal[v])
  BY <1>2 DEF ApproveWithdrawal, ContractState
<1>5. Refines
  BY <1>4, ContractStill DEF ApproveWithdrawal, balanceVars, PaidKept
<1> QED BY <1>1, <1>3, <1>5 DEF Moves

\* Nothing is at the provider for an execution that never reached it.
LEMMA NeverSent ==
  ASSUME IInv, NEW k \in Keys, exec[k].stage \in Before
  PROVE  provider[k] = NoObjects
  BY DEF IInv, RowsOK, RowOK, ClaimsFit, ObjectsFit

LEMMA RejectStep ==
  ASSUME IInv, NEW w \in Withdrawals, RejectWithdrawal(w)
  PROVE  Moves
<1>1. KeysMove /\ LanesMove /\ InboxMoves /\ BoundsMove
  BY WithdrawalMoves DEF RejectWithdrawal
<1>2. /\ Amount[w] \in Nat /\ withdrawable \in Nat /\ lifetimePaid \in Nat
      /\ withdrawal \in [Withdrawals -> WithdrawalStatuses]
  BY ConstantsAssumption DEF IInv, TypeOK
<1>3. withdrawable' \in Nat /\ lifetimePaid' \in Nat
  BY <1>2 DEF RejectWithdrawal
<1>4. withdrawal[w] \in {"PENDING", "APPROVED"}
  BY DEF RejectWithdrawal, Returnable
<1>5. BooksMove
  BY <1>3, <1>4, WithdrawalChange
     DEF RejectWithdrawal, BooksMove, WithdrawalStatuses, Open
<1>6. ~Paid(w, provider)
  <2>1. SUFFICES ASSUME NEW k \in Keys, k[1] = w
                 PROVE  provider[k].payout # "PAID"
    BY DEF Paid
  <2>2. exec[k].stage \in Before
    <3>1. CASE exec[k].status = "ABSENT"
      BY <3>1 DEF IInv, RowsOK, RowOK, StatusFits, Before, PreProvider
    <3>2. CASE exec[k].status # "ABSENT"
      <4>1. k \in Executions(w)
        BY <2>1, <3>2 DEF Executions
      <4> QED BY <4>1 DEF RejectWithdrawal, Returnable, Before
    <3> QED BY <3>1, <3>2
  <2> QED BY <2>2, NeverSent DEF NoObjects
<1>7. Contract!Return(w)
  <2>1. withdrawal'[w] = "REJECTED"
        /\ \A v \in Withdrawals : v # w => withdrawal'[v] = withdrawal[v]
    BY <1>2 DEF RejectWithdrawal
  <2> DEFINE S == [v \in Withdrawals |-> ContractState(withdrawal[v])]
             S2 == [v \in Withdrawals |-> ContractState(withdrawal'[v])]
  <2>2. S[w] = "RESERVED" /\ S2 = [S EXCEPT ![w] = "RETURNED"]
    BY <1>4, <2>1 DEF ContractState
  <2> QED BY <1>6, <2>2 DEF Contract!Return, ContractState, RejectWithdrawal, Paid
<1>8. Refines
  BY <1>7 DEF Refines, Contract!Next
<1> QED BY <1>1, <1>5, <1>8 DEF Moves

-----------------------------------------------------------------------------
(* executeWithdrawal, up to the first claim *)

\* A withdrawal moves between approved and processing: it stays reserved.
LEMMA ReservedStill ==
  ASSUME IInv, NEW w \in Withdrawals, NEW s,
         withdrawal' = [withdrawal EXCEPT ![w] = s],
         {withdrawal[w], s} \subseteq {"APPROVED", "PROCESSING"},
         UNCHANGED <<balanceVars, provider>>
  PROVE  Refines
<1>1. withdrawal \in [Withdrawals -> WithdrawalStatuses]
  BY DEF IInv, TypeOK
<1>2. \A v \in Withdrawals :
        ContractState(withdrawal'[v]) = ContractState(withdrawal[v])
  BY <1>1 DEF ContractState
<1> QED BY <1>2, ContractStill DEF balanceVars, PaidKept

LEMMA ExecuteStartStep ==
  ASSUME IInv, NEW l \in OperatorLanes, NEW w \in Withdrawals, ExecuteStart(l, w)
  PROVE  Moves
<1>1. PICK k \in Keys : k = <<w, Cardinality(Executions(w)) + 1>>
  BY DEF ExecuteStart
<1>2. /\ withdrawal' = [withdrawal EXCEPT ![w] = "PROCESSING"]
      /\ exec' = [exec EXCEPT ![k].status = "PROCESSING", ![k].version = 1]
      /\ lane' = [lane EXCEPT ![l] = At("validate", k, 1)]
      /\ withdrawal[w] = "APPROVED" /\ Request
      /\ \A j \in Executions(w) : exec[j].status = "CANCELLED"
      /\ UNCHANGED <<claim, balanceVars, inbox, provider, deliveries, faults>>
  BY <1>1 DEF ExecuteStart
<1>3. /\ exec[k].status = "ABSENT"
      /\ \A r \in ExecutionRows :
           r.status # "ABSENT" => Numbered(w, [exec EXCEPT ![k] = r])
  BY <1>1, NextNumber
<1> DEFINE r == [exec[k] EXCEPT !.status = "PROCESSING", !.version = 1]
<1>4. exec[k] \in ExecutionRows /\ RowOK(exec[k], claim[k], provider[k])
  BY Types DEF IInv, RowsOK
<1>5. /\ r \in ExecutionRows /\ r.status = "PROCESSING" /\ r.version = 1
      /\ r.stage = exec[k].stage /\ r.transfer = exec[k].transfer
      /\ r.payout = exec[k].payout /\ r.provider = exec[k].provider
  BY <1>4 DEF ExecutionRows, ExecutionStatuses
<1>6. exec' = [exec EXCEPT ![k] = r]
  BY <1>2, Types DEF IInv
<1> HIDE DEF r
<1>7. exec[k].version = 0 /\ exec[k].stage = "CREATED"
  BY <1>3, <1>4 DEF RowOK, StatusFits
<1>8. RowOK(r, claim[k], provider[k])
  <2>1. ClaimsFit(r, claim[k])
    BY <1>4, <1>5 DEF RowOK, ClaimsFit
  <2>2. StatusFits(r)
    BY <1>4, <1>5, <1>7 DEF RowOK, StatusFits
  <2>3. ObjectsFit(r, claim[k], provider[k])
    BY <1>4, <1>5 DEF RowOK, ObjectsFit, Quiesced
  <2> QED BY <2>1, <2>2, <2>3 DEF RowOK
<1>9. KeyMoves(exec[k], claim[k], provider[k], r, claim[k], provider[k])
  BY <1>3, <1>5, <1>7 DEF KeyMoves, Quiesced
<1>10. KeysMove
  BY <1>2, <1>5, <1>6, <1>8, <1>9, RowChange
<1>11. k[1] = w
  BY <1>1
<1>12. \A j \in Keys : j[1] = w /\ j # k => exec[j].status \notin Open
  BY <1>2 DEF Executions, Open
<1>13. Numbered(w, exec')
  BY <1>3, <1>5, <1>6
<1>14. BooksMove
  <2>1. withdrawable' \in Nat /\ lifetimePaid' \in Nat
    BY <1>2 DEF IInv, TypeOK, balanceVars
  <2>2. "PROCESSING" \in WithdrawalStatuses
    BY DEF WithdrawalStatuses
  <2>3. withdrawal' = [withdrawal EXCEPT ![k[1]] = "PROCESSING"]
    BY <1>2, <1>11
  <2>4. /\ withdrawal' \in [Withdrawals -> WithdrawalStatuses]
        /\ \A v \in Withdrawals :
             WithdrawalOK(v, withdrawal'[v], exec') /\ Numbered(v, exec')
    BY <1>5, <1>6, <1>11, <1>12, <1>13, <2>2, <2>3, StatusChange
  <2> QED BY <2>1, <2>4 DEF BooksMove
<1>15. Refines
  BY <1>2, ReservedStill
<1>16. CallsKept
  BY <1>2, ClaimsUnchanged
<1>17. LanesMove
  <2> DEFINE n == At("validate", k, 1)
  <2>1. n \in LaneRecords /\ n.job = k /\ n.pc = "validate" /\ n.result = "NONE"
        /\ n.mode = "send"
    BY DEF At, LaneRecords, Results
  <2>2. RequestOK(n, exec'[k], claim'[k], provider'[k])
    BY <2>1 DEF RequestOK, Payouts
  <2> QED BY <1>2, <1>10, <1>16, <2>1, <2>2, RequestGoes
<1> QED BY <1>2, <1>10, <1>14, <1>15, <1>17, InboxStill, RequestSpent DEF Moves

\* A row given another stage.
LEMMA StagedRow ==
  ASSUME IInv, NEW k \in Keys, NEW s \in Stages
  PROVE  /\ Staged(k, s) \in ExecutionRows
         /\ Staged(k, s).stage = s /\ Staged(k, s).status = exec[k].status
         /\ Staged(k, s).transfer = exec[k].transfer
         /\ Staged(k, s).payout = exec[k].payout
         /\ Staged(k, s).provider = exec[k].provider
         /\ Staged(k, s).version = exec[k].version
<1>1. exec[k] \in ExecutionRows
  BY Types DEF IInv
<1> QED BY <1>1 DEF Staged, ExecutionRows

\* What the invariant says of one execution.
LEMMA RowFacts ==
  ASSUME IInv, NEW k \in Keys
  PROVE  /\ exec[k] \in ExecutionRows /\ claim[k] \in ClaimRows
         /\ provider[k] \in ProviderRows
         /\ RowOK(exec[k], claim[k], provider[k])
  BY Types DEF IInv, RowsOK

LEMMA ExecuteValidateStep ==
  ASSUME IInv, NEW l \in OperatorLanes, ExecuteValidate(l)
  PROVE  Moves
<1>1. PICK k \in Keys : k = lane[l].job
  BY AtWork DEF ExecuteValidate
<1>2. lane[l].pc # "idle"
      /\ UNCHANGED <<withdrawal, claim, balanceVars, inbox, provider, boundVars>>
  BY DEF ExecuteValidate
<1>3. CASE Holds(l, {"CREATED"})
           /\ Stored(Job(l), Staged(Job(l), "DESTINATION_VALIDATED"))
           /\ Goto(l, "claimSend")
  <2>1. exec[k].status = "PROCESSING" /\ exec[k].stage = "CREATED"
        /\ Stored(k, Staged(k, "DESTINATION_VALIDATED"))
    BY <1>1, <1>3 DEF Holds, Row, Job
  <2> DEFINE new == Staged(k, "DESTINATION_VALIDATED")
  <2>2. /\ new \in ExecutionRows /\ new.stage = "DESTINATION_VALIDATED"
        /\ new.status = exec[k].status /\ new.transfer = exec[k].transfer
        /\ new.payout = exec[k].payout /\ new.provider = exec[k].provider
    BY StagedRow DEF Stages, PreProvider
  <2>3. Stored(k, new)
    BY <2>1
  <2> HIDE DEF new
  <2>4. Accepts(exec[k], new)
    BY <2>1, <2>2 DEF Accepts, StageSteps
  <2>5. Suits(exec[k], new, claim[k], provider[k])
    BY <2>1, <2>2, RowFacts
       DEF Suits, RowOK, ClaimsFit, StatusFits, ObjectsFit, StripeStages, BankStages,
           BankClaimed, Before, PreProvider
  <2>6. KeysMove /\ CallsKept /\ BooksMove /\ Refines
    BY <1>2, <2>1, <2>2, <2>3, <2>4, <2>5, StoreMoves
  <2>7. LanesMove
    BY <1>2, <1>3, <2>6, GoesPlain DEF ExecuteValidate
  <2> QED BY <1>2, <2>6, <2>7, InboxStill, BoundsStill DEF Moves
<1>4. CASE UNCHANGED exec /\ Goto(l, "abort")
  <2>1. KeysMove /\ CallsKept /\ BooksMove /\ Refines
    BY <1>2, <1>4, NoRowMoves
  <2>2. LanesMove
    BY <1>2, <1>4, <2>1, GoesPlain
  <2> QED BY <1>2, <2>1, <2>2, InboxStill, BoundsStill DEF Moves
<1> QED BY <1>3, <1>4 DEF ExecuteValidate

\* A call is claimed: the row and its claims change together.
LEMMA ClaimMoves ==
  ASSUME IInv, NEW k \in Keys, NEW r \in ExecutionRows, NEW c \in ClaimRows,
         exec' = [exec EXCEPT ![k] = r], claim' = [claim EXCEPT ![k] = c],
         r.status = exec[k].status,
         c.send \in {claim[k].send, "young"}, c.bank \in {claim[k].bank, "young"},
         UNCHANGED <<withdrawal, balanceVars, provider>>,
         RowOK(r, c, provider[k]),
         KeyMoves(exec[k], claim[k], provider[k], r, c, provider[k])
  PROVE  KeysMove /\ CallsKept /\ BooksMove /\ Refines
<1>1. provider[k] \in ProviderRows /\ provider' = [provider EXCEPT ![k] = provider[k]]
  BY Types DEF IInv
<1>2. KeysMove
  BY <1>1, KeyChange
<1>3. \A j \in Keys : exec'[j].status = exec[j].status
  BY Types DEF IInv
<1>4. PaidKept
  BY DEF PaidKept
<1>5. CallsKept
  BY Types DEF CallsKept, IInv
<1> QED BY <1>2, <1>3, <1>4, <1>5, BooksStill

\* The lane that made the claim holds the version it wrote.
LEMMA ClaimedLane ==
  ASSUME IInv, KeysMove, CallsKept, NEW l \in OperatorLanes, lane[l].pc # "idle",
         NEW k \in Keys, k = lane[l].job, NEW pc \in Steps, NEW v \in Nat,
         NEW n, n = [lane[l] EXCEPT !.pc = pc, !.version = v],
         lane' = [lane EXCEPT ![l].pc = pc, ![l].version = v],
         RequestOK(n, exec'[k], claim'[k], provider'[k])
  PROVE  LanesMove
<1>1. l \in Lanes /\ lane[l] \in LaneRecords
  BY AtWork
<1>2. n \in LaneRecords /\ n.job = k
  BY <1>1 DEF LaneRecords, Steps
<1>3. lane' = [lane EXCEPT ![l] = n]
  BY <1>1, Types DEF IInv
<1> QED BY <1>2, <1>3, RequestGoes

LEMMA ClaimSendStep ==
  ASSUME IInv, NEW l \in OperatorLanes, ClaimSend(l)
  PROVE  Moves
<1>1. PICK k \in Keys : k = lane[l].job
  BY AtWork DEF ClaimSend
<1>2. lane[l].pc = "claimSend"
      /\ UNCHANGED <<withdrawal, balanceVars, inbox, provider, boundVars>>
  BY DEF ClaimSend
<1>3. CASE /\ ClaimCall(l, "DESTINATION_VALIDATED", "PROVIDER_SEND_CLAIMED",
                        "callTransfer")
           /\ claim' = [claim EXCEPT ![Job(l)].send = "young"]
  <2>1. /\ exec[k].status = "PROCESSING" /\ exec[k].stage = "DESTINATION_VALIDATED"
        /\ Stored(k, Staged(k, "PROVIDER_SEND_CLAIMED"))
        /\ lane' = [lane EXCEPT ![l].pc = "callTransfer",
                                ![l].version = exec[k].version + 1]
        /\ claim' = [claim EXCEPT ![k].send = "young"]
    BY <1>1, <1>3 DEF ClaimCall, Row, Job
  <2>2. /\ exec[k] \in ExecutionRows /\ claim[k] \in ClaimRows
        /\ provider[k] \in ProviderRows
        /\ RowOK(exec[k], claim[k], provider[k])
        /\ exec[k].version + 1 \in Nat
    BY RowFacts DEF ExecutionRows
  <2> DEFINE r == [exec[k] EXCEPT !.stage = "PROVIDER_SEND_CLAIMED",
                                  !.version = exec[k].version + 1]
             c == [claim[k] EXCEPT !.send = "young"]
  <2>3. /\ r \in ExecutionRows /\ r.stage = "PROVIDER_SEND_CLAIMED"
        /\ r.status = exec[k].status /\ r.transfer = exec[k].transfer
        /\ r.payout = exec[k].payout /\ r.provider = exec[k].provider
        /\ r.version = exec[k].version + 1
    BY <2>2 DEF ExecutionRows, Stages
  <2>4. c \in ClaimRows /\ c.send = "young" /\ c.bank = claim[k].bank
    BY <2>2 DEF ClaimRows, Ages
  <2>5. exec' = [exec EXCEPT ![k] = r] /\ claim' = [claim EXCEPT ![k] = c]
    BY <2>1, <2>2, Types DEF Stored, Staged, IInv, ExecutionRows
  <2> HIDE DEF r, c
  <2>6. /\ exec[k].stage \in Before /\ claim[k].send = "none"
        /\ claim[k].bank = "none" /\ provider[k] = NoObjects
        /\ ~exec[k].transfer /\ ~exec[k].payout
    BY <2>1, <2>2 DEF RowOK, ClaimsFit, ObjectsFit, Before, PreProvider
  <2>7. RowOK(r, c, provider[k])
    <3>1. ClaimsFit(r, c)
      BY <2>3, <2>4, <2>6
         DEF ClaimsFit, Before, PreProvider, BankStages, BankClaimed
    <3>2. StatusFits(r)
      BY <2>1, <2>3, <2>6 DEF StatusFits, StripeStages, BankStages, BankClaimed
    <3>3. ObjectsFit(r, c, provider[k])
      BY <2>1, <2>3, <2>4, <2>6 DEF ObjectsFit, NoObjects
    <3> QED BY <3>1, <3>2, <3>3 DEF RowOK
  <2>8. KeyMoves(exec[k], claim[k], provider[k], r, c, provider[k])
    <3>1. Accepts(exec[k], r)
      BY <2>1, <2>3, <2>6 DEF Accepts, StageSteps
    <3>2. exec[k].stage \notin Late
      BY <2>1 DEF Late
    <3>3. r.version > exec[k].version
      BY <2>2, <2>3 DEF ExecutionRows
    <3> QED BY <2>3, <2>6, <3>1, <3>2, <3>3 DEF KeyMoves, Quiesced
  <2>9. KeysMove /\ CallsKept /\ BooksMove /\ Refines
    BY <1>2, <2>3, <2>4, <2>5, <2>7, <2>8, ClaimMoves
  <2>10. LanesMove
    <3> DEFINE n == [lane[l] EXCEPT !.pc = "callTransfer",
                                    !.version = exec[k].version + 1]
    <3>1. RequestOK(lane[l], exec[k], claim[k], provider[k])
          /\ lane[l] \in LaneRecords
      BY <1>1, <1>2, AtWork
    <3>2. n.pc = "callTransfer" /\ n.result = "NONE" /\ n.mode = "send"
      BY <1>2, <3>1 DEF LaneRecords, RequestOK
    <3>3. claim'[k].send = "young"
      BY <2>4, <2>5, Types DEF IInv
    <3>4. RequestOK(n, exec'[k], claim'[k], provider'[k])
      BY <3>2, <3>3 DEF RequestOK, Payouts
    <3>5. "callTransfer" \in Steps
      BY DEF Steps
    <3> QED BY <1>1, <1>2, <2>1, <2>2, <2>9, <3>4, <3>5, ClaimedLane
  <2> QED BY <1>2, <2>9, <2>10, InboxStill, BoundsStill DEF Moves
<1>4. CASE Goto(l, "abort") /\ UNCHANGED <<exec, claim>>
  <2>1. KeysMove /\ CallsKept /\ BooksMove /\ Refines
    BY <1>2, <1>4, NoRowMoves
  <2>2. LanesMove
    BY <1>2, <1>4, <2>1, GoesPlain
  <2> QED BY <1>2, <2>1, <2>2, InboxStill, BoundsStill DEF Moves
<1> QED BY <1>3, <1>4 DEF ClaimSend

\* An execution is closed and its withdrawal is approved again.
LEMMA ApprovedAgain ==
  ASSUME IInv, NEW k \in Keys, NEW r \in ExecutionRows,
         exec[k].status = "PROCESSING", withdrawal[k[1]] = "PROCESSING",
         r.status = "CANCELLED", exec' = [exec EXCEPT ![k] = r],
         withdrawal' = [withdrawal EXCEPT ![k[1]] = "APPROVED"],
         UNCHANGED <<balanceVars, provider>>
  PROVE  BooksMove /\ Refines
<1>1. withdrawable' \in Nat /\ lifetimePaid' \in Nat
  BY DEF IInv, TypeOK, balanceVars
<1>2. "APPROVED" \in WithdrawalStatuses
  BY DEF WithdrawalStatuses
<1>3. \A j \in Keys : j[1] = k[1] /\ j # k => exec[j].status \notin Open
  BY OnlyOpen DEF Open
<1>4. Numbered(k[1], exec')
  BY NumberKept
<1>5. r.status \notin Open
  BY DEF Open
<1>6. /\ withdrawal' \in [Withdrawals -> WithdrawalStatuses]
      /\ \A v \in Withdrawals :
           WithdrawalOK(v, withdrawal'[v], exec') /\ Numbered(v, exec')
  BY <1>2, <1>3, <1>4, <1>5, StatusChange
<1>7. Refines
  BY KeyParts, ReservedStill
<1> QED BY <1>1, <1>6, <1>7 DEF BooksMove

\* An execution that never reached the provider is closed and its withdrawal
\* is approved again.
LEMMA AbortMoves ==
  ASSUME IInv, NEW k \in Keys, AbortPreProvider(k),
         UNCHANGED <<claim, balanceVars, provider>>
  PROVE  KeysMove /\ CallsKept /\ BooksMove /\ Refines
<1>1. /\ exec[k].status = "PROCESSING" /\ withdrawal[k[1]] = "PROCESSING"
      /\ exec[k].stage \in PreProvider /\ claim[k] = NoClaims
      /\ ~exec[k].transfer /\ ~exec[k].payout
      /\ withdrawal' = [withdrawal EXCEPT ![k[1]] = "APPROVED"]
  BY DEF AbortPreProvider, Abortable
<1>2. /\ exec[k] \in ExecutionRows /\ RowOK(exec[k], claim[k], provider[k])
      /\ exec[k].version + 1 \in Nat
  BY RowFacts DEF ExecutionRows
<1> DEFINE r == [exec[k] EXCEPT !.status = "CANCELLED",
                                !.stage = "PRE_PROVIDER_ABORTED",
                                !.version = exec[k].version + 1]
<1>3. /\ r \in ExecutionRows /\ r.stage = "PRE_PROVIDER_ABORTED"
      /\ r.status = "CANCELLED" /\ r.transfer = exec[k].transfer
      /\ r.payout = exec[k].payout /\ r.provider = exec[k].provider
      /\ r.version = exec[k].version + 1
  BY <1>2 DEF ExecutionRows, Stages, ExecutionStatuses
<1>4. exec' = [exec EXCEPT ![k] = r]
  BY <1>2, Types DEF AbortPreProvider, Stored, IInv, ExecutionRows
<1> HIDE DEF r
<1>5. RowOK(r, claim[k], provider[k])
  <2>1. claim[k].send = "none" /\ claim[k].bank = "none"
    BY <1>1 DEF NoClaims
  <2>2. provider[k] = NoObjects
    BY <1>2, <2>1 DEF RowOK, ObjectsFit
  <2>3. ClaimsFit(r, claim[k])
    BY <1>1, <1>3, <2>1 DEF ClaimsFit, Before, BankStages, BankClaimed
  <2>4. StatusFits(r)
    BY <1>1, <1>3 DEF StatusFits, StripeStages, BankStages, BankClaimed
  <2>5. ObjectsFit(r, claim[k], provider[k])
    BY <1>1, <1>3, <2>2 DEF ObjectsFit, NoObjects
  <2> QED BY <2>3, <2>4, <2>5 DEF RowOK
<1>6. KeyMoves(exec[k], claim[k], provider[k], r, claim[k], provider[k])
  <2>1. Accepts(exec[k], r)
    BY <1>1, <1>3 DEF Accepts, StageSteps, PreProvider
  <2>2. exec[k].stage \notin Late
    BY <1>1 DEF Late, PreProvider
  <2>3. r.version > exec[k].version
    BY <1>2, <1>3 DEF ExecutionRows
  <2> QED BY <1>3, <2>1, <2>2, <2>3 DEF KeyMoves, Quiesced
<1>7. KeysMove
  BY <1>3, <1>4, <1>5, <1>6, RowChange
<1>8. CallsKept
  BY ClaimsUnchanged
<1>9. BooksMove /\ Refines
  BY <1>1, <1>3, <1>4, ApprovedAgain
<1> QED BY <1>7, <1>8, <1>9

LEMMA ExecuteAbortStep ==
  ASSUME IInv, NEW l \in OperatorLanes, ExecuteAbort(l)
  PROVE  Moves
<1>1. PICK k \in Keys : k = lane[l].job
  BY AtWork DEF ExecuteAbort
<1>2. l \in Lanes /\ Rest(l)
      /\ UNCHANGED <<claim, balanceVars, inbox, provider, boundVars>>
  BY DEF ExecuteAbort, Lanes
<1>3. KeysMove /\ CallsKept /\ BooksMove /\ Refines
  <2>1. CASE AbortPreProvider(k)
    BY <1>2, <2>1, AbortMoves
  <2>2. CASE UNCHANGED <<exec, withdrawal>>
    BY <1>2, <2>2, NoRowMoves
  <2> QED BY <1>1, <2>1, <2>2 DEF ExecuteAbort, Job
<1> QED BY <1>2, <1>3, LaneRests, InboxStill, BoundsStill DEF Moves

LEMMA CancelPreProviderStep ==
  ASSUME IInv, NEW l \in OperatorLanes, NEW k \in Keys, CancelPreProvider(l, k)
  PROVE  Moves
<1>1. AbortPreProvider(k) /\ Request
      /\ UNCHANGED <<claim, balanceVars, inbox, provider, lane, deliveries, faults>>
  BY DEF CancelPreProvider
<1>2. KeysMove /\ CallsKept /\ BooksMove /\ Refines
  BY <1>1, AbortMoves
<1> QED BY <1>1, <1>2, LanesStill, InboxStill, RequestSpent DEF Moves

-----------------------------------------------------------------------------
(* The calls to the provider and their records *)

\* A step of the provider on one execution that pays nothing.
LEMMA ObjectMoves ==
  ASSUME IInv, NEW k \in Keys, NEW p \in ProviderRows,
         provider' = [provider EXCEPT ![k] = p],
         (p.payout = "PAID") <=> (provider[k].payout = "PAID"),
         UNCHANGED <<withdrawal, exec, claim, balanceVars>>,
         RowOK(exec[k], claim[k], p),
         KeyMoves(exec[k], claim[k], provider[k], exec[k], claim[k], p)
  PROVE  KeysMove /\ CallsKept /\ BooksMove /\ Refines
<1>1. KeysMove
  BY ObjectChange
<1>2. PaidKept
  BY Types DEF PaidKept, IInv
<1> QED BY <1>1, <1>2, BooksStill, ClaimsUnchanged

LEMMA TransferMoves ==
  ASSUME IInv, NEW k \in Keys, claim[k].send \in {"young", "late"},
         provider' \in {provider, TransferMade(k)},
         UNCHANGED <<withdrawal, exec, claim, balanceVars>>
  PROVE  KeysMove /\ CallsKept /\ BooksMove /\ Refines
<1>1. CASE provider' = provider
  BY <1>1, NoRowMoves
<1>2. CASE provider' # provider
  <2>1. provider[k].transfers = 0 /\ provider' = TransferMade(k)
    BY <1>2 DEF TransferMade
  <2>2. /\ exec[k] \in ExecutionRows /\ claim[k] \in ClaimRows
        /\ provider[k] \in ProviderRows
        /\ ClaimsFit(exec[k], claim[k]) /\ StatusFits(exec[k])
        /\ ObjectsFit(exec[k], claim[k], provider[k])
    BY RowFacts DEF RowOK
  <2>3. CASE Stripe(k)
    <3> DEFINE p == [provider[k] EXCEPT !.transfers = 1]
    <3>1. /\ p \in ProviderRows /\ p.transfers = 1 /\ p.payouts = provider[k].payouts
          /\ p.payout = provider[k].payout /\ p.answer = provider[k].answer
          /\ p.reversed = provider[k].reversed
      BY <2>2 DEF ProviderRows
    <3>2. provider' = [provider EXCEPT ![k] = p]
      BY <2>1, <2>3, Types DEF TransferMade, IInv
    <3> HIDE DEF p
    <3>3. ObjectsFit(exec[k], claim[k], p)
      BY <2>2, <2>3, <3>1 DEF ObjectsFit, Quiesced, Stripe
    <3>4. KeyMoves(exec[k], claim[k], provider[k], exec[k], claim[k], p)
      BY <3>1 DEF KeyMoves, Quiesced
    <3> QED BY <2>2, <3>1, <3>2, <3>3, <3>4, ObjectMoves DEF RowOK
  <2>4. CASE ~Stripe(k)
    <3> DEFINE p == [provider[k] EXCEPT !.transfers = 1, !.payouts = 1,
                                        !.payout = "PENDING"]
    <3>1. /\ p \in ProviderRows /\ p.transfers = 1 /\ p.payouts = 1
          /\ p.payout = "PENDING" /\ p.answer = provider[k].answer
          /\ p.reversed = provider[k].reversed
      BY <2>2 DEF ProviderRows
    <3>2. provider[k].payouts = 0 /\ provider[k].payout = "NONE"
      BY <2>1, <2>2, <2>4 DEF ObjectsFit, Stripe
    <3>3. provider' = [provider EXCEPT ![k] = p]
      <4>1. provider' = [provider EXCEPT ![k].transfers = @ + 1,
                           ![k].payouts = @ + 1, ![k].payout = "PENDING"]
        BY <2>1, <2>4 DEF TransferMade
      <4>2. provider' = [provider EXCEPT ![k] =
                           [provider[k] EXCEPT !.transfers = provider[k].transfers + 1,
                                               !.payouts = provider[k].payouts + 1,
                                               !.payout = "PENDING"]]
        BY <4>1, Types, Zenon DEF IInv
      <4> QED BY <2>1, <3>2, <4>2
    <3> HIDE DEF p
    <3>4. ObjectsFit(exec[k], claim[k], p)
      BY <2>2, <2>4, <3>1, <3>2 DEF ObjectsFit, Quiesced, Stripe, StatusFits
    <3>5. KeyMoves(exec[k], claim[k], provider[k], exec[k], claim[k], p)
      BY <2>4, <3>1, <3>2 DEF KeyMoves, Quiesced, Stripe
    <3> QED BY <2>2, <3>1, <3>2, <3>3, <3>4, <3>5, ObjectMoves DEF RowOK
  <2> QED BY <2>3, <2>4
<1> QED BY <1>1, <1>2

LEMMA CallTransferStep ==
  ASSUME IInv, NEW l \in OperatorLanes, CallTransfer(l)
  PROVE  Moves
<1>1. PICK k \in Keys : k = lane[l].job
  BY AtWork DEF CallTransfer
<1>2. /\ lane[l].pc = "callTransfer" /\ provider' = TransferMade(k)
      /\ lane' = [lane EXCEPT ![l].pc = "recordTransfer",
                              ![l].result = IF Stripe(k) THEN "TRANSFER" ELSE "SENT"]
      /\ UNCHANGED <<withdrawal, exec, claim, balanceVars, inbox, boundVars>>
  BY <1>1 DEF CallTransfer, Job
<1>3. /\ RequestOK(lane[l], exec[k], claim[k], provider[k])
      /\ lane[l] \in LaneRecords /\ l \in Lanes
  BY <1>1, <1>2, AtWork
<1>4. claim[k].send \in {"young", "late"}
  BY <1>2, <1>3 DEF RequestOK
<1>5. KeysMove /\ CallsKept /\ BooksMove /\ Refines
  BY <1>2, <1>4, TransferMoves
<1>6. LanesMove
  <2> DEFINE n == [lane[l] EXCEPT !.pc = "recordTransfer",
                                  !.result = IF Stripe(k) THEN "TRANSFER" ELSE "SENT"]
  <2>1. /\ n \in LaneRecords /\ n.pc = "recordTransfer" /\ n.mode = lane[l].mode
        /\ n.job = k /\ n.version = lane[l].version
        /\ n.result = IF Stripe(k) THEN "TRANSFER" ELSE "SENT"
    BY <1>1, <1>3 DEF LaneRecords, Results
  <2>2. lane' = [lane EXCEPT ![l] = n]
    BY <1>2, <1>3, Types DEF IInv
  <2> HIDE DEF n
  <2>3. RequestOK(lane[l], exec'[k], claim'[k], provider'[k])
    BY <1>1, <1>2, <1>5, StillAtWork
  <2>4. exec'[k] = exec[k]
    BY <1>2
  <2>5. n.mode = "recover" => Fenced(n, exec'[k])
    BY <1>2, <2>1, <2>3 DEF RequestOK, Fenced
  <2>6. RequestOK(n, exec'[k], claim'[k], provider'[k])
    BY <2>1, <2>4, <2>5 DEF RequestOK, Payouts, Stripe
  <2> QED BY <1>5, <2>1, <2>2, <2>6, RequestGoes
<1> QED BY <1>2, <1>5, <1>6, InboxStill, BoundsStill DEF Moves

LEMMA CallTransferFailsStep ==
  ASSUME IInv, NEW l \in OperatorLanes, CallTransferFails(l)
  PROVE  Moves
<1>1. PICK k \in Keys : k = lane[l].job
  BY AtWork DEF CallTransferFails
<1>2. /\ lane[l].pc = "callTransfer" /\ provider' \in {provider, TransferMade(k)}
      /\ Goto(l, "caught") /\ Fault
      /\ UNCHANGED <<withdrawal, exec, claim, balanceVars, inbox, requests,
                     deliveries>>
  BY <1>1 DEF CallTransferFails, Job
<1>3. claim[k].send \in {"young", "late"}
  BY <1>1, <1>2, AtWork DEF RequestOK
<1>4. KeysMove /\ CallsKept /\ BooksMove /\ Refines
  BY <1>2, <1>3, TransferMoves
<1>5. LanesMove
  BY <1>2, <1>4, GoesCaught
<1> QED BY <1>2, <1>4, <1>5, InboxStill, FaultSpent DEF Moves

LEMMA CallUntrustedStep ==
  ASSUME IInv, NEW l \in OperatorLanes, CallUntrusted(l)
  PROVE  Moves
<1>1. PICK k \in Keys : k = lane[l].job
  BY AtWork DEF CallUntrusted
<1>2. /\ Rest(l) /\ Fault /\ l \in Lanes
      /\ UNCHANGED <<withdrawal, claim, balanceVars, inbox, provider, requests,
                     deliveries>>
  BY DEF CallUntrusted, Lanes
<1>3. KeysMove /\ CallsKept /\ BooksMove /\ Refines
  <2>1. CASE Stored(k, exec[k]) /\ exec[k].status = "PROCESSING"
    BY <1>2, <2>1, TouchMoves
  <2>2. CASE UNCHANGED exec
    BY <1>2, <2>2, NoRowMoves
  <2> QED BY <1>1, <2>1, <2>2 DEF CallUntrusted, Holds, Row, Job
<1> QED BY <1>2, <1>3, LaneRests, InboxStill, FaultSpent DEF Moves

LEMMA RecordFailsStep ==
  ASSUME IInv, NEW l \in OperatorLanes, RecordFails(l)
  PROVE  Moves
<1>1. /\ lane[l].pc \in {"recordTransfer", "recordBank"} /\ Goto(l, "caught") /\ Fault
      /\ UNCHANGED <<withdrawal, exec, claim, balanceVars, inbox, provider,
                     requests, deliveries>>
  BY DEF RecordFails
<1>2. KeysMove /\ CallsKept /\ BooksMove /\ Refines
  BY <1>1, NoRowMoves
<1>3. LanesMove
  BY <1>1, <1>2, GoesCaught
<1> QED BY <1>1, <1>2, <1>3, InboxStill, FaultSpent DEF Moves

LEMMA RecordTransferStep ==
  ASSUME IInv, NEW l \in OperatorLanes, RecordTransfer(l)
  PROVE  Moves
<1>1. PICK k \in Keys : k = lane[l].job
  BY AtWork DEF RecordTransfer
<1>2. /\ lane[l].pc = "recordTransfer"
      /\ UNCHANGED <<withdrawal, claim, balanceVars, inbox, provider, boundVars>>
  BY DEF RecordTransfer
<1>3. /\ RequestOK(lane[l], exec[k], claim[k], provider[k])
      /\ lane[l] \in LaneRecords /\ l \in Lanes
  BY <1>1, <1>2, AtWork
<1>4. CASE Holds(l, {"PROVIDER_SEND_CLAIMED"})
  <2>1. /\ exec[k].status = "PROCESSING" /\ exec[k].stage = "PROVIDER_SEND_CLAIMED"
        /\ Stored(k, [exec[k] EXCEPT !.stage = TransferStage(l), !.transfer = TRUE])
        /\ lane' = [lane EXCEPT ![l] =
             CASE ~Stripe(k) -> Idle
               [] Stripe(k) /\ lane[l].mode = "recover" -> Recovering("resume", k)
               [] OTHER -> [lane[l] EXCEPT !.pc = "claimBank"]]
    BY <1>1, <1>4 DEF RecordTransfer, Holds, Row, Job
  <2>2. /\ lane[l].mode \in {"send", "recover"}
        /\ lane[l].mode = "recover" => exec[k].provider = "stripe"
        /\ exec[k].provider = "stripe" => lane[l].result = "TRANSFER"
    BY <1>2, <1>3 DEF RequestOK, Fenced, LaneRecords
  <2> DEFINE s == TransferStage(l)
             new == [exec[k] EXCEPT !.stage = s, !.transfer = TRUE]
  <2>3. /\ s \in {"TRANSFER_RECOVERY_REQUIRED", "TRANSFER_CREATED", "PROVIDER_SENT"}
        /\ (exec[k].provider = "stripe") <=> (s # "PROVIDER_SENT")
    BY <1>1, <2>2 DEF TransferStage, Stripe, Job
  <2>4. s \in Stages
    BY <2>3 DEF Stages, Cancellable
  <2> HIDE DEF s
  <2>5. /\ exec[k] \in ExecutionRows /\ RowOK(exec[k], claim[k], provider[k])
        /\ exec[k].version + 1 \in Nat
    BY RowFacts DEF ExecutionRows
  <2>6. /\ new \in ExecutionRows /\ new.stage = s /\ new.transfer = TRUE
        /\ new.status = exec[k].status /\ new.payout = exec[k].payout
        /\ new.provider = exec[k].provider
    BY <2>4, <2>5 DEF ExecutionRows
  <2>7. Stored(k, new)
    BY <2>1 DEF s
  <2> HIDE DEF new
  <2>8. Accepts(exec[k], new)
    <3>1. <<"PROVIDER_SEND_CLAIMED", s>> \in StageSteps
      BY <2>3 DEF StageSteps
    <3> QED BY <2>1, <2>3, <2>6, <3>1 DEF Accepts, AttachesTransfer
  <2>9. Suits(exec[k], new, claim[k], provider[k])
    <3>1. exec[k].stage \notin BankStages
      BY <2>1 DEF BankStages, BankClaimed
    <3>2. new.stage \in StripeStages => exec[k].provider = "stripe"
      BY <2>3, <2>6 DEF StripeStages, BankStages, BankClaimed
    <3>3. new.stage \notin BankClaimed
      BY <2>3, <2>6 DEF BankClaimed
    <3> QED BY <2>3, <2>5, <2>6, <3>1, <3>2, <3>3
            DEF Suits, RowOK, ClaimsFit, StatusFits, ObjectsFit
  <2>10. /\ KeysMove /\ CallsKept /\ BooksMove /\ Refines
         /\ exec'[k].version = exec[k].version + 1
         /\ exec'[k].provider = exec[k].provider
    BY <1>2, <2>1, <2>6, <2>7, <2>8, <2>9, StoreMoves
  <2>11. LanesMove
    <3>1. CASE ~Stripe(k)
      <4>1. Rest(l)
        BY <2>1, <3>1 DEF Rest
      <4> QED BY <1>3, <2>10, <4>1, LaneRests
    <3>2. CASE Stripe(k) /\ lane[l].mode = "recover"
      <4> DEFINE n == Recovering("resume", k)
      <4>1. lane' = [lane EXCEPT ![l] = n]
        BY <2>1, <3>2
      <4>2. /\ n \in LaneRecords /\ n.job = k /\ n.pc = "resume"
            /\ n.result = "NONE" /\ n.mode = "recover"
        BY <2>5 DEF Recovering, At, LaneRecords, Results
      <4>3. RequestOK(n, exec'[k], claim'[k], provider'[k])
        BY <2>10, <3>2, <4>2 DEF RequestOK, Payouts, Stripe
      <4> QED BY <2>10, <4>1, <4>2, <4>3, RequestGoes
    <3>3. CASE Stripe(k) /\ lane[l].mode # "recover"
      <4> DEFINE n == [lane[l] EXCEPT !.pc = "claimBank"]
      <4>1. lane' = [lane EXCEPT ![l] = n]
        BY <2>1, <3>3
      <4>2. /\ n \in LaneRecords /\ n.job = k /\ n.pc = "claimBank"
            /\ n.result = "TRANSFER" /\ n.mode = "send"
        BY <1>1, <1>3, <2>2, <3>3 DEF LaneRecords, Stripe
      <4>3. RequestOK(n, exec'[k], claim'[k], provider'[k])
        BY <2>10, <3>3, <4>2 DEF RequestOK, Payouts, Stripe
      <4> QED BY <2>10, <4>1, <4>2, <4>3, RequestGoes
    <3> QED BY <3>1, <3>2, <3>3
  <2> QED BY <1>2, <2>10, <2>11, InboxStill, BoundsStill DEF Moves
<1>5. CASE ~Holds(l, {"PROVIDER_SEND_CLAIMED"})
  <2>1. Goto(l, "caught") /\ UNCHANGED exec
    BY <1>5 DEF RecordTransfer
  <2>2. KeysMove /\ CallsKept /\ BooksMove /\ Refines
    BY <1>2, <2>1, NoRowMoves
  <2>3. LanesMove
    BY <1>2, <2>1, <2>2, GoesCaught
  <2> QED BY <1>2, <2>2, <2>3, InboxStill, BoundsStill DEF Moves
<1> QED BY <1>4, <1>5

\* The bank payout of a transfer is claimed.
LEMMA BankClaimMoves ==
  ASSUME IInv, NEW k \in Keys, NEW s \in BankClaimed,
         exec[k].status = "PROCESSING", exec[k].transfer, ~exec[k].payout,
         exec[k].stage \in {"TRANSFER_CREATED", "TRANSFER_RECOVERY_REQUIRED"},
         <<exec[k].stage, s>> \in StageSteps,
         Stored(k, Staged(k, s)),
         claim' = [claim EXCEPT ![k].bank = "young"],
         UNCHANGED <<withdrawal, balanceVars, provider>>
  PROVE  /\ KeysMove /\ CallsKept /\ BooksMove /\ Refines
         /\ exec'[k].version = exec[k].version + 1 /\ exec'[k].stage = s
         /\ exec'[k].provider = "stripe" /\ claim'[k].bank = "young"
<1>1. /\ exec[k] \in ExecutionRows /\ claim[k] \in ClaimRows
      /\ provider[k] \in ProviderRows
      /\ RowOK(exec[k], claim[k], provider[k])
      /\ exec[k].version + 1 \in Nat
  BY RowFacts DEF ExecutionRows
<1> DEFINE r == [exec[k] EXCEPT !.stage = s, !.version = exec[k].version + 1]
           c == [claim[k] EXCEPT !.bank = "young"]
<1>2. s \in Stages
  BY DEF Stages
<1>3. /\ r \in ExecutionRows /\ r.stage = s
      /\ r.status = exec[k].status /\ r.transfer = exec[k].transfer
      /\ r.payout = exec[k].payout /\ r.provider = exec[k].provider
      /\ r.version = exec[k].version + 1
  BY <1>1, <1>2 DEF ExecutionRows
<1>4. c \in ClaimRows /\ c.bank = "young" /\ c.send = claim[k].send
  BY <1>1 DEF ClaimRows, Ages
<1>5. exec' = [exec EXCEPT ![k] = r] /\ claim' = [claim EXCEPT ![k] = c]
  BY <1>1, Types DEF Stored, Staged, IInv, ExecutionRows
<1> HIDE DEF r, c
<1>6. /\ exec[k].stage \notin Late /\ exec[k].stage \notin Before
      /\ exec[k].provider = "stripe" /\ ~provider[k].reversed
  <2>1. exec[k].stage \notin Late /\ exec[k].stage \notin Before
        /\ exec[k].stage \in StripeStages
    BY DEF Late, Before, PreProvider, StripeStages
  <2> QED BY <1>1, <2>1 DEF RowOK, StatusFits, ObjectsFit, Quiesced
<1>7. RowOK(r, c, provider[k])
  <2>1. s \notin Before /\ s \in BankStages
        /\ s \notin {"PRE_PROVIDER_ABORTED", "CANCELLED_REVERSED"}
    BY DEF BankClaimed, Before, PreProvider, BankStages
  <2>2. ClaimsFit(r, c)
    BY <1>1, <1>3, <1>4, <1>6, <2>1 DEF ClaimsFit, RowOK
  <2>3. StatusFits(r)
    BY <1>3, <1>6, <2>1 DEF StatusFits
  <2>4. ObjectsFit(r, c, provider[k])
    <3>1. ObjectsFit(exec[k], claim[k], provider[k])
      BY <1>1 DEF RowOK
    <3> QED BY <1>3, <1>4, <1>6, <2>1, <3>1 DEF ObjectsFit
  <2> QED BY <2>2, <2>3, <2>4 DEF RowOK
<1>8. KeyMoves(exec[k], claim[k], provider[k], r, c, provider[k])
  <2>1. Accepts(exec[k], r)
    BY <1>3 DEF Accepts
  <2>2. r.version > exec[k].version
    BY <1>1, <1>3 DEF ExecutionRows
  <2> QED BY <1>3, <1>6, <2>1, <2>2 DEF KeyMoves, Quiesced
<1>9. KeysMove /\ CallsKept /\ BooksMove /\ Refines
  BY <1>3, <1>4, <1>5, <1>7, <1>8, ClaimMoves
<1>10. exec'[k] = r /\ claim'[k] = c
  BY <1>5, Types DEF IInv
<1> QED BY <1>3, <1>4, <1>6, <1>9, <1>10

LEMMA ClaimBankStep ==
  ASSUME IInv, NEW l \in OperatorLanes, ClaimBank(l)
  PROVE  Moves
<1>1. PICK k \in Keys : k = lane[l].job
  BY AtWork DEF ClaimBank
<1>2. lane[l].pc = "claimBank"
      /\ UNCHANGED <<withdrawal, balanceVars, inbox, provider, boundVars>>
  BY DEF ClaimBank
<1>3. /\ RequestOK(lane[l], exec[k], claim[k], provider[k])
      /\ lane[l] \in LaneRecords /\ exec[k].version + 1 \in Nat
  BY <1>1, <1>2, AtWork, RowFacts DEF ExecutionRows
<1>4. lane[l].result = "TRANSFER" /\ lane[l].mode = "send"
  BY <1>2, <1>3 DEF RequestOK
<1>5. CASE /\ BankReady(l)
           /\ ClaimCall(l, "TRANSFER_CREATED", "BANK_PAYOUT_SEND_CLAIMED", "callBank")
           /\ claim' = [claim EXCEPT ![Job(l)].bank = "young"]
  <2>1. /\ exec[k].status = "PROCESSING" /\ exec[k].stage = "TRANSFER_CREATED"
        /\ exec[k].transfer /\ ~exec[k].payout
        /\ Stored(k, Staged(k, "BANK_PAYOUT_SEND_CLAIMED"))
        /\ lane' = [lane EXCEPT ![l].pc = "callBank",
                                ![l].version = exec[k].version + 1]
        /\ claim' = [claim EXCEPT ![k].bank = "young"]
    BY <1>1, <1>5 DEF ClaimCall, BankReady, Row, Job
  <2>2. <<"TRANSFER_CREATED", "BANK_PAYOUT_SEND_CLAIMED">> \in StageSteps
        /\ "BANK_PAYOUT_SEND_CLAIMED" \in BankClaimed
    BY DEF StageSteps, BankClaimed
  <2>3. /\ KeysMove /\ CallsKept /\ BooksMove /\ Refines
        /\ exec'[k].provider = "stripe" /\ claim'[k].bank = "young"
    BY <1>2, <2>1, <2>2, BankClaimMoves
  <2>4. LanesMove
    <3> DEFINE n == [lane[l] EXCEPT !.pc = "callBank",
                                    !.version = exec[k].version + 1]
    <3>1. n.pc = "callBank" /\ n.result = "TRANSFER" /\ n.mode = "send"
      BY <1>3, <1>4 DEF LaneRecords
    <3>2. RequestOK(n, exec'[k], claim'[k], provider'[k])
      BY <2>3, <3>1 DEF RequestOK, Payouts
    <3>3. "callBank" \in Steps
      BY DEF Steps
    <3> QED BY <1>1, <1>2, <1>3, <2>1, <2>3, <3>2, <3>3, ClaimedLane
  <2> QED BY <1>2, <2>3, <2>4, InboxStill, BoundsStill DEF Moves
<1>6. CASE Goto(l, "caught") /\ UNCHANGED <<exec, claim>>
  <2>1. KeysMove /\ CallsKept /\ BooksMove /\ Refines
    BY <1>2, <1>6, NoRowMoves
  <2>2. LanesMove
    BY <1>2, <1>4, <1>6, <2>1, GoesCaught
  <2> QED BY <1>2, <2>1, <2>2, InboxStill, BoundsStill DEF Moves
<1> QED BY <1>5, <1>6 DEF ClaimBank

LEMMA ResumeStep ==
  ASSUME IInv, NEW l \in OperatorLanes, Resume(l)
  PROVE  Moves
<1>1. PICK k \in Keys : k = lane[l].job
  BY AtWork DEF Resume
<1>2. lane[l].pc = "resume" /\ l \in Lanes
      /\ UNCHANGED <<withdrawal, balanceVars, inbox, provider, boundVars>>
  BY DEF Resume, Lanes
<1>3. /\ RequestOK(lane[l], exec[k], claim[k], provider[k])
      /\ lane[l] \in LaneRecords /\ exec[k].version + 1 \in Nat
  BY <1>1, <1>2, AtWork, RowFacts DEF ExecutionRows
<1>4. CASE /\ BankReady(l)
           /\ ClaimCall(l, "TRANSFER_RECOVERY_REQUIRED",
                        "BANK_PAYOUT_RESUME_CLAIMED", "callBank")
           /\ claim' = [claim EXCEPT ![Job(l)].bank = "young"]
  <2>1. /\ exec[k].status = "PROCESSING"
        /\ exec[k].stage = "TRANSFER_RECOVERY_REQUIRED"
        /\ exec[k].transfer /\ ~exec[k].payout
        /\ Stored(k, Staged(k, "BANK_PAYOUT_RESUME_CLAIMED"))
        /\ lane' = [lane EXCEPT ![l].pc = "callBank",
                                ![l].version = exec[k].version + 1]
        /\ claim' = [claim EXCEPT ![k].bank = "young"]
    BY <1>1, <1>4 DEF ClaimCall, BankReady, Row, Job
  <2>2. <<"TRANSFER_RECOVERY_REQUIRED", "BANK_PAYOUT_RESUME_CLAIMED">> \in StageSteps
        /\ "BANK_PAYOUT_RESUME_CLAIMED" \in BankClaimed
    BY DEF StageSteps, BankClaimed
  <2>3. /\ KeysMove /\ CallsKept /\ BooksMove /\ Refines
        /\ exec'[k].version = exec[k].version + 1
        /\ exec'[k].stage = "BANK_PAYOUT_RESUME_CLAIMED"
        /\ exec'[k].provider = "stripe" /\ claim'[k].bank = "young"
    BY <1>2, <2>1, <2>2, BankClaimMoves
  <2>4. LanesMove
    <3> DEFINE n == [lane[l] EXCEPT !.pc = "callBank",
                                    !.version = exec[k].version + 1]
    <3>1. /\ n.pc = "callBank" /\ n.result = lane[l].result
          /\ n.mode = lane[l].mode /\ n.version = exec[k].version + 1
      BY <1>3 DEF LaneRecords
    <3>2. n.result = "NONE"
      BY <1>2, <1>3, <3>1 DEF RequestOK
    <3> HIDE DEF n
    <3>3. Fenced(n, exec'[k])
      BY <1>3, <2>2, <2>3, <3>1 DEF Fenced
    <3>4. RequestOK(n, exec'[k], claim'[k], provider'[k])
      BY <2>3, <3>1, <3>2, <3>3 DEF RequestOK, Payouts
    <3>5. "callBank" \in Steps /\ n = [lane[l] EXCEPT !.pc = "callBank",
                                         !.version = exec[k].version + 1]
      BY DEF Steps, n
    <3> QED BY <1>1, <1>2, <1>3, <2>1, <2>3, <3>4, <3>5, ClaimedLane
  <2> QED BY <1>2, <2>3, <2>4, InboxStill, BoundsStill DEF Moves
<1>5. CASE Rest(l) /\ UNCHANGED <<exec, claim>>
  <2>1. KeysMove /\ CallsKept /\ BooksMove /\ Refines
    BY <1>2, <1>5, NoRowMoves
  <2> QED BY <1>2, <1>5, <2>1, LaneRests, InboxStill, BoundsStill DEF Moves
<1> QED BY <1>4, <1>5 DEF Resume

\* No money of an execution that is not open is or can arrive at the publisher.
LEMMA ClosedUnexposed ==
  ASSUME IInv, NEW k \in Keys, exec[k].status \notin Open
  PROVE  /\ ~Exposed(k) /\ provider[k].payout \notin {"PENDING", "PAID"}
<1>1. /\ exec[k] \in ExecutionRows /\ RowOK(exec[k], claim[k], provider[k])
  BY RowFacts
<1>2. exec[k].status \in {"ABSENT", "CANCELLED"}
  BY <1>1 DEF ExecutionRows, ExecutionStatuses, Open
<1>3. CASE exec[k].stage \in Before
  BY <1>3, NeverSent DEF Exposed, NoObjects
<1>4. CASE exec[k].stage = "CANCELLED_REVERSED"
  BY <1>1, <1>4 DEF RowOK, ObjectsFit, Quiesced, Exposed
<1> QED BY <1>1, <1>2, <1>3, <1>4 DEF RowOK, StatusFits, Before, PreProvider

\* The bank pays the payout of an execution that is under way.
LEMMA PaymentMoves ==
  ASSUME IInv, NEW k \in Keys, NEW p \in ProviderRows,
         provider' = [provider EXCEPT ![k] = p],
         p.payout = "PAID", provider[k].payout # "PAID",
         exec[k].status = "PROCESSING",
         UNCHANGED <<withdrawal, exec, claim, balanceVars>>,
         RowOK(exec[k], claim[k], p),
         KeyMoves(exec[k], claim[k], provider[k], exec[k], claim[k], p)
  PROVE  KeysMove /\ CallsKept /\ BooksMove /\ Refines
<1>1. KeysMove
  BY ObjectChange
<1>2. BooksMove
  BY BooksKept
<1>3. /\ withdrawal[k[1]] = "PROCESSING" /\ k[1] \in Withdrawals
      /\ \A j \in Keys : j[1] = k[1] /\ j # k => provider[j].payout # "PAID"
  BY OnlyOpen, ClosedUnexposed, KeyParts DEF Open
<1>4. Contract!BankPays(k[1])
  <2> DEFINE P == [v \in Withdrawals |-> Paid(v, provider)]
             P2 == [v \in Withdrawals |-> Paid(v, provider')]
  <2>1. provider'[k] = p /\ \A j \in Keys : j # k => provider'[j] = provider[j]
    BY Types DEF IInv
  <2>2. ~P[k[1]]
    BY <1>3 DEF Paid
  <2>3. P2[k[1]] = TRUE
    BY <1>3, <2>1 DEF Paid
  <2>4. \A v \in Withdrawals : v # k[1] => P2[v] = P[v]
    BY <2>1 DEF Paid
  <2>5. P2 = [P EXCEPT ![k[1]] = TRUE]
    BY <1>3, <2>3, <2>4
  <2> QED BY <1>3, <2>2, <2>5 DEF Contract!BankPays, Paid, balanceVars
<1>5. Refines
  BY <1>3, <1>4 DEF Refines, Contract!Next
<1> QED BY <1>1, <1>2, <1>5, ClaimsUnchanged

\* createBankPayout makes the first payout of an execution.
LEMMA PayoutMoves ==
  ASSUME IInv, NEW k \in Keys, claim[k].bank \in {"young", "late"},
         Stripe(k), NewPayout(k),
         NEW answer \in {"PROCESSING", "COMPLETED", "FAILED"},
         provider' = PayoutMade(k, answer),
         UNCHANGED <<withdrawal, exec, claim, balanceVars>>
  PROVE  /\ KeysMove /\ CallsKept /\ BooksMove /\ Refines
         /\ provider'[k].payouts = 1
         /\ answer = "COMPLETED" => provider'[k].payout = "PAID"
<1>1. /\ exec[k] \in ExecutionRows /\ claim[k] \in ClaimRows
      /\ provider[k] \in ProviderRows
      /\ ClaimsFit(exec[k], claim[k]) /\ StatusFits(exec[k])
      /\ ObjectsFit(exec[k], claim[k], provider[k])
  BY RowFacts DEF RowOK
<1>2. provider[k].payouts = 0 /\ provider[k].payout = "NONE"
  BY <1>1 DEF NewPayout, ObjectsFit
<1>3. ~Quiesced(exec[k], claim[k], provider[k]) /\ ~provider[k].reversed
  BY <1>1, <1>2 DEF Quiesced, ObjectsFit
<1> DEFINE p == [provider[k] EXCEPT !.payouts = 1, !.payout = PayoutState(answer),
                                    !.answer = answer]
<1>4. /\ PayoutState(answer) \in {"PAID", "FAILED", "PENDING"}
      /\ (PayoutState(answer) = "PAID") <=> (answer = "COMPLETED")
  BY DEF PayoutState
<1>5. /\ p \in ProviderRows /\ p.payouts = 1 /\ p.payout = PayoutState(answer)
      /\ p.answer = answer /\ p.transfers = provider[k].transfers
      /\ p.reversed = provider[k].reversed
  BY <1>1, <1>4 DEF ProviderRows
<1>6. provider' = [provider EXCEPT ![k] = p]
  <2>1. provider' = [provider EXCEPT ![k].payouts = @ + 1,
                       ![k].payout = PayoutState(answer), ![k].answer = answer]
    BY DEF PayoutMade
  <2>2. provider' = [provider EXCEPT ![k] =
                       [provider[k] EXCEPT !.payouts = provider[k].payouts + 1,
                                           !.payout = PayoutState(answer),
                                           !.answer = answer]]
    BY <2>1, Types, Zenon DEF IInv
  <2> QED BY <1>2, <2>2
<1> HIDE DEF p
<1>7. ObjectsFit(exec[k], claim[k], p)
  BY <1>1, <1>2, <1>3, <1>4, <1>5 DEF ObjectsFit, ClaimsFit, Stripe
<1>8. KeyMoves(exec[k], claim[k], provider[k], exec[k], claim[k], p)
  BY <1>2, <1>3, <1>5 DEF KeyMoves
<1>9. RowOK(exec[k], claim[k], p)
  BY <1>1, <1>7 DEF RowOK
<1>10. exec[k].status = "PROCESSING"
  <2>1. exec[k].stage \notin Before
    BY <1>1 DEF ClaimsFit
  <2>2. exec[k].status # "ABSENT"
    BY <1>1, <2>1 DEF StatusFits, Before, PreProvider
  <2>3. exec[k].status # "CANCELLED"
    BY <1>1, <1>3, <2>1 DEF StatusFits, ObjectsFit, Before
  <2>4. exec[k].status # "COMPLETED"
    BY <1>1, <1>2 DEF ObjectsFit
  <2> QED BY <1>1, <2>2, <2>3, <2>4 DEF ExecutionRows, ExecutionStatuses
<1>11. KeysMove /\ CallsKept /\ BooksMove /\ Refines
  <2>1. CASE answer = "COMPLETED"
    BY <1>2, <1>4, <1>5, <1>6, <1>8, <1>9, <1>10, <2>1, PaymentMoves
  <2>2. CASE answer # "COMPLETED"
    BY <1>2, <1>4, <1>5, <1>6, <1>8, <1>9, <2>2, ObjectMoves
  <2> QED BY <2>1, <2>2
<1>12. provider'[k] = p
  BY <1>6, Types DEF IInv
<1> QED BY <1>4, <1>5, <1>11, <1>12

LEMMA CallBankStep ==
  ASSUME IInv, NEW l \in OperatorLanes, CallBank(l)
  PROVE  Moves
<1>1. PICK k \in Keys : k = lane[l].job
  BY AtWork DEF CallBank
<1>2. lane[l].pc = "callBank"
      /\ UNCHANGED <<withdrawal, exec, claim, balanceVars, inbox, boundVars>>
  BY DEF CallBank
<1>3. /\ RequestOK(lane[l], exec[k], claim[k], provider[k])
      /\ lane[l] \in LaneRecords /\ l \in Lanes
  BY <1>1, <1>2, AtWork
<1>4. claim[k].bank \in {"young", "late"} /\ Stripe(k)
  BY <1>2, <1>3 DEF RequestOK, Stripe
<1>5. PICK answer \in Payouts \cup {"NONE"} :
        /\ KeysMove /\ CallsKept /\ BooksMove /\ Refines
        /\ provider'[k].payouts > 0
        /\ answer = "COMPLETED" => provider'[k].payout = "PAID"
        /\ lane' = [lane EXCEPT ![l].pc = "recordBank", ![l].result = answer]
  <2>1. CASE NewPayout(k)
    <3>1. PICK answer \in {"PROCESSING", "COMPLETED", "FAILED"} :
            /\ provider' = PayoutMade(k, answer)
            /\ lane' = [lane EXCEPT ![l].pc = "recordBank", ![l].result = answer]
      BY <1>1, <2>1 DEF CallBank, Job
    <3>2. /\ KeysMove /\ CallsKept /\ BooksMove /\ Refines
          /\ provider'[k].payouts = 1
          /\ answer = "COMPLETED" => provider'[k].payout = "PAID"
      BY <1>2, <1>4, <2>1, <3>1, PayoutMoves
    <3>3. answer \in Payouts \cup {"NONE"} /\ provider'[k].payouts > 0
      BY <3>2 DEF Payouts
    <3> QED BY <3>1, <3>2, <3>3, Zenon
  <2>2. CASE ~NewPayout(k)
    <3>1. /\ lane' = [lane EXCEPT ![l].pc = "recordBank",
                                  ![l].result = provider[k].answer]
          /\ UNCHANGED provider
      BY <1>1, <2>2 DEF CallBank, Job
    <3>2. provider[k] \in ProviderRows /\ RowOK(exec[k], claim[k], provider[k])
      BY RowFacts
    <3>3. /\ provider[k].payouts > 0
          /\ provider[k].answer \in Payouts \cup {"NONE"}
          /\ provider[k].answer = "COMPLETED" => provider[k].payout = "PAID"
      BY <2>2, <3>2 DEF NewPayout, ProviderRows, Payouts, RowOK, ObjectsFit
    <3> QED BY <1>2, <3>1, <3>3, NoRowMoves
  <2> QED BY <2>1, <2>2
<1>6. LanesMove
  <2> DEFINE n == [lane[l] EXCEPT !.pc = "recordBank", !.result = answer]
  <2>1. /\ n \in LaneRecords /\ n.pc = "recordBank" /\ n.mode = lane[l].mode
        /\ n.job = k /\ n.version = lane[l].version /\ n.result = answer
    BY <1>1, <1>3 DEF LaneRecords, Results, Payouts
  <2>2. lane' = [lane EXCEPT ![l] = n]
    BY <1>3, <1>5, Types DEF IInv
  <2> HIDE DEF n
  <2>3. RequestOK(lane[l], exec'[k], claim'[k], provider'[k])
    BY <1>1, <1>2, <1>5, StillAtWork
  <2>4. n.mode = "recover" => Fenced(n, exec'[k])
    BY <1>2, <2>1, <2>3 DEF RequestOK, Fenced
  <2>5. RequestOK(n, exec'[k], claim'[k], provider'[k])
    BY <1>2, <1>4, <1>5, <2>1, <2>4 DEF RequestOK, Payouts, Stripe
  <2> QED BY <1>5, <2>1, <2>2, <2>5, RequestGoes
<1> QED BY <1>2, <1>5, <1>6, InboxStill, BoundsStill DEF Moves

LEMMA CallBankFailsStep ==
  ASSUME IInv, NEW l \in OperatorLanes, CallBankFails(l)
  PROVE  Moves
<1>1. PICK k \in Keys : k = lane[l].job
  BY AtWork DEF CallBankFails
<1>2. /\ lane[l].pc = "callBank" /\ Goto(l, "caught") /\ Fault
      /\ UNCHANGED <<withdrawal, exec, claim, balanceVars, inbox, requests,
                     deliveries>>
      /\ \/ UNCHANGED provider
         \/ NewPayout(k) /\ provider' = PayoutMade(k, "PROCESSING")
  BY <1>1 DEF CallBankFails, Job
<1>3. claim[k].bank \in {"young", "late"} /\ Stripe(k)
  BY <1>1, <1>2, AtWork DEF RequestOK, Stripe
<1>4. KeysMove /\ CallsKept /\ BooksMove /\ Refines
  BY <1>2, <1>3, NoRowMoves, PayoutMoves
<1>5. LanesMove
  BY <1>2, <1>4, GoesCaught
<1> QED BY <1>2, <1>4, <1>5, InboxStill, FaultSpent DEF Moves

LEMMA RecordBankStep ==
  ASSUME IInv, NEW l \in OperatorLanes, RecordBank(l)
  PROVE  Moves
<1>1. PICK k \in Keys : k = lane[l].job
  BY AtWork DEF RecordBank
<1>2. /\ lane[l].pc = "recordBank" /\ l \in Lanes
      /\ UNCHANGED <<withdrawal, claim, balanceVars, inbox, provider, boundVars>>
  BY DEF RecordBank, Lanes
<1>3. /\ RequestOK(lane[l], exec[k], claim[k], provider[k])
      /\ lane[l] \in LaneRecords
  BY <1>1, <1>2, AtWork
<1>4. CASE Holds(l, BankClaimed)
  <2> DEFINE s == BankStage(lane[l].result)
             new == [exec[k] EXCEPT !.stage = s, !.payout = TRUE]
  <2>1. /\ exec[k].status = "PROCESSING" /\ exec[k].stage \in BankClaimed
        /\ Stored(k, new) /\ AfterBank(l)
    BY <1>1, <1>4 DEF RecordBank, Holds, Row, Job
  <2>2. s \in {"BANK_PAID", "BANK_PAYOUT_RECOVERY_REQUIRED", "BANK_PAYOUT_CREATED"}
    BY DEF BankStage
  <2>3. s \in Stages
    BY <2>2 DEF Stages, Cancellable
  <2> HIDE DEF s
  <2>4. exec[k] \in ExecutionRows /\ RowOK(exec[k], claim[k], provider[k])
    BY RowFacts
  <2>5. /\ new \in ExecutionRows /\ new.stage = s /\ new.payout = TRUE
        /\ new.status = exec[k].status /\ new.transfer = exec[k].transfer
        /\ new.provider = exec[k].provider
    BY <2>3, <2>4 DEF ExecutionRows
  <2>6. provider[k].payouts > 0 /\ exec[k].provider = "stripe"
    BY <1>2, <1>3 DEF RequestOK
  <2>7. exec[k].transfer
    BY <2>1, <2>4 DEF RowOK, ClaimsFit, BankStages
  <2> HIDE DEF new
  <2>8. Accepts(exec[k], new)
    <3>1. <<exec[k].stage, s>> \in StageSteps
      BY <2>1, <2>2 DEF StageSteps
    <3> QED BY <2>1, <2>2, <2>5, <2>7, <3>1 DEF Accepts, AttachesPayout
  <2>9. Suits(exec[k], new, claim[k], provider[k])
    BY <2>2, <2>5, <2>6 DEF Suits, BankClaimed
  <2>10. KeysMove /\ CallsKept /\ BooksMove /\ Refines
    BY <1>2, <2>1, <2>5, <2>8, <2>9, StoreMoves
  <2>11. LanesMove
    <3>1. CASE lane[l].result = "COMPLETED"
      <4>1. Goto(l, "finalize")
        BY <2>1, <3>1 DEF AfterBank
      <4> DEFINE n == [lane[l] EXCEPT !.pc = "finalize"]
      <4>2. RequestOK(lane[l], exec'[k], claim'[k], provider'[k])
        BY <1>1, <1>2, <2>10, StillAtWork
      <4>3. n.pc = "finalize" /\ n.result = "COMPLETED"
        BY <1>3, <3>1 DEF LaneRecords
      <4>4. RequestOK(n, exec'[k], claim'[k], provider'[k])
        BY <3>1, <4>2, <4>3 DEF RequestOK
      <4>5. "finalize" \in Steps
        BY DEF Steps
      <4> QED BY <1>1, <1>2, <2>10, <4>1, <4>4, <4>5, Goes
    <3>2. CASE lane[l].result = "FAILED" /\ lane[l].mode = "send"
      <4>1. Goto(l, "caught")
        BY <2>1, <3>2 DEF AfterBank
      <4> QED BY <1>2, <2>10, <3>2, <4>1, GoesCaught
    <3>3. CASE ~(lane[l].result = "COMPLETED")
               /\ ~(lane[l].result = "FAILED" /\ lane[l].mode = "send")
      <4>1. Rest(l)
        BY <2>1, <3>3 DEF AfterBank
      <4> QED BY <1>2, <2>10, <4>1, LaneRests
    <3> QED BY <3>1, <3>2, <3>3
  <2> QED BY <1>2, <2>10, <2>11, InboxStill, BoundsStill DEF Moves
<1>5. CASE ~Holds(l, BankClaimed)
  <2>1. Goto(l, "caught") /\ UNCHANGED exec
    BY <1>5 DEF RecordBank
  <2>2. KeysMove /\ CallsKept /\ BooksMove /\ Refines
    BY <1>2, <2>1, NoRowMoves
  <2>3. LanesMove
    BY <1>2, <2>1, <2>2, GoesCaught
  <2> QED BY <1>2, <2>2, <2>3, InboxStill, BoundsStill DEF Moves
<1> QED BY <1>4, <1>5

-----------------------------------------------------------------------------
(* finalizePayoutExecution *)

\* Evidence of a payment closes the execution and books the withdrawal.
LEMMA FinalizeMoves ==
  ASSUME IInv, NEW k \in Keys, Finalize(k), provider[k].payout = "PAID",
         UNCHANGED <<claim, withdrawable, provider>>
  PROVE  KeysMove /\ CallsKept /\ BooksMove /\ Refines
<1> DEFINE s == IF Stripe(k) THEN "BANK_PAID" ELSE "MANUAL_CONFIRMED"
           r == [exec[k] EXCEPT !.status = "COMPLETED", !.stage = s,
                                !.version = exec[k].version + 1]
<1>1. /\ exec[k].status = "PROCESSING" /\ withdrawal[k[1]] = "PROCESSING"
      /\ exec[k].stage \in FinalStages(k)
      /\ IF Stripe(k) THEN exec[k].payout ELSE exec[k].transfer
      /\ withdrawal' = [withdrawal EXCEPT ![k[1]] = "COMPLETED"]
      /\ lifetimePaid' = lifetimePaid + Amount[k[1]]
  BY DEF Finalize, Finalizable
<1>2. /\ exec[k] \in ExecutionRows /\ RowOK(exec[k], claim[k], provider[k])
      /\ exec[k].version + 1 \in Nat
  BY RowFacts DEF ExecutionRows
<1>3. s \in {"BANK_PAID", "MANUAL_CONFIRMED"} /\ ((s = "BANK_PAID") <=> Stripe(k))
  OBVIOUS
<1>4. exec' = [exec EXCEPT ![k] = r]
  BY <1>2, Types DEF Finalize, Completed, Stored, IInv, ExecutionRows
<1> HIDE DEF s
<1>5. s \in Stages
  BY <1>3 DEF Stages
<1>6. /\ r \in ExecutionRows /\ r.stage = s
      /\ r.status = "COMPLETED" /\ r.transfer = exec[k].transfer
      /\ r.payout = exec[k].payout /\ r.provider = exec[k].provider
      /\ r.version = exec[k].version + 1
  BY <1>2, <1>5 DEF ExecutionRows, ExecutionStatuses
<1> HIDE DEF r
<1>7. exec[k].stage \notin Before /\ exec[k].stage \notin BankStages
  BY <1>1 DEF FinalStages, Before, PreProvider, BankStages, BankClaimed
<1>8. RowOK(r, claim[k], provider[k])
  <2>1. s \notin Before /\ s \notin BankStages
        /\ s \notin {"PRE_PROVIDER_ABORTED", "CANCELLED_REVERSED"}
        /\ (s \in StripeStages => Stripe(k))
    BY <1>3 DEF Before, PreProvider, BankStages, BankClaimed, StripeStages
  <2>2. ClaimsFit(r, claim[k])
    BY <1>2, <1>6, <1>7, <2>1 DEF ClaimsFit, RowOK
  <2>3. StatusFits(r)
    BY <1>2, <1>6, <2>1 DEF StatusFits, RowOK, Stripe
  <2>4. ObjectsFit(r, claim[k], provider[k])
    <3>1. ObjectsFit(exec[k], claim[k], provider[k])
      BY <1>2 DEF RowOK
    <3>2. ~provider[k].reversed
      BY <3>1 DEF ObjectsFit, Quiesced
    <3> QED BY <1>6, <2>1, <3>1, <3>2 DEF ObjectsFit
  <2> QED BY <2>2, <2>3, <2>4 DEF RowOK
<1>9. Accepts(exec[k], r)
  <2>1. exec[k].stage = s \/ <<exec[k].stage, s>> \in StageSteps
    BY <1>1, <1>3 DEF FinalStages, StageSteps
  <2> QED BY <1>1, <1>6, <2>1 DEF Accepts
<1>10. KeyMoves(exec[k], claim[k], provider[k], r, claim[k], provider[k])
  <2>1. exec[k].stage \in Late => s \in Late
    BY <1>1, <1>3 DEF Late, FinalStages
  <2>2. r.version > exec[k].version
    BY <1>2, <1>6 DEF ExecutionRows
  <2> QED BY <1>6, <1>9, <2>1, <2>2 DEF KeyMoves, Quiesced
<1>11. KeysMove
  BY <1>4, <1>6, <1>8, <1>10, RowChange
<1>12. k[1] \in Withdrawals /\ Amount[k[1]] \in Nat /\ lifetimePaid \in Nat
       /\ withdrawable \in Nat /\ withdrawal \in [Withdrawals -> WithdrawalStatuses]
  BY KeyParts, ConstantsAssumption DEF IInv, TypeOK
<1>13. BooksMove
  <2>1. withdrawable' \in Nat /\ lifetimePaid' \in Nat
    BY <1>1, <1>12
  <2>2. "COMPLETED" \in WithdrawalStatuses
    BY DEF WithdrawalStatuses
  <2>3. \A j \in Keys : j[1] = k[1] /\ j # k => exec[j].status \notin Open
    BY <1>1, OnlyOpen DEF Open
  <2>4. Numbered(k[1], exec')
    BY <1>1, <1>4, <1>6, NumberKept
  <2>5. /\ withdrawal' \in [Withdrawals -> WithdrawalStatuses]
        /\ \A v \in Withdrawals :
             WithdrawalOK(v, withdrawal'[v], exec') /\ Numbered(v, exec')
    BY <1>1, <1>4, <1>6, <2>2, <2>3, <2>4, StatusChange
  <2> QED BY <2>1, <2>5 DEF BooksMove
<1>14. Contract!Book(k[1])
  <2>1. withdrawal'[k[1]] = "COMPLETED"
        /\ \A v \in Withdrawals : v # k[1] => withdrawal'[v] = withdrawal[v]
    BY <1>1, <1>12
  <2> DEFINE S == [v \in Withdrawals |-> ContractState(withdrawal[v])]
             S2 == [v \in Withdrawals |-> ContractState(withdrawal'[v])]
  <2>2. S[k[1]] = "RESERVED" /\ S2 = [S EXCEPT ![k[1]] = "PAID"]
    BY <1>1, <1>12, <2>1 DEF ContractState
  <2>3. Paid(k[1], provider)
    BY DEF Paid
  <2> QED BY <1>1, <1>12, <2>2, <2>3 DEF Contract!Book, ContractState, Paid
<1>15. Refines
  BY <1>12, <1>14 DEF Refines, Contract!Next
<1> QED BY <1>11, <1>13, <1>15, ClaimsUnchanged

\* Evidence the row has no use for.
LEMMA SkipMoves ==
  ASSUME IInv, NEW k \in Keys, FinalizeSkips(k),
         UNCHANGED <<claim, withdrawable, provider>>
  PROVE  KeysMove /\ CallsKept /\ BooksMove /\ Refines
  BY NoRowMoves DEF FinalizeSkips, balanceVars

LEMMA FinalizeAnswerStep ==
  ASSUME IInv, NEW l \in OperatorLanes, FinalizeAnswer(l)
  PROVE  Moves
<1>1. PICK k \in Keys : k = lane[l].job
  BY AtWork DEF FinalizeAnswer
<1>2. /\ lane[l].pc = "finalize" /\ l \in Lanes
      /\ UNCHANGED <<claim, withdrawable, inbox, provider, boundVars>>
  BY DEF FinalizeAnswer, Lanes
<1>3. provider[k].payout = "PAID"
  BY <1>1, <1>2, AtWork DEF RequestOK
<1>4. CASE Finalize(k) /\ Rest(l)
  <2>1. KeysMove /\ CallsKept /\ BooksMove /\ Refines
    BY <1>2, <1>3, <1>4, FinalizeMoves
  <2> QED BY <1>2, <1>4, <2>1, LaneRests, InboxStill, BoundsStill DEF Moves
<1>5. CASE FinalizeSkips(k)
           /\ IF lane[l].mode = "send" THEN Goto(l, "caught") ELSE Rest(l)
  <2>1. KeysMove /\ CallsKept /\ BooksMove /\ Refines
    BY <1>2, <1>5, SkipMoves
  <2>2. LanesMove
    BY <1>2, <1>5, <2>1, LaneRests, GoesCaught
  <2> QED BY <1>2, <2>1, <2>2, InboxStill, BoundsStill DEF Moves
<1> QED BY <1>1, <1>4, <1>5 DEF FinalizeAnswer, Job

LEMMA CompleteManualStep ==
  ASSUME IInv, NEW k \in Keys, CompleteManual(k)
  PROVE  Moves
<1>1. /\ provider[k].payout = "PAID" /\ Finalize(k)
      /\ UNCHANGED <<claim, withdrawable, inbox, provider, lane, boundVars>>
  BY DEF CompleteManual
<1>2. KeysMove /\ CallsKept /\ BooksMove /\ Refines
  BY <1>1, FinalizeMoves
<1> QED BY <1>1, <1>2, LanesStill, InboxStill, BoundsStill DEF Moves

-----------------------------------------------------------------------------
(* The catches and retryExecution *)

\* What the catch of executeWithdrawal may write.
LEMMA CatchSuits ==
  ASSUME NEW row \in ExecutionRows, NEW c \in ClaimRows, NEW p \in ProviderRows,
         NEW n \in LaneRecords, RowOK(row, c, p), RequestOK(n, row, c, p),
         row.status = "PROCESSING", Accepts(row, CatchRow(row, n.result))
  PROVE  /\ CatchRow(row, n.result) \in ExecutionRows
         /\ CatchRow(row, n.result).status = "PROCESSING"
         /\ Suits(row, CatchRow(row, n.result), c, p)
<1> DEFINE s == CatchStage(row, n.result)
           new == CatchRow(row, n.result)
<1>1. /\ row.stage \in Stages /\ row.transfer \in BOOLEAN /\ row.payout \in BOOLEAN
  BY DEF ExecutionRows
<1>2. \/ s = "PROVIDER_COMPLETION_RECOVERY_REQUIRED" /\ n.result = "COMPLETED"
      \/ /\ s = "BANK_PAYOUT_RECOVERY_REQUIRED"
         /\ row.payout \/ n.result \in {"PROCESSING", "FAILED"}
      \/ s = row.stage /\ row.stage \in {"BANK_PAYOUT_SEND_CLAIMED",
                                         "PROVIDER_SEND_CLAIMED"}
      \/ s = "TRANSFER_RECOVERY_REQUIRED" /\ row.provider = "stripe"
      \/ s = "PROVIDER_OUTCOME_UNKNOWN"
  BY DEF CatchStage
<1> HIDE DEF s
<1>3. s \in Stages
  BY <1>1, <1>2 DEF Stages, Cancellable
<1>4. /\ new \in ExecutionRows /\ new.stage = s /\ new.status = row.status
      /\ new.provider = row.provider
      /\ new.transfer = (row.transfer \/ n.result \in {"TRANSFER", "SENT"})
      /\ new.payout = (row.payout \/ n.result \in {"PROCESSING", "COMPLETED", "FAILED"})
  BY <1>3 DEF CatchRow, ExecutionRows, s
<1>5. Accepts(row, new)
  OBVIOUS
<1> HIDE DEF new
<1>6. new.payout => p.payouts > 0 /\ row.provider = "stripe"
  BY <1>4 DEF RequestOK, Payouts, RowOK, StatusFits, ObjectsFit
<1>7. new.stage \in StripeStages => row.provider = "stripe"
  <2>1. s = row.stage => (s \in StripeStages => row.provider = "stripe")
    BY DEF RowOK, StatusFits
  <2>2. s = "BANK_PAYOUT_RECOVERY_REQUIRED" =>
          new.payout \/ s = row.stage
    BY <1>2, <1>4
  <2>3. "PROVIDER_COMPLETION_RECOVERY_REQUIRED" \notin StripeStages
        /\ "PROVIDER_OUTCOME_UNKNOWN" \notin StripeStages
    BY DEF StripeStages, BankStages, BankClaimed
  <2> QED BY <1>2, <1>4, <1>6, <2>1, <2>2, <2>3
<1>8. new.stage \notin {"PRE_PROVIDER_ABORTED", "CANCELLED_REVERSED"}
  BY <1>2, <1>4
<1>9. new.stage = "PROVIDER_SEND_CLAIMED" => c.send # "none"
  <2>1. new.stage = "PROVIDER_SEND_CLAIMED" => row.stage = "PROVIDER_SEND_CLAIMED"
    BY <1>2, <1>4
  <2> QED BY <2>1 DEF RowOK, ClaimsFit, Before, PreProvider
<1>10. new.stage \in BankClaimed => row.stage \in BankClaimed
  BY <1>2, <1>4 DEF BankClaimed
<1>11. c.bank # "none" => new.payout \/ new.stage \in BankStages
  <2>1. SUFFICES ASSUME row.stage \in BankStages, ~new.payout
                 PROVE  new.stage \in BankStages
    BY <1>4 DEF RowOK, ClaimsFit
  <2>2. ~row.payout /\ n.result \notin {"PROCESSING", "COMPLETED", "FAILED"}
    BY <1>4, <2>1
  <2>3. <<row.stage, "TRANSFER_RECOVERY_REQUIRED">> \notin StageSteps
        /\ <<row.stage, "PROVIDER_OUTCOME_UNKNOWN">> \notin StageSteps
    BY <2>1 DEF BankStages, BankClaimed, StageSteps
  <2>4. row.stage # "TRANSFER_RECOVERY_REQUIRED" /\ row.stage # "PROVIDER_OUTCOME_UNKNOWN"
    BY <2>1 DEF BankStages, BankClaimed
  <2>5. s # "TRANSFER_RECOVERY_REQUIRED" /\ s # "PROVIDER_OUTCOME_UNKNOWN"
    BY <1>4, <1>5, <2>3, <2>4 DEF Accepts
  <2> QED BY <1>2, <1>4, <2>1, <2>2, <2>5
<1>12. Suits(row, new, c, p)
  BY <1>4, <1>6, <1>7, <1>8, <1>9, <1>10, <1>11 DEF Suits
<1> QED BY <1>4, <1>12 DEF new

LEMMA ExecuteCaughtStep ==
  ASSUME IInv, NEW l \in OperatorLanes, ExecuteCaught(l)
  PROVE  Moves
<1>1. PICK k \in Keys : k = lane[l].job
  BY AtWork DEF ExecuteCaught
<1>2. /\ lane[l].pc = "caught" /\ l \in Lanes /\ Rest(l)
      /\ UNCHANGED <<withdrawal, claim, balanceVars, inbox, provider, boundVars>>
  BY DEF ExecuteCaught, Lanes
<1>3. /\ RequestOK(lane[l], exec[k], claim[k], provider[k])
      /\ lane[l] \in LaneRecords
  BY <1>1, <1>2, AtWork
<1>4. KeysMove /\ CallsKept /\ BooksMove /\ Refines
  <2>1. CASE UNCHANGED exec
    BY <1>2, <2>1, NoRowMoves
  <2>2. CASE /\ exec[k].status = "PROCESSING"
             /\ Accepts(exec[k], CatchRow(exec[k], lane[l].result))
             /\ Stored(k, CatchRow(exec[k], lane[l].result))
    <3> DEFINE new == CatchRow(exec[k], lane[l].result)
    <3>1. /\ new \in ExecutionRows /\ new.status = "PROCESSING"
          /\ Suits(exec[k], new, claim[k], provider[k])
      BY <1>3, <2>2, RowFacts, CatchSuits
    <3>2. Accepts(exec[k], new) /\ Stored(k, new)
      BY <2>2
    <3> HIDE DEF new
    <3> QED BY <1>2, <3>1, <3>2, StoreMoves
  <2> QED BY <1>1, <2>1, <2>2 DEF ExecuteCaught, Store, Row, Job
<1> QED BY <1>2, <1>4, LaneRests, InboxStill, BoundsStill DEF Moves

LEMMA RecoverCaughtStep ==
  ASSUME IInv, NEW l \in OperatorLanes, RecoverCaught(l)
  PROVE  Moves
<1>1. PICK k \in Keys : k = lane[l].job
  BY AtWork DEF RecoverCaught
<1>2. /\ lane[l].pc = "caught" /\ lane[l].mode = "recover" /\ l \in Lanes /\ Rest(l)
      /\ UNCHANGED <<withdrawal, claim, balanceVars, inbox, provider, boundVars>>
  BY DEF RecoverCaught, Lanes
<1>3. /\ RequestOK(lane[l], exec[k], claim[k], provider[k])
      /\ lane[l] \in LaneRecords
  BY <1>1, <1>2, AtWork
<1>4. Fenced(lane[l], exec[k])
  BY <1>2, <1>3 DEF RequestOK
<1>5. KeysMove /\ CallsKept /\ BooksMove /\ Refines
  <2>1. CASE UNCHANGED exec
    BY <1>2, <2>1, NoRowMoves
  <2>2. CASE Holds(l, {"PROVIDER_SEND_CLAIMED"} \cup BankClaimed)
    <3>1. /\ exec[k].status = "PROCESSING" /\ exec[k].version = lane[l].version
      BY <1>1, <2>2 DEF Holds, Row, Job
    <3>2. Stored(k, IF lane[l].result = "NONE" THEN exec[k]
                    ELSE IF lane[l].result = "TRANSFER"
                    THEN [exec[k] EXCEPT !.stage = "TRANSFER_RECOVERY_REQUIRED",
                                         !.transfer = TRUE]
                    ELSE [exec[k] EXCEPT !.stage = "BANK_PAYOUT_RECOVERY_REQUIRED",
                                         !.payout = TRUE])
      BY <1>1, <2>2 DEF RecoverCaught, Row, Job
    <3>3. exec[k] \in ExecutionRows /\ RowOK(exec[k], claim[k], provider[k])
      BY RowFacts
    <3>4. CASE lane[l].result = "NONE"
      BY <1>2, <3>1, <3>2, <3>4, TouchMoves
    <3>5. CASE lane[l].result = "TRANSFER"
      <4> DEFINE new == [exec[k] EXCEPT !.stage = "TRANSFER_RECOVERY_REQUIRED",
                                        !.transfer = TRUE]
      <4>1. exec[k].stage = "PROVIDER_SEND_CLAIMED" /\ exec[k].provider = "stripe"
        BY <1>2, <1>4, <3>1, <3>5 DEF Fenced
      <4>2. /\ new \in ExecutionRows /\ new.stage = "TRANSFER_RECOVERY_REQUIRED"
            /\ new.transfer = TRUE /\ new.status = exec[k].status
            /\ new.payout = exec[k].payout /\ new.provider = exec[k].provider
        BY <3>3 DEF ExecutionRows, Stages, Cancellable
      <4>3. Stored(k, new)
        BY <3>2, <3>5
      <4> HIDE DEF new
      <4>4. Accepts(exec[k], new)
        BY <3>1, <4>1, <4>2 DEF Accepts, AttachesTransfer, StageSteps
      <4>5. exec[k].stage \notin BankStages
        BY <4>1 DEF BankStages, BankClaimed
      <4>6. Suits(exec[k], new, claim[k], provider[k])
        BY <3>3, <4>1, <4>2, <4>5
           DEF Suits, RowOK, ClaimsFit, StatusFits, ObjectsFit, BankClaimed
      <4> QED BY <1>2, <3>1, <4>2, <4>3, <4>4, <4>6, StoreMoves
    <3>6. CASE lane[l].result \notin {"NONE", "TRANSFER"}
      <4> DEFINE new == [exec[k] EXCEPT !.stage = "BANK_PAYOUT_RECOVERY_REQUIRED",
                                        !.payout = TRUE]
      <4>1. lane[l].result \in Payouts
        BY <1>3, <1>4, <3>6 DEF RequestOK, Fenced, LaneRecords, Results, Payouts
      <4>2. exec[k].stage \in BankClaimed /\ exec[k].provider = "stripe"
            /\ provider[k].payouts > 0
        BY <1>2, <1>3, <1>4, <3>1, <3>6, <4>1 DEF Fenced, RequestOK
      <4>3. /\ new \in ExecutionRows /\ new.stage = "BANK_PAYOUT_RECOVERY_REQUIRED"
            /\ new.payout = TRUE /\ new.status = exec[k].status
            /\ new.transfer = exec[k].transfer /\ new.provider = exec[k].provider
        BY <3>3 DEF ExecutionRows, Stages, Cancellable
      <4>4. Stored(k, new)
        BY <3>2, <3>6
      <4>5. exec[k].transfer
        BY <3>3, <4>2 DEF RowOK, ClaimsFit, BankStages
      <4> HIDE DEF new
      <4>6. <<exec[k].stage, "BANK_PAYOUT_RECOVERY_REQUIRED">> \in StageSteps
        BY <4>2 DEF StageSteps
      <4>7. Accepts(exec[k], new)
        BY <3>1, <4>2, <4>3, <4>5, <4>6 DEF Accepts, AttachesPayout
      <4>8. Suits(exec[k], new, claim[k], provider[k])
        BY <4>2, <4>3 DEF Suits, BankClaimed
      <4> QED BY <1>2, <3>1, <4>3, <4>4, <4>7, <4>8, StoreMoves
    <3> QED BY <3>4, <3>5, <3>6
  <2> QED BY <2>1, <2>2 DEF RecoverCaught
<1> QED BY <1>2, <1>5, LaneRests, InboxStill, BoundsStill DEF Moves

\* A stale claim is replayed on a new version.
LEMMA ReplayMoves ==
  ASSUME IInv, NEW l \in OperatorLanes, NEW k \in Keys,
         NEW pc \in {"callTransfer", "callBank"},
         pc = "callTransfer" =>
           exec[k].stage = "PROVIDER_SEND_CLAIMED" /\ claim[k].send = "young",
         pc = "callBank" => exec[k].stage \in BankClaimed /\ claim[k].bank = "young",
         Stripe(k), exec[k].status = "PROCESSING",
         Stored(k, exec[k]), lane' = [lane EXCEPT ![l] = Recovering(pc, k)],
         UNCHANGED <<withdrawal, claim, balanceVars, provider>>
  PROVE  KeysMove /\ CallsKept /\ BooksMove /\ Refines /\ LanesMove
<1>1. /\ KeysMove /\ CallsKept /\ BooksMove /\ Refines
      /\ exec'[k].version = exec[k].version + 1
      /\ exec'[k].stage = exec[k].stage /\ exec'[k].provider = exec[k].provider
  BY TouchMoves
<1> DEFINE n == Recovering(pc, k)
<1>2. exec[k].version + 1 \in Nat
  BY RowFacts DEF ExecutionRows
<1>3. /\ n \in LaneRecords /\ n.pc = pc /\ n.job = k /\ n.mode = "recover"
      /\ n.result = "NONE" /\ n.version = exec[k].version + 1
  BY <1>2 DEF Recovering, At, LaneRecords, Results
<1> HIDE DEF n
<1>4. Fenced(n, exec'[k])
  BY <1>1, <1>2, <1>3 DEF Fenced, Stripe
<1>5. RequestOK(n, exec'[k], claim'[k], provider'[k])
  BY <1>1, <1>3, <1>4 DEF RequestOK, Payouts, Stripe
<1>6. lane' = [lane EXCEPT ![l] = n]
  BY DEF n
<1> QED BY <1>1, <1>3, <1>5, <1>6, RequestGoes

\* A claim that is not replayed is retired.
LEMMA ExpireMoves ==
  ASSUME IInv, NEW k \in Keys, exec[k].status = "PROCESSING",
         NEW s, \/ /\ exec[k].stage = "PROVIDER_SEND_CLAIMED"
                   /\ s = "PROVIDER_SEND_CLAIM_EXPIRED"
                \/ /\ exec[k].stage \in BankClaimed
                   /\ s = "BANK_PAYOUT_CLAIM_EXPIRED",
         Stored(k, Staged(k, s)),
         UNCHANGED <<withdrawal, claim, balanceVars, provider>>
  PROVE  KeysMove /\ CallsKept /\ BooksMove /\ Refines
<1>1. s \in Stages
  BY DEF Stages
<1> DEFINE new == Staged(k, s)
<1>2. /\ new \in ExecutionRows /\ new.stage = s /\ new.status = exec[k].status
      /\ new.transfer = exec[k].transfer /\ new.payout = exec[k].payout
      /\ new.provider = exec[k].provider
  BY <1>1, StagedRow
<1>3. RowOK(exec[k], claim[k], provider[k])
  BY RowFacts
<1>4. Stored(k, new)
  OBVIOUS
<1> HIDE DEF new
<1>5. Accepts(exec[k], new)
  <2>1. <<exec[k].stage, s>> \in StageSteps
    BY DEF StageSteps
  <2> QED BY <1>2, <2>1 DEF Accepts
<1>6. Suits(exec[k], new, claim[k], provider[k])
  <2>1. s \in StripeStages => exec[k].stage \in StripeStages
    BY DEF StripeStages, BankStages, BankClaimed
  <2>2. exec[k].stage \in BankStages => s \in BankStages
    BY DEF BankStages, BankClaimed
  <2>3. s \notin BankClaimed
    BY DEF BankClaimed
  <2> QED BY <1>2, <1>3, <2>1, <2>2, <2>3
          DEF Suits, RowOK, ClaimsFit, StatusFits, ObjectsFit
<1> QED BY <1>2, <1>4, <1>5, <1>6, StoreMoves

LEMMA RecoverTransferStep ==
  ASSUME IInv, NEW l \in OperatorLanes, NEW k \in Keys, RecoverTransfer(l, k)
  PROVE  Moves
<1>1. /\ Request /\ exec[k].status = "PROCESSING" /\ Stripe(k)
      /\ exec[k].stage = "PROVIDER_SEND_CLAIMED"
      /\ UNCHANGED <<withdrawal, claim, balanceVars, inbox, provider, deliveries,
                     faults>>
      /\ \/ /\ claim[k].send = "young"
            /\ Stored(k, exec[k])
            /\ lane' = [lane EXCEPT ![l] = Recovering("callTransfer", k)]
         \/ /\ Stored(k, Staged(k, "PROVIDER_SEND_CLAIM_EXPIRED"))
            /\ UNCHANGED lane
  BY DEF RecoverTransfer, Reclaim, Replayable
<1>2. KeysMove /\ CallsKept /\ BooksMove /\ Refines /\ LanesMove
  <2>1. CASE UNCHANGED lane /\ Stored(k, Staged(k, "PROVIDER_SEND_CLAIM_EXPIRED"))
    <3>1. KeysMove /\ CallsKept /\ BooksMove /\ Refines
      BY <1>1, <2>1, ExpireMoves
    <3> QED BY <2>1, <3>1, LanesStill
  <2>2. CASE /\ claim[k].send = "young" /\ Stored(k, exec[k])
             /\ lane' = [lane EXCEPT ![l] = Recovering("callTransfer", k)]
    BY <1>1, <2>2, ReplayMoves
  <2> QED BY <1>1, <2>1, <2>2
<1> QED BY <1>1, <1>2, InboxStill, RequestSpent DEF Moves

LEMMA RecoverBankStep ==
  ASSUME IInv, NEW l \in OperatorLanes, NEW k \in Keys, RecoverBank(l, k)
  PROVE  Moves
<1>1. /\ Request /\ exec[k].status = "PROCESSING" /\ exec[k].stage \in BankClaimed
      /\ UNCHANGED <<withdrawal, claim, balanceVars, inbox, provider, deliveries,
                     faults>>
      /\ \/ /\ claim[k].bank = "young"
            /\ Stored(k, exec[k])
            /\ lane' = [lane EXCEPT ![l] = Recovering("callBank", k)]
         \/ /\ Stored(k, Staged(k, "BANK_PAYOUT_CLAIM_EXPIRED"))
            /\ UNCHANGED lane
  BY DEF RecoverBank, Reclaim, Replayable
<1>2. Stripe(k)
  BY <1>1, RowFacts DEF RowOK, StatusFits, StripeStages, BankStages, Stripe
<1>3. KeysMove /\ CallsKept /\ BooksMove /\ Refines /\ LanesMove
  <2>1. CASE UNCHANGED lane /\ Stored(k, Staged(k, "BANK_PAYOUT_CLAIM_EXPIRED"))
    <3>1. KeysMove /\ CallsKept /\ BooksMove /\ Refines
      BY <1>1, <2>1, ExpireMoves
    <3> QED BY <2>1, <3>1, LanesStill
  <2>2. CASE /\ claim[k].bank = "young" /\ Stored(k, exec[k])
             /\ lane' = [lane EXCEPT ![l] = Recovering("callBank", k)]
    BY <1>1, <1>2, <2>2, ReplayMoves
  <2> QED BY <1>1, <2>1, <2>2
<1> QED BY <1>1, <1>3, InboxStill, RequestSpent DEF Moves

\* A retry starts: nothing but its lane changes.
LEMMA RetryMoves ==
  ASSUME IInv, NEW l \in OperatorLanes, NEW k \in Keys,
         NEW pc \in {"resume", "finalize"},
         pc = "resume" => Stripe(k),
         pc = "finalize" => provider[k].payout = "PAID",
         lane' = [lane EXCEPT ![l] = Recovering(pc, k)], Request,
         UNCHANGED <<withdrawal, exec, claim, balanceVars, inbox, provider,
                     deliveries, faults>>
  PROVE  Moves
<1>1. KeysMove /\ CallsKept /\ BooksMove /\ Refines
  BY NoRowMoves
<1> DEFINE n == Recovering(pc, k)
<1>2. exec[k].version + 1 \in Nat
  BY RowFacts DEF ExecutionRows
<1>3. /\ n \in LaneRecords /\ n.pc = pc /\ n.job = k /\ n.mode = "recover"
      /\ n.result = "NONE"
  BY <1>2 DEF Recovering, At, LaneRecords, Results
<1>4. lane' = [lane EXCEPT ![l] = n]
  OBVIOUS
<1> HIDE DEF n
<1>5. RequestOK(n, exec'[k], claim'[k], provider'[k])
  BY <1>3 DEF RequestOK, Payouts, Stripe
<1>6. LanesMove
  BY <1>1, <1>3, <1>4, <1>5, RequestGoes
<1> QED BY <1>1, <1>6, InboxStill, RequestSpent DEF Moves

LEMMA RetryResumeStep ==
  ASSUME IInv, NEW l \in OperatorLanes, NEW k \in Keys, RetryResume(l, k)
  PROVE  Moves
<1>1. Stripe(k)
  BY RowFacts DEF RetryResume, RowOK, StatusFits, StripeStages, Stripe
<1> QED BY <1>1, RetryMoves DEF RetryResume

LEMMA RetryStatusStep ==
  ASSUME IInv, NEW l \in OperatorLanes, NEW k \in Keys, RetryStatus(l, k)
  PROVE  Moves
  BY RetryMoves DEF RetryStatus

-----------------------------------------------------------------------------
(* cancelExecution *)

LEMMA CancelClaimStep ==
  ASSUME IInv, NEW l \in OperatorLanes, NEW k \in Keys, CancelClaim(l, k)
  PROVE  Moves
<1> DEFINE new == Staged(k, "CANCEL_REQUESTED")
           n == At("cancelPayout", k, exec[k].version + 1)
<1>1. /\ Request /\ Stripe(k) /\ exec[k].status = "PROCESSING" /\ exec[k].transfer
      /\ exec[k].stage \in Cancellable /\ Stored(k, new)
      /\ lane' = [lane EXCEPT ![l] = n]
      /\ UNCHANGED <<withdrawal, claim, balanceVars, inbox, provider, deliveries,
                     faults>>
  BY DEF CancelClaim
<1>2. /\ new \in ExecutionRows /\ new.stage = "CANCEL_REQUESTED"
      /\ new.status = exec[k].status /\ new.transfer = exec[k].transfer
      /\ new.payout = exec[k].payout /\ new.provider = exec[k].provider
  BY StagedRow DEF Stages, Cancellable
<1>3. RowOK(exec[k], claim[k], provider[k]) /\ exec[k].version + 1 \in Nat
  BY RowFacts DEF ExecutionRows
<1>4. /\ n \in LaneRecords /\ n.pc = "cancelPayout" /\ n.job = k /\ n.mode = "send"
      /\ n.result = "NONE"
  BY <1>3 DEF At, LaneRecords, Results
<1> HIDE DEF new, n
<1>5. Accepts(exec[k], new)
  <2>1. exec[k].stage = "CANCEL_REQUESTED"
        \/ <<exec[k].stage, "CANCEL_REQUESTED">> \in StageSteps
    BY <1>1 DEF Cancellable, StageSteps
  <2> QED BY <1>1, <1>2, <2>1 DEF Accepts
<1>6. Suits(exec[k], new, claim[k], provider[k])
  <2>1. exec[k].stage \notin BankStages
    BY <1>1 DEF Cancellable, BankStages, BankClaimed
  <2>2. new.stage \notin BankClaimed
    BY <1>2 DEF BankClaimed
  <2> QED BY <1>1, <1>2, <1>3, <2>1, <2>2
          DEF Suits, RowOK, ClaimsFit, StatusFits, ObjectsFit, Stripe
<1>7. /\ KeysMove /\ CallsKept /\ BooksMove /\ Refines
      /\ exec'[k].stage = "CANCEL_REQUESTED" /\ exec'[k].provider = exec[k].provider
  BY <1>1, <1>2, <1>5, <1>6, StoreMoves
<1>8. RequestOK(n, exec'[k], claim'[k], provider'[k])
  BY <1>1, <1>4, <1>7 DEF RequestOK, Payouts, Stripe, Late
<1>9. LanesMove
  BY <1>1, <1>4, <1>7, <1>8, RequestGoes
<1> QED BY <1>1, <1>7, <1>9, InboxStill, RequestSpent DEF Moves

\* A cancellation goes on to record p with pc.
LEMMA CancelGoes ==
  ASSUME IInv, KeysMove, CallsKept, NEW l \in OperatorLanes,
         lane[l].pc \in {"cancelPayout", "reverse"},
         NEW k \in Keys, k = lane[l].job,
         NEW pc \in {"recordPaid", "reverse", "recordReversal"}, Goto(l, pc),
         pc = "recordPaid" => provider'[k].payout = "PAID",
         pc \in {"reverse", "recordReversal"} =>
           Quiesced(exec'[k], claim'[k], provider'[k]),
         pc = "recordReversal" => provider'[k].reversed
  PROVE  LanesMove
<1> DEFINE n == [lane[l] EXCEPT !.pc = pc]
<1>1. RequestOK(lane[l], exec'[k], claim'[k], provider'[k])
  BY StillAtWork
<1>2. n.pc = pc /\ n.result = lane[l].result /\ n.mode = lane[l].mode
  BY AtWork DEF LaneRecords
<1>3. RequestOK(n, exec'[k], claim'[k], provider'[k])
  BY <1>1, <1>2 DEF RequestOK, Quiesced
<1>4. pc \in Steps /\ lane[l].pc # "idle"
  BY DEF Steps
<1> QED BY <1>3, <1>4, Goes

LEMMA CancelPayoutStep ==
  ASSUME IInv, NEW l \in OperatorLanes, CancelPayout(l)
  PROVE  Moves
<1>1. PICK k \in Keys : k = lane[l].job
  BY AtWork DEF CancelPayout
<1> DEFINE payout == IF exec[k].payout THEN provider[k].payout ELSE "NONE"
<1>2. /\ lane[l].pc = "cancelPayout"
      /\ UNCHANGED <<withdrawal, exec, claim, balanceVars, inbox, boundVars>>
      /\ \/ payout = "PAID" /\ Goto(l, "recordPaid") /\ UNCHANGED provider
         \/ /\ payout = "PENDING" /\ Goto(l, "reverse")
            /\ provider' = [provider EXCEPT ![k].payout = "CANCELED"]
         \/ payout = "PENDING" /\ Goto(l, "cancelFailed") /\ UNCHANGED provider
         \/ /\ payout \in {"NONE", "FAILED", "CANCELED"}
            /\ Goto(l, "reverse") /\ UNCHANGED provider
  BY <1>1 DEF CancelPayout, Row, Job
<1>3. /\ exec[k].stage \in Late /\ exec[k].provider = "stripe"
  BY <1>1, <1>2, AtWork DEF RequestOK
<1>4. /\ exec[k] \in ExecutionRows /\ claim[k] \in ClaimRows
      /\ provider[k] \in ProviderRows
      /\ ClaimsFit(exec[k], claim[k]) /\ StatusFits(exec[k])
      /\ ObjectsFit(exec[k], claim[k], provider[k])
  BY RowFacts DEF RowOK
<1>5. CASE payout = "PAID" /\ Goto(l, "recordPaid") /\ UNCHANGED provider
  <2>1. KeysMove /\ CallsKept /\ BooksMove /\ Refines
    BY <1>2, <1>5, NoRowMoves
  <2>2. provider'[k].payout = "PAID"
    BY <1>5
  <2>3. LanesMove
    BY <1>1, <1>2, <1>5, <2>1, <2>2, CancelGoes
  <2> QED BY <1>2, <2>1, <2>3, InboxStill, BoundsStill DEF Moves
<1>6. CASE /\ payout = "PENDING" /\ Goto(l, "reverse")
           /\ provider' = [provider EXCEPT ![k].payout = "CANCELED"]
  <2> DEFINE p == [provider[k] EXCEPT !.payout = "CANCELED"]
  <2>1. /\ p \in ProviderRows /\ p.payout = "CANCELED"
        /\ p.payouts = provider[k].payouts /\ p.transfers = provider[k].transfers
        /\ p.answer = provider[k].answer /\ p.reversed = provider[k].reversed
    BY <1>4 DEF ProviderRows
  <2>2. provider' = [provider EXCEPT ![k] = p]
    BY <1>6, Types DEF IInv
  <2>3. provider[k].payout = "PENDING"
    BY <1>6
  <2> HIDE DEF p
  <2>4. RowOK(exec[k], claim[k], p)
    BY <1>4, <2>1, <2>3 DEF RowOK, ObjectsFit, Quiesced, NoObjects
  <2>5. KeyMoves(exec[k], claim[k], provider[k], exec[k], claim[k], p)
    BY <2>1, <2>3 DEF KeyMoves, Quiesced
  <2>6. KeysMove /\ CallsKept /\ BooksMove /\ Refines
    BY <1>2, <2>1, <2>2, <2>3, <2>4, <2>5, ObjectMoves
  <2>7. provider'[k] = p
    BY <2>2, Types DEF IInv
  <2>8. Quiesced(exec'[k], claim'[k], provider'[k])
    BY <1>2, <1>3, <2>1, <2>7 DEF Quiesced
  <2>9. LanesMove
    BY <1>1, <1>2, <1>6, <2>6, <2>8, CancelGoes
  <2> QED BY <1>2, <2>6, <2>9, InboxStill, BoundsStill DEF Moves
<1>7. CASE Goto(l, "cancelFailed") /\ UNCHANGED provider
  <2>1. KeysMove /\ CallsKept /\ BooksMove /\ Refines
    BY <1>2, <1>7, NoRowMoves
  <2>2. LanesMove
    BY <1>2, <1>7, <2>1, GoesPlain
  <2> QED BY <1>2, <2>1, <2>2, InboxStill, BoundsStill DEF Moves
<1>8. CASE /\ payout \in {"NONE", "FAILED", "CANCELED"}
           /\ Goto(l, "reverse") /\ UNCHANGED provider
  <2>1. KeysMove /\ CallsKept /\ BooksMove /\ Refines
    BY <1>2, <1>8, NoRowMoves
  <2>2. Quiesced(exec[k], claim[k], provider[k])
    <3>1. CASE exec[k].payout
      <4>1. provider[k].payouts > 0
        BY <1>4, <3>1 DEF ObjectsFit
      <4>2. provider[k].payout # "NONE"
        BY <1>4, <4>1 DEF ObjectsFit
      <4> QED BY <1>3, <1>8, <3>1, <4>2 DEF Quiesced
    <3>2. CASE ~exec[k].payout
      <4>1. claim[k].bank = "none"
        BY <1>3, <1>4, <3>2 DEF ClaimsFit, Late, BankStages, BankClaimed
      <4>2. provider[k].payouts = 0
        BY <1>3, <1>4, <4>1 DEF ObjectsFit, ProviderRows
      <4> QED BY <1>3, <1>4, <4>1, <4>2 DEF Quiesced, ObjectsFit
    <3> QED BY <3>1, <3>2
  <2>3. LanesMove
    BY <1>1, <1>2, <1>8, <2>1, <2>2, CancelGoes
  <2> QED BY <1>2, <2>1, <2>3, InboxStill, BoundsStill DEF Moves
<1> QED BY <1>2, <1>5, <1>6, <1>7, <1>8

\* The transfer is taken back once no payout is under way.
LEMMA ReverseMoves ==
  ASSUME IInv, NEW k \in Keys, Quiesced(exec[k], claim[k], provider[k]),
         provider' = [provider EXCEPT ![k].reversed = TRUE],
         UNCHANGED <<withdrawal, exec, claim, balanceVars>>
  PROVE  /\ KeysMove /\ CallsKept /\ BooksMove /\ Refines
         /\ Quiesced(exec'[k], claim'[k], provider'[k]) /\ provider'[k].reversed
<1>1. /\ exec[k] \in ExecutionRows /\ claim[k] \in ClaimRows
      /\ provider[k] \in ProviderRows
      /\ ClaimsFit(exec[k], claim[k]) /\ StatusFits(exec[k])
      /\ ObjectsFit(exec[k], claim[k], provider[k])
  BY RowFacts DEF RowOK
<1> DEFINE p == [provider[k] EXCEPT !.reversed = TRUE]
<1>2. /\ p \in ProviderRows /\ p.payout = provider[k].payout
      /\ p.payouts = provider[k].payouts /\ p.transfers = provider[k].transfers
      /\ p.answer = provider[k].answer /\ p.reversed = TRUE
  BY <1>1 DEF ProviderRows
<1>3. provider' = [provider EXCEPT ![k] = p]
  BY Types DEF IInv
<1> HIDE DEF p
<1>4. Quiesced(exec[k], claim[k], p)
  BY <1>2 DEF Quiesced
<1>5. claim[k].send # "none"
  <2>1. exec[k].stage \notin Before
    BY DEF Quiesced, Late, Before, PreProvider
  <2> QED BY <1>1, <2>1 DEF ClaimsFit
<1>6. RowOK(exec[k], claim[k], p)
  BY <1>1, <1>2, <1>4, <1>5 DEF RowOK, ObjectsFit
<1>7. KeyMoves(exec[k], claim[k], provider[k], exec[k], claim[k], p)
  BY <1>2, <1>4 DEF KeyMoves
<1>8. KeysMove /\ CallsKept /\ BooksMove /\ Refines
  <2>1. p \in ProviderRows /\ ((p.payout = "PAID") <=> (provider[k].payout = "PAID"))
    BY <1>2
  <2> QED BY <1>3, <1>6, <1>7, <2>1, ObjectMoves
<1>9. provider'[k] = p
  BY <1>3, Types DEF IInv
<1> QED BY <1>2, <1>4, <1>8, <1>9

LEMMA CancelReverseStep ==
  ASSUME IInv, NEW l \in OperatorLanes, CancelReverse(l)
  PROVE  Moves
<1>1. PICK k \in Keys : k = lane[l].job
  BY AtWork DEF CancelReverse
<1>2. /\ lane[l].pc = "reverse" /\ Goto(l, "recordReversal")
      /\ provider' = [provider EXCEPT ![k].reversed = TRUE]
      /\ UNCHANGED <<withdrawal, exec, claim, balanceVars, inbox, boundVars>>
  BY <1>1 DEF CancelReverse, Job
<1>3. Quiesced(exec[k], claim[k], provider[k])
  BY <1>1, <1>2, AtWork DEF RequestOK
<1>4. /\ KeysMove /\ CallsKept /\ BooksMove /\ Refines
      /\ Quiesced(exec'[k], claim'[k], provider'[k]) /\ provider'[k].reversed
  BY <1>2, <1>3, ReverseMoves
<1>5. LanesMove
  BY <1>1, <1>2, <1>4, CancelGoes
<1> QED BY <1>2, <1>4, <1>5, InboxStill, BoundsStill DEF Moves

LEMMA CancelCallFailsStep ==
  ASSUME IInv, NEW l \in OperatorLanes, CancelCallFails(l)
  PROVE  Moves
<1>1. PICK k \in Keys : k = lane[l].job
  BY AtWork DEF CancelCallFails
<1>2. /\ lane[l].pc \in {"cancelPayout", "reverse"} /\ Goto(l, "cancelFailed") /\ Fault
      /\ \/ UNCHANGED provider
         \/ /\ lane[l].pc = "reverse"
            /\ provider' = [provider EXCEPT ![k].reversed = TRUE]
      /\ UNCHANGED <<withdrawal, exec, claim, balanceVars, inbox, requests,
                     deliveries>>
  BY <1>1 DEF CancelCallFails, Job
<1>3. lane[l].pc = "reverse" => Quiesced(exec[k], claim[k], provider[k])
  BY <1>1, AtWork DEF RequestOK
<1>4. KeysMove /\ CallsKept /\ BooksMove /\ Refines
  BY <1>2, <1>3, NoRowMoves, ReverseMoves
<1>5. LanesMove
  BY <1>2, <1>4, GoesPlain
<1> QED BY <1>2, <1>4, <1>5, InboxStill, FaultSpent DEF Moves

LEMMA CancelFailedStep ==
  ASSUME IInv, NEW l \in OperatorLanes, CancelFailed(l)
  PROVE  Moves
<1>1. PICK k \in Keys : k = lane[l].job
  BY AtWork DEF CancelFailed
<1>2. /\ Rest(l) /\ l \in Lanes
      /\ UNCHANGED <<withdrawal, claim, balanceVars, inbox, provider, boundVars>>
  BY DEF CancelFailed, Lanes
<1>3. KeysMove /\ CallsKept /\ BooksMove /\ Refines
  <2>1. CASE Stored(k, exec[k]) /\ exec[k].status = "PROCESSING"
    BY <1>2, <2>1, TouchMoves
  <2>2. CASE UNCHANGED exec
    BY <1>2, <2>2, NoRowMoves
  <2> QED BY <1>1, <2>1, <2>2 DEF CancelFailed, Holds, Row, Job
<1> QED BY <1>2, <1>3, LaneRests, InboxStill, BoundsStill DEF Moves

LEMMA CancelRecordPaidStep ==
  ASSUME IInv, NEW l \in OperatorLanes, CancelRecordPaid(l)
  PROVE  Moves
<1>1. PICK k \in Keys : k = lane[l].job
  BY AtWork DEF CancelRecordPaid
<1>2. /\ lane[l].pc = "recordPaid" /\ l \in Lanes
      /\ UNCHANGED <<withdrawal, claim, balanceVars, inbox, provider, boundVars>>
  BY DEF CancelRecordPaid, Lanes
<1>3. CASE Holds(l, {"CANCEL_REQUESTED"})
  <2> DEFINE new == Staged(k, "BANK_PAID")
             n == [lane[l] EXCEPT !.pc = "finalize", !.mode = "recover"]
  <2>1. /\ exec[k].status = "PROCESSING" /\ exec[k].stage = "CANCEL_REQUESTED"
        /\ Stored(k, new)
        /\ lane' = [lane EXCEPT ![l].pc = "finalize", ![l].mode = "recover"]
    BY <1>1, <1>3 DEF CancelRecordPaid, Holds, Row, Job
  <2>2. /\ new \in ExecutionRows /\ new.stage = "BANK_PAID"
        /\ new.status = exec[k].status /\ new.transfer = exec[k].transfer
        /\ new.payout = exec[k].payout /\ new.provider = exec[k].provider
    BY StagedRow DEF Stages
  <2>3. RowOK(exec[k], claim[k], provider[k])
    BY RowFacts
  <2>4. lane[l] \in LaneRecords
    BY <1>2, AtWork
  <2>5. /\ n \in LaneRecords /\ n.pc = "finalize" /\ n.job = k
        /\ n.mode = "recover" /\ n.result = lane[l].result
    BY <1>1, <2>4 DEF LaneRecords
  <2>6. lane' = [lane EXCEPT ![l] = n]
    BY <1>2, <2>1, Types DEF IInv
  <2> HIDE DEF new, n
  <2>7. Accepts(exec[k], new)
    BY <2>1, <2>2 DEF Accepts, StageSteps
  <2>8. exec[k].stage \in StripeStages /\ exec[k].stage \notin BankStages
    BY <2>1 DEF StripeStages, BankStages, BankClaimed
  <2>9. Suits(exec[k], new, claim[k], provider[k])
    BY <2>2, <2>3, <2>8
       DEF Suits, RowOK, ClaimsFit, StatusFits, ObjectsFit, BankClaimed
  <2>10. KeysMove /\ CallsKept /\ BooksMove /\ Refines
    BY <1>2, <2>1, <2>2, <2>7, <2>9, StoreMoves
  <2>11. RequestOK(lane[l], exec'[k], claim'[k], provider'[k])
    BY <1>1, <1>2, <2>10, StillAtWork
  <2>12. RequestOK(n, exec'[k], claim'[k], provider'[k])
    BY <1>2, <2>5, <2>11 DEF RequestOK
  <2>13. LanesMove
    BY <2>5, <2>6, <2>10, <2>12, RequestGoes
  <2> QED BY <1>2, <2>10, <2>13, InboxStill, BoundsStill DEF Moves
<1>4. CASE ~Holds(l, {"CANCEL_REQUESTED"})
  <2>1. UNCHANGED exec /\ Rest(l)
    BY <1>4 DEF CancelRecordPaid
  <2>2. KeysMove /\ CallsKept /\ BooksMove /\ Refines
    BY <1>2, <2>1, NoRowMoves
  <2> QED BY <1>2, <2>1, <2>2, LaneRests, InboxStill, BoundsStill DEF Moves
<1> QED BY <1>3, <1>4

LEMMA CancelRecordReversalStep ==
  ASSUME IInv, NEW l \in OperatorLanes, CancelRecordReversal(l)
  PROVE  Moves
<1>1. PICK k \in Keys : k = lane[l].job
  BY AtWork DEF CancelRecordReversal
<1>2. /\ lane[l].pc = "recordReversal" /\ Rest(l) /\ l \in Lanes
      /\ UNCHANGED <<claim, balanceVars, inbox, provider, boundVars>>
  BY DEF CancelRecordReversal, Lanes
<1>3. Quiesced(exec[k], claim[k], provider[k]) /\ provider[k].reversed
  BY <1>1, <1>2, AtWork DEF RequestOK
<1>4. KeysMove /\ CallsKept /\ BooksMove /\ Refines
  <2>1. CASE UNCHANGED <<exec, withdrawal>>
    BY <1>2, <2>1, NoRowMoves
  <2>2. CASE Holds(l, {"CANCEL_REQUESTED"})
    <3> DEFINE r == [exec[k] EXCEPT !.status = "CANCELLED",
                                    !.stage = "CANCELLED_REVERSED",
                                    !.version = exec[k].version + 1]
    <3>1. /\ exec[k].status = "PROCESSING" /\ exec[k].stage = "CANCEL_REQUESTED"
          /\ Stored(k, [exec[k] EXCEPT !.status = "CANCELLED",
                                       !.stage = "CANCELLED_REVERSED"])
          /\ withdrawal[k[1]] = "PROCESSING"
          /\ withdrawal' = [withdrawal EXCEPT ![k[1]] = "APPROVED"]
      BY <1>1, <2>2 DEF CancelRecordReversal, Holds, Row, Job
    <3>2. /\ exec[k] \in ExecutionRows /\ exec[k].version + 1 \in Nat
          /\ ClaimsFit(exec[k], claim[k]) /\ StatusFits(exec[k])
          /\ ObjectsFit(exec[k], claim[k], provider[k])
      BY RowFacts DEF RowOK, ExecutionRows
    <3>3. /\ r \in ExecutionRows /\ r.stage = "CANCELLED_REVERSED"
          /\ r.status = "CANCELLED" /\ r.transfer = exec[k].transfer
          /\ r.payout = exec[k].payout /\ r.provider = exec[k].provider
          /\ r.version = exec[k].version + 1
      BY <3>2 DEF ExecutionRows, Stages, ExecutionStatuses
    <3>4. exec' = [exec EXCEPT ![k] = r]
      BY <3>1, <3>2, Types DEF Stored, IInv, ExecutionRows
    <3> HIDE DEF r
    <3>5. Quiesced(r, claim[k], provider[k])
      BY <1>3, <3>3 DEF Quiesced, Late
    <3>6. RowOK(r, claim[k], provider[k])
      <4>1. exec[k].stage \notin Before /\ exec[k].stage \notin BankStages
            /\ r.stage \notin Before /\ r.stage \notin BankStages
        BY <3>1, <3>3 DEF Before, PreProvider, BankStages, BankClaimed
      <4>2. ClaimsFit(r, claim[k])
        BY <3>2, <3>3, <4>1 DEF ClaimsFit
      <4>3. StatusFits(r)
        BY <1>3, <3>3 DEF StatusFits, Quiesced
      <4>4. ObjectsFit(r, claim[k], provider[k])
        BY <1>3, <3>2, <3>3, <3>5 DEF ObjectsFit
      <4> QED BY <4>2, <4>3, <4>4 DEF RowOK
    <3>7. KeyMoves(exec[k], claim[k], provider[k], r, claim[k], provider[k])
      <4>1. Accepts(exec[k], r)
        BY <3>1, <3>3 DEF Accepts, StageSteps
      <4>2. r.version > exec[k].version
        BY <3>2, <3>3 DEF ExecutionRows
      <4>3. r.stage \in Late
        BY <3>3 DEF Late
      <4> QED BY <3>3, <3>5, <4>1, <4>2, <4>3 DEF KeyMoves
    <3>8. KeysMove
      BY <1>2, <3>3, <3>4, <3>6, <3>7, RowChange
    <3>9. BooksMove /\ Refines
      BY <1>2, <3>1, <3>3, <3>4, ApprovedAgain
    <3> QED BY <1>2, <3>8, <3>9, ClaimsUnchanged
  <2> QED BY <2>1, <2>2 DEF CancelRecordReversal
<1> QED BY <1>2, <1>4, LaneRests, InboxStill, BoundsStill DEF Moves

-----------------------------------------------------------------------------
(* The status job *)

\* The lane of a run under way.
LEMMA Sweeping ==
  ASSUME IInv, NEW l \in StatusLanes, lane[l].pc # "idle"
  PROVE  /\ l \in Lanes /\ lane[l] \in LaneRecords /\ lane[l].job \in Keys
         /\ SweepOK(lane[l], exec[lane[l].job], provider[lane[l].job])
<1>1. l \in Lanes /\ l \notin OperatorLanes /\ l \notin InboxLanes
  BY ConstantsAssumption DEF Lanes
<1>2. LaneOK(l, lane[l], exec, claim, provider) /\ lane[l] \in LaneRecords
  BY <1>1, Types DEF IInv, LanesOK
<1> QED BY <1>1, <1>2 DEF LaneOK

\* A run takes up an execution.
LEMMA SweepStarts ==
  ASSUME IInv, NEW l \in StatusLanes, NEW k \in Keys, NEW n \in LaneRecords,
         n.job = k, lane' = [lane EXCEPT ![l] = n],
         SweepOK(n, exec[k], provider[k]),
         UNCHANGED <<withdrawal, exec, claim, balanceVars, inbox, provider,
                     boundVars>>
  PROVE  Moves
<1>1. KeysMove /\ CallsKept /\ BooksMove /\ Refines
  BY NoRowMoves
<1>2. l \in Lanes /\ LaneOK(l, n, exec', claim', provider')
  BY DEF Lanes, LaneOK
<1>3. LanesMove
  BY <1>1, <1>2, LaneChange
<1> QED BY <1>1, <1>3, InboxStill, BoundsStill DEF Moves

LEMMA PromoteSelectStep ==
  ASSUME IInv, NEW l \in StatusLanes, NEW k \in Keys, PromoteSelect(l, k)
  PROVE  Moves
<1> DEFINE n == At("promote", k, exec[k].version)
<1>1. exec[k].version \in Nat
  BY RowFacts DEF ExecutionRows
<1>2. n \in LaneRecords /\ n.job = k /\ n.pc = "promote"
  BY <1>1 DEF At, LaneRecords, Results
<1>3. SweepOK(n, exec[k], provider[k])
  BY <1>2 DEF SweepOK
<1>4. lane' = [lane EXCEPT ![l] = n]
  BY DEF PromoteSelect
<1> HIDE DEF n
<1> QED BY <1>2, <1>3, <1>4, SweepStarts DEF PromoteSelect

LEMMA PollReadStep ==
  ASSUME IInv, NEW l \in StatusLanes, NEW k \in Keys, PollRead(l, k)
  PROVE  Moves
<1> DEFINE n == [At("pollApply", k, exec[k].version) EXCEPT !.result = PollAnswer(k)]
<1>1. exec[k].version \in Nat
  BY RowFacts DEF ExecutionRows
<1>2. /\ PollAnswer(k) \in {"COMPLETED", "FAILED", "PROCESSING"}
      /\ PollAnswer(k) = "COMPLETED" => provider[k].payout = "PAID"
  BY DEF PollAnswer
<1>3. /\ n \in LaneRecords /\ n.job = k /\ n.pc = "pollApply"
      /\ n.result = PollAnswer(k)
  BY <1>1, <1>2 DEF At, LaneRecords, Results
<1>4. SweepOK(n, exec[k], provider[k])
  BY <1>2, <1>3 DEF SweepOK, PollRead
<1>5. lane' = [lane EXCEPT ![l] = n]
  BY DEF PollRead
<1> HIDE DEF n
<1> QED BY <1>3, <1>4, <1>5, SweepStarts DEF PollRead

LEMMA PromoteStep ==
  ASSUME IInv, NEW l \in StatusLanes, Promote(l)
  PROVE  Moves
<1>1. PICK k \in Keys : k = lane[l].job
  BY Sweeping DEF Promote
<1>2. /\ Rest(l) /\ l \in Lanes
      /\ UNCHANGED <<withdrawal, claim, balanceVars, inbox, provider, boundVars>>
  BY DEF Promote, Lanes
<1>3. KeysMove /\ CallsKept /\ BooksMove /\ Refines
  <2>1. CASE UNCHANGED exec
    BY <1>2, <2>1, NoRowMoves
  <2>2. CASE /\ exec[k].status = "PROCESSING"
             /\ exec[k].stage \in {"TRANSFER_CREATED", "BANK_PAYOUT_CREATED"}
             /\ Accepts(exec[k], Staged(k, Promoted(exec[k].stage)))
             /\ Stored(k, Staged(k, Promoted(exec[k].stage)))
    <3> DEFINE s == Promoted(exec[k].stage)
               new == Staged(k, s)
    <3>1. s \in {"TRANSFER_RECOVERY_REQUIRED", "BANK_PAYOUT_RECOVERY_REQUIRED"}
      BY DEF Promoted
    <3>2. s \in Stages
      BY <3>1 DEF Stages, Cancellable
    <3> HIDE DEF s
    <3>3. /\ new \in ExecutionRows /\ new.stage = s
          /\ new.status = exec[k].status /\ new.transfer = exec[k].transfer
          /\ new.payout = exec[k].payout /\ new.provider = exec[k].provider
      BY <3>2, StagedRow
    <3>4. Accepts(exec[k], new) /\ Stored(k, new)
      BY <2>2 DEF s
    <3>5. RowOK(exec[k], claim[k], provider[k])
      BY RowFacts
    <3> HIDE DEF new
    <3>6. exec[k].stage \in StripeStages /\ exec[k].stage \notin BankStages
      BY <2>2 DEF StripeStages, BankStages, BankClaimed
    <3>7. Suits(exec[k], new, claim[k], provider[k])
      BY <3>1, <3>3, <3>5, <3>6
         DEF Suits, RowOK, ClaimsFit, StatusFits, ObjectsFit, BankClaimed
    <3> QED BY <1>2, <2>2, <3>3, <3>4, <3>7, StoreMoves
  <2> QED BY <1>1, <2>1, <2>2 DEF Promote, Holds, Store, Row, Job
<1> QED BY <1>2, <1>3, LaneRests, InboxStill, BoundsStill DEF Moves

\* failExecution on a payout the row knows.
LEMMA FailMoves ==
  ASSUME IInv, NEW k \in Keys, exec[k].payout, FailHolds(k),
         Accepts(exec[k], FailedRow(k)), Stored(k, FailedRow(k)),
         UNCHANGED <<withdrawal, claim, balanceVars, provider>>
  PROVE  KeysMove /\ CallsKept /\ BooksMove /\ Refines
<1> DEFINE s == IF Stripe(k) /\ exec[k].transfer
                THEN "BANK_PAYOUT_RECOVERY_REQUIRED"
                ELSE "PROVIDER_FAILURE_REVIEW_REQUIRED"
           new == Staged(k, s)
<1>1. /\ s \in {"BANK_PAYOUT_RECOVERY_REQUIRED", "PROVIDER_FAILURE_REVIEW_REQUIRED"}
  OBVIOUS
<1>2. Accepts(exec[k], new) /\ Stored(k, new)
  BY DEF FailedRow
<1> HIDE DEF s
<1>3. s \in Stages
  BY <1>1 DEF Stages, Cancellable
<1>4. /\ new \in ExecutionRows /\ new.stage = s
      /\ new.status = exec[k].status /\ new.transfer = exec[k].transfer
      /\ new.payout = exec[k].payout /\ new.provider = exec[k].provider
  BY <1>3, StagedRow
<1>5. RowOK(exec[k], claim[k], provider[k])
  BY RowFacts
<1> HIDE DEF new
<1>6. Suits(exec[k], new, claim[k], provider[k])
  BY <1>1, <1>4, <1>5 DEF Suits, RowOK, StatusFits, ObjectsFit, BankClaimed
<1> QED BY <1>2, <1>4, <1>6, StoreMoves DEF FailHolds

LEMMA PollApplyStep ==
  ASSUME IInv, NEW l \in StatusLanes, PollApply(l)
  PROVE  Moves
<1>1. PICK k \in Keys : k = lane[l].job
  BY Sweeping DEF PollApply
<1>2. /\ lane[l].pc = "pollApply" /\ Rest(l) /\ l \in Lanes
      /\ UNCHANGED <<claim, withdrawable, inbox, provider, boundVars>>
  BY DEF PollApply, Lanes
<1>3. exec[k].payout /\ (lane[l].result = "COMPLETED" => provider[k].payout = "PAID")
  BY <1>1, <1>2, Sweeping DEF SweepOK
<1>4. KeysMove /\ CallsKept /\ BooksMove /\ Refines
  <2>1. CASE lane[l].result = "COMPLETED" /\ Finalize(k)
    BY <1>2, <1>3, <2>1, FinalizeMoves
  <2>2. CASE FinalizeSkips(k)
    BY <1>2, <2>2, SkipMoves
  <2>3. CASE UNCHANGED <<exec, withdrawal, lifetimePaid>>
    BY <1>2, <2>3, NoRowMoves DEF balanceVars
  <2>4. CASE /\ FailHolds(k) /\ Accepts(exec[k], FailedRow(k))
             /\ Stored(k, FailedRow(k)) /\ UNCHANGED <<withdrawal, lifetimePaid>>
    BY <1>2, <1>3, <2>4, FailMoves DEF balanceVars
  <2> QED BY <1>1, <2>1, <2>2, <2>3, <2>4 DEF PollApply, Store, Job
<1> QED BY <1>2, <1>4, LaneRests, InboxStill, BoundsStill DEF Moves

-----------------------------------------------------------------------------
(* The webhook inbox *)

LEMMA InboxTypes ==
  ASSUME IInv
  PROVE  inbox \in [Events -> InboxRows]
  BY DEF IInv, TypeOK, InboxRows

LEMMA ReceiveStep ==
  ASSUME IInv, NEW e \in Events, Receive(e)
  PROVE  Moves
<1>1. KeysMove /\ CallsKept /\ BooksMove /\ Refines
  BY NoRowMoves DEF Receive
<1>2. LanesMove
  BY <1>1, LanesStill DEF Receive
<1>3. BoundsMove
  <2>1. deliveries + 1 \in Nat
    BY DEF IInv, TypeOK
  <2> QED BY <2>1 DEF IInv, TypeOK, Receive, BoundsMove
<1>4. InboxMoves
  <2>1. CASE inbox' = inbox
    BY <1>1, <2>1, InboxStill
  <2>2. CASE inbox' = [inbox EXCEPT ![e] = [status |-> "PENDING", attempts |-> 0,
                                            due |-> TRUE]]
    <3>1. inbox' \in [Events -> InboxRows]
      BY <2>2, InboxTypes DEF InboxRows
    <3>2. ASSUME NEW f \in Events
          PROVE  EventOK(f, inbox'[f].status, exec'[f.key], provider'[f.key])
      <4>1. CASE f = e
        <5>1. exec[e.key].provider = "stripe"
              /\ (e.kind = "paid" => provider[e.key].payout = "PAID")
          BY DEF Receive, Stripe
        <5> QED BY <4>1, <5>1 DEF EventOK, Receive
      <4>2. CASE f # e
        <5>1. inbox'[f] = inbox[f]
          BY <2>2, <4>2, InboxTypes
        <5> QED BY <1>1, <5>1, EventStable DEF EventOK
      <4> QED BY <4>1, <4>2
    <3> QED BY <3>1, <3>2 DEF InboxMoves
  <2> QED BY <2>1, <2>2 DEF Receive
<1> QED BY <1>1, <1>2, <1>3, <1>4 DEF Moves

LEMMA InboxRecoverStep ==
  ASSUME IInv, NEW l \in InboxLanes, InboxRecover(l)
  PROVE  Moves
<1>1. KeysMove /\ CallsKept /\ BooksMove /\ Refines
  BY NoRowMoves DEF InboxRecover
<1>2. LanesMove
  BY <1>1, LanesStill DEF InboxRecover
<1>3. InboxMoves
  <2>1. ASSUME NEW e \in Events
        PROVE  /\ inbox'[e] \in InboxRows
               /\ EventOK(e, inbox'[e].status, exec'[e.key], provider'[e.key])
    <3>1. inbox'[e] = Recovered(inbox[e]) /\ inbox[e] \in InboxRows
      BY InboxTypes DEF InboxRecover
    <3>2. inbox'[e] \in InboxRows
          /\ (inbox'[e].status # "ABSENT" => inbox[e].status # "ABSENT")
      BY <3>1 DEF Recovered, Stale, InboxRows
    <3> QED BY <1>1, <3>2, EventStable DEF EventOK
  <2> QED BY <2>1 DEF InboxMoves, InboxRecover
<1> QED BY <1>1, <1>2, <1>3, BoundsStill DEF Moves, InboxRecover

LEMMA InboxClaimStep ==
  ASSUME IInv, NEW l \in InboxLanes, NEW e \in Events, InboxClaim(l, e)
  PROVE  Moves
<1> DEFINE i == Claimed(inbox[e])
           n == At("inbox", e, inbox[e].attempts + 1)
<1>1. /\ Claimable(inbox[e]) /\ inbox' = [inbox EXCEPT ![e] = i]
      /\ lane' = [lane EXCEPT ![l] = n]
      /\ UNCHANGED <<withdrawal, exec, claim, balanceVars, provider, boundVars>>
  BY InboxTypes DEF InboxClaim
<1>2. inbox[e] \in InboxRows /\ inbox[e].attempts + 1 \in Nat
  BY InboxTypes DEF InboxRows
<1>3. i \in InboxRows /\ inbox[e].status # "ABSENT"
  BY <1>1, <1>2 DEF Claimed, Claimable, InboxRows
<1>4. n \in LaneRecords /\ n.pc = "inbox" /\ n.job = e
  BY <1>2 DEF At, LaneRecords, Results
<1> HIDE DEF i, n
<1>5. KeysMove /\ CallsKept /\ BooksMove /\ Refines
  BY <1>1, NoRowMoves
<1>6. l \in Lanes /\ LaneOK(l, n, exec', claim', provider')
  BY <1>4 DEF Lanes, LaneOK
<1>7. LanesMove
  BY <1>1, <1>4, <1>5, <1>6, LaneChange
<1>8. InboxMoves
  BY <1>1, <1>3, <1>5, InboxChange
<1> QED BY <1>1, <1>5, <1>7, <1>8, BoundsStill DEF Moves

\* The event of a run under way.
LEMMA Handling ==
  ASSUME IInv, NEW l \in InboxLanes, lane[l].pc # "idle"
  PROVE  l \in Lanes /\ lane[l].job \in Events
<1>1. l \in Lanes /\ l \notin OperatorLanes /\ l \notin StatusLanes
  BY ConstantsAssumption DEF Lanes
<1>2. LaneOK(l, lane[l], exec, claim, provider)
  BY <1>1 DEF IInv, LanesOK
<1> QED BY <1>1, <1>2 DEF LaneOK

\* Updates of the event the run owns.
LEMMA ReturnMoves ==
  ASSUME IInv, KeysMove, NEW e \in Events, inbox[e].status = "PROCESSING",
         NEW verdict, inbox' = [inbox EXCEPT ![e] = Returned(@, verdict)]
  PROVE  InboxMoves
<1> DEFINE i == Returned(inbox[e], verdict)
<1>1. inbox' = [inbox EXCEPT ![e] = i]
  BY InboxTypes
<1>2. i \in InboxRows
  BY InboxTypes DEF Returned, InboxRows
<1> QED BY <1>1, <1>2, InboxChange

LEMMA EndMoves ==
  ASSUME IInv, KeysMove, NEW l \in InboxLanes, NEW e \in Events, e = lane[l].job,
         inbox[e].status = "PROCESSING",
         NEW s \in {"PROCESSED", "QUARANTINED"}, Ended(l, s)
  PROVE  InboxMoves
<1> DEFINE i == [inbox[e] EXCEPT !.status = s, !.due = FALSE]
<1>1. inbox' = [inbox EXCEPT ![e] = i]
  BY InboxTypes DEF Ended, Job
<1>2. i \in InboxRows
  BY InboxTypes DEF InboxRows
<1> QED BY <1>1, <1>2, InboxChange

LEMMA InboxUnmatchedStep ==
  ASSUME IInv, NEW l \in InboxLanes, InboxUnmatched(l)
  PROVE  Moves
<1>1. PICK e \in Events : e = lane[l].job
  BY Handling DEF InboxUnmatched
<1>2. /\ l \in Lanes /\ Rest(l) /\ inbox[e].status = "PROCESSING"
      /\ \E verdict \in {"RETRY", "QUARANTINE"} :
           inbox' = [inbox EXCEPT ![e] = Returned(@, verdict)]
      /\ UNCHANGED <<withdrawal, exec, claim, balanceVars, provider, boundVars>>
  BY <1>1 DEF InboxUnmatched, Lanes, Owned, OwnedBy, Job
<1>3. KeysMove /\ CallsKept /\ BooksMove /\ Refines
  BY <1>2, NoRowMoves
<1>4. InboxMoves
  BY <1>2, <1>3, ReturnMoves
<1> QED BY <1>2, <1>3, <1>4, LaneRests, BoundsStill DEF Moves

LEMMA InboxPaidStep ==
  ASSUME IInv, NEW l \in InboxLanes, InboxPaid(l)
  PROVE  Moves
<1>1. PICK e \in Events : e = lane[l].job
  BY Handling DEF InboxPaid
<1>2. PICK k \in Keys : k = e.key
  BY EventKey
<1>3. /\ l \in Lanes /\ Rest(l) /\ inbox[e].status = "PROCESSING" /\ e.kind = "paid"
      /\ \/ Finalize(k) /\ Ended(l, "PROCESSED")
         \/ /\ FinalizeSkips(k)
            /\ Ended(l, IF exec[k].status = "COMPLETED" THEN "PROCESSED"
                        ELSE "QUARANTINED")
      /\ UNCHANGED <<claim, withdrawable, provider, boundVars>>
  BY <1>1, <1>2 DEF InboxPaid, Lanes, Owned, OwnedBy, Job
<1>4. provider[k].payout = "PAID"
  BY <1>2, <1>3 DEF IInv, InboxOK, EventOK
<1>5. KeysMove /\ CallsKept /\ BooksMove /\ Refines
  BY <1>3, <1>4, FinalizeMoves, SkipMoves
<1>6. InboxMoves
  <2>1. PICK s \in {"PROCESSED", "QUARANTINED"} : Ended(l, s)
    BY <1>3
  <2> QED BY <1>1, <1>3, <1>5, <2>1, EndMoves
<1> QED BY <1>3, <1>5, <1>6, LaneRests, BoundsStill DEF Moves

LEMMA InboxFailedStep ==
  ASSUME IInv, NEW l \in InboxLanes, InboxFailed(l)
  PROVE  Moves
<1>1. PICK e \in Events : e = lane[l].job
  BY Handling DEF InboxFailed
<1>2. PICK k \in Keys : k = e.key
  BY EventKey
<1>3. /\ l \in Lanes /\ Rest(l) /\ inbox[e].status = "PROCESSING" /\ exec[k].payout
      /\ \/ /\ FailHolds(k) /\ Accepts(exec[k], FailedRow(k))
            /\ Stored(k, FailedRow(k)) /\ Ended(l, "PROCESSED")
         \/ inbox' = [inbox EXCEPT ![e] = Returned(@, "RETRY")] /\ UNCHANGED exec
         \/ Ended(l, "QUARANTINED") /\ UNCHANGED exec
      /\ UNCHANGED <<withdrawal, claim, balanceVars, provider, boundVars>>
  BY <1>1, <1>2 DEF InboxFailed, Lanes, Owned, OwnedBy, Job
<1>4. KeysMove /\ CallsKept /\ BooksMove /\ Refines
  BY <1>3, FailMoves, NoRowMoves
<1>5. InboxMoves
  BY <1>1, <1>3, <1>4, EndMoves, ReturnMoves
<1> QED BY <1>3, <1>4, <1>5, LaneRests, BoundsStill DEF Moves

LEMMA InboxLostStep ==
  ASSUME IInv, NEW l \in InboxLanes, InboxLost(l)
  PROVE  Moves
<1>1. /\ l \in Lanes /\ Rest(l)
      /\ UNCHANGED <<withdrawal, exec, claim, balanceVars, inbox, provider,
                     boundVars>>
  BY DEF InboxLost, Lanes
<1>2. KeysMove /\ CallsKept /\ BooksMove /\ Refines
  BY <1>1, NoRowMoves
<1> QED BY <1>1, <1>2, LaneRests, InboxStill, BoundsStill DEF Moves

LEMMA InboxDueStep ==
  ASSUME IInv, NEW e \in Events, InboxDue(e)
  PROVE  Moves
<1> DEFINE i == [inbox[e] EXCEPT !.due = TRUE]
<1>1. /\ inbox[e].status # "ABSENT" /\ inbox' = [inbox EXCEPT ![e] = i]
      /\ UNCHANGED <<withdrawal, exec, claim, balanceVars, provider, lane, boundVars>>
  BY InboxTypes DEF InboxDue
<1>2. i \in InboxRows
  BY InboxTypes DEF InboxRows
<1> HIDE DEF i
<1>3. KeysMove /\ CallsKept /\ BooksMove /\ Refines
  BY <1>1, NoRowMoves
<1>4. InboxMoves
  BY <1>1, <1>2, <1>3, InboxChange
<1> QED BY <1>1, <1>3, <1>4, LanesStill, BoundsStill DEF Moves


-----------------------------------------------------------------------------
(* Steps of time, of the provider, and crashes *)

\* A claim stays a claim while it ages, and a call under way keeps the key.
LEMMA Ageing ==
  ASSUME NEW age \in Ages, NEW calling \in BOOLEAN
  PROVE  /\ Older(age, calling) \in Ages
         /\ (Older(age, calling) = "none") <=> (age = "none")
         /\ calling /\ age \in {"young", "late"} =>
              Older(age, calling) \in {"young", "late"}
  BY DEF Older, Ages

\* The claims of one execution get older.
LEMMA AgeMoves ==
  ASSUME IInv, NEW k \in Keys, NEW c \in ClaimRows,
         claim' = [claim EXCEPT ![k] = c],
         (c.send = "none") <=> (claim[k].send = "none"),
         (c.bank = "none") <=> (claim[k].bank = "none"),
         Calling("callTransfer", k) /\ claim[k].send \in {"young", "late"}
           => c.send \in {"young", "late"},
         Calling("callBank", k) /\ claim[k].bank \in {"young", "late"}
           => c.bank \in {"young", "late"},
         UNCHANGED <<withdrawal, exec, balanceVars, provider>>
  PROVE  KeysMove /\ CallsKept /\ BooksMove /\ Refines
<1>1. /\ exec[k] \in ExecutionRows /\ provider[k] \in ProviderRows
      /\ RowOK(exec[k], claim[k], provider[k])
  BY RowFacts
<1>2. RowOK(exec[k], c, provider[k])
  BY <1>1 DEF RowOK, ClaimsFit, ObjectsFit, Quiesced
<1>3. KeyMoves(exec[k], claim[k], provider[k], exec[k], c, provider[k])
  BY DEF KeyMoves, Quiesced
<1>4. /\ exec' = [exec EXCEPT ![k] = exec[k]]
      /\ provider' = [provider EXCEPT ![k] = provider[k]]
  BY Types DEF IInv
<1>5. KeysMove
  BY <1>1, <1>2, <1>3, <1>4, KeyChange
<1>6. CallsKept
  <2>1. claim'[k] = c /\ \A j \in Keys : j # k => claim'[j] = claim[j]
    BY Types DEF IInv
  <2> QED BY <2>1 DEF CallsKept, Calling, Job
<1>7. PaidKept
  BY DEF PaidKept
<1> QED BY <1>5, <1>6, <1>7, BooksStill

LEMMA ClaimAgesStep ==
  ASSUME IInv, NEW k \in Keys, ClaimAges(k)
  PROVE  Moves
<1>1. UNCHANGED <<withdrawal, exec, balanceVars, inbox, provider, lane, boundVars>>
  BY DEF ClaimAges
<1>2. claim[k] \in ClaimRows /\ claim[k].send \in Ages /\ claim[k].bank \in Ages
  BY Types DEF IInv, ClaimRows
<1>3. Calling("callTransfer", k) \in BOOLEAN /\ Calling("callBank", k) \in BOOLEAN
  BY DEF Calling
<1>4. KeysMove /\ CallsKept /\ BooksMove /\ Refines
  <2>1. CASE claim' = [claim EXCEPT ![k].send = Older(@, Calling("callTransfer", k))]
    <3>1. PICK age \in Ages :
            /\ age = Older(claim[k].send, Calling("callTransfer", k))
            /\ (age = "none") <=> (claim[k].send = "none")
            /\ Calling("callTransfer", k) /\ claim[k].send \in {"young", "late"}
                 => age \in {"young", "late"}
      BY <1>2, <1>3, Ageing
    <3> DEFINE c == [claim[k] EXCEPT !.send = age]
    <3>2. claim' = [claim EXCEPT ![k] = c]
      <4>1. claim' = [claim EXCEPT ![k] =
                        [claim[k] EXCEPT !.send = Older(claim[k].send, Calling("callTransfer", k))]]
        BY <2>1, Types, Zenon DEF IInv
      <4> QED BY <3>1, <4>1
    <3>3. c \in ClaimRows /\ c.send = age /\ c.bank = claim[k].bank
      BY <1>2, <3>1 DEF ClaimRows
    <3> HIDE DEF c
    <3> QED BY <1>1, <3>1, <3>2, <3>3, AgeMoves
  <2>2. CASE claim' = [claim EXCEPT ![k].bank = Older(@, Calling("callBank", k))]
    <3>1. PICK age \in Ages :
            /\ age = Older(claim[k].bank, Calling("callBank", k))
            /\ (age = "none") <=> (claim[k].bank = "none")
            /\ Calling("callBank", k) /\ claim[k].bank \in {"young", "late"}
                 => age \in {"young", "late"}
      BY <1>2, <1>3, Ageing
    <3> DEFINE c == [claim[k] EXCEPT !.bank = age]
    <3>2. claim' = [claim EXCEPT ![k] = c]
      <4>1. claim' = [claim EXCEPT ![k] =
                        [claim[k] EXCEPT !.bank = Older(claim[k].bank, Calling("callBank", k))]]
        BY <2>2, Types, Zenon DEF IInv
      <4> QED BY <3>1, <4>1
    <3>3. c \in ClaimRows /\ c.bank = age /\ c.send = claim[k].send
      BY <1>2, <3>1 DEF ClaimRows
    <3> HIDE DEF c
    <3> QED BY <1>1, <3>1, <3>2, <3>3, AgeMoves
  <2> QED BY <2>1, <2>2 DEF ClaimAges
<1> QED BY <1>1, <1>4, LanesStill, InboxStill, BoundsStill DEF Moves

LEMMA ProviderSettlesStep ==
  ASSUME IInv, NEW k \in Keys, ProviderSettles(k)
  PROVE  Moves
<1>1. PICK outcome \in {"PAID", "FAILED"} :
        provider' = [provider EXCEPT ![k].payout = outcome]
  BY DEF ProviderSettles
<1>2. /\ provider[k].payout = "PENDING"
      /\ UNCHANGED <<withdrawal, exec, claim, balanceVars, inbox, lane, boundVars>>
  BY DEF ProviderSettles
<1>3. /\ exec[k] \in ExecutionRows /\ provider[k] \in ProviderRows
      /\ RowOK(exec[k], claim[k], provider[k])
  BY RowFacts
<1>4. exec[k].status = "PROCESSING"
  <2>1. exec[k].status \in Open
    BY <1>2, ClosedUnexposed
  <2> QED BY <1>2, <1>3, <2>1 DEF RowOK, ObjectsFit, Open
<1>5. ~Quiesced(exec[k], claim[k], provider[k]) /\ ~provider[k].reversed
  BY <1>2, <1>3 DEF Quiesced, RowOK, ObjectsFit
<1> DEFINE p == [provider[k] EXCEPT !.payout = outcome]
<1>6. /\ p \in ProviderRows /\ p.payout = outcome
      /\ p.transfers = provider[k].transfers /\ p.payouts = provider[k].payouts
      /\ p.answer = provider[k].answer /\ p.reversed = provider[k].reversed
  BY <1>3 DEF ProviderRows
<1>7. provider' = [provider EXCEPT ![k] = p]
  BY <1>1, Types DEF IInv
<1>8. p # NoObjects /\ (claim[k].send = "none" => FALSE)
  BY <1>2, <1>3, <1>6 DEF RowOK, ObjectsFit, NoObjects
<1> HIDE DEF p
<1>9. ObjectsFit(exec[k], claim[k], p)
  BY <1>2, <1>3, <1>4, <1>5, <1>6, <1>8 DEF RowOK, ObjectsFit
<1>10. RowOK(exec[k], claim[k], p)
  BY <1>3, <1>9 DEF RowOK
<1>11. KeyMoves(exec[k], claim[k], provider[k], exec[k], claim[k], p)
  BY <1>2, <1>5, <1>6 DEF KeyMoves
<1>12. KeysMove /\ CallsKept /\ BooksMove /\ Refines
  <2>1. CASE outcome = "PAID"
    BY <1>2, <1>4, <1>6, <1>7, <1>10, <1>11, <2>1, PaymentMoves
  <2>2. CASE outcome # "PAID"
    BY <1>2, <1>6, <1>7, <1>10, <1>11, <2>2, ObjectMoves
  <2> QED BY <2>1, <2>2
<1> QED BY <1>2, <1>12, LanesStill, InboxStill, BoundsStill DEF Moves

LEMMA CrashStep ==
  ASSUME IInv, NEW l \in Lanes, Crash(l)
  PROVE  Moves
<1>1. /\ Fault /\ Rest(l)
      /\ UNCHANGED <<withdrawal, exec, claim, balanceVars, inbox, provider,
                     requests, deliveries>>
  BY DEF Crash
<1>2. KeysMove /\ CallsKept /\ BooksMove /\ Refines
  BY <1>1, NoRowMoves
<1> QED BY <1>1, <1>2, LaneRests, InboxStill, FaultSpent DEF Moves


-----------------------------------------------------------------------------
(* The invariant is inductive *)

LEMMA InitRows ==
  ASSUME Init
  PROVE  /\ exec \in [Keys -> ExecutionRows]
         /\ \A k \in Keys : /\ exec[k] = NoExecution(exec[k].provider)
                            /\ claim[k] = NoClaims /\ provider[k] = NoObjects
<1>1. PICK method \in [Withdrawals -> {"stripe", "manual"}] :
        exec = [k \in Keys |-> NoExecution(method[k[1]])]
  BY DEF Init
<1>2. ASSUME NEW k \in Keys
      PROVE  exec[k] \in ExecutionRows /\ exec[k] = NoExecution(exec[k].provider)
  <2>1. method[k[1]] \in {"stripe", "manual"}
    BY KeyParts
  <2>2. PICK m \in {"stripe", "manual"} : exec[k] = NoExecution(m)
    BY <1>1, <2>1
  <2> QED BY <2>2 DEF NoExecution, ExecutionRows, ExecutionStatuses, Stages,
                      PreProvider
<1> QED BY <1>1, <1>2 DEF Init

LEMMA InitInv == Init => IInv
<1> SUFFICES ASSUME Init PROVE IInv
  OBVIOUS
<1>1. TypeOK
  <2>1. claim \in [Keys -> ClaimRows]
    BY DEF Init, NoClaims, ClaimRows, Ages
  <2>2. provider \in [Keys -> ProviderRows]
    BY DEF Init, NoObjects, ProviderRows
  <2>3. inbox \in [Events -> InboxRows]
    BY DEF Init, NoRow, InboxRows
  <2>4. lane \in [Lanes -> LaneRecords]
    BY DEF Init, Idle, At, LaneRecords, Results
  <2>5. withdrawal \in [Withdrawals -> WithdrawalStatuses]
    BY DEF Init, WithdrawalStatuses
  <2> QED BY <2>1, <2>2, <2>3, <2>4, <2>5, InitRows, ConstantsAssumption
          DEF Init, TypeOK, ClaimRows, ProviderRows, InboxRows
<1>2. RowsOK
  <2>1. ASSUME NEW k \in Keys
        PROVE  RowOK(exec[k], claim[k], provider[k])
    <3>1. /\ exec[k].status = "ABSENT" /\ exec[k].stage = "CREATED"
          /\ exec[k].version = 0 /\ ~exec[k].transfer /\ ~exec[k].payout
      BY InitRows DEF NoExecution
    <3>2. claim[k].send = "none" /\ claim[k].bank = "none" /\ provider[k] = NoObjects
      BY InitRows DEF NoClaims
    <3>3. exec[k].stage \in Before /\ exec[k].stage \notin BankStages
          /\ exec[k].stage \notin StripeStages
      BY <3>1 DEF Before, PreProvider, BankStages, BankClaimed, StripeStages
    <3>4. ClaimsFit(exec[k], claim[k])
      BY <3>1, <3>2, <3>3 DEF ClaimsFit
    <3>5. StatusFits(exec[k])
      BY <3>1, <3>3 DEF StatusFits
    <3>6. ObjectsFit(exec[k], claim[k], provider[k])
      BY <3>1, <3>2 DEF ObjectsFit, NoObjects
    <3> QED BY <3>4, <3>5, <3>6 DEF RowOK
  <2> QED BY <2>1 DEF RowsOK
<1>3. LanesOK
  BY DEF Init, LanesOK, LaneOK, Idle, At
<1>4. InboxOK
  BY DEF Init, InboxOK, EventOK, NoRow
<1>5. WithdrawalsOK
  <2>1. \A k \in Keys : exec[k].status = "ABSENT"
    BY InitRows DEF NoExecution
  <2>2. ASSUME NEW w \in Withdrawals
        PROVE  WithdrawalOK(w, withdrawal[w], exec)
    BY <2>1 DEF Init, WithdrawalOK, Open
  <2>3. ASSUME NEW w \in Withdrawals
        PROVE  Numbered(w, exec)
    <3>1. \A i \in 1..MaxExecutions : exec[<<w, i>>].status = "ABSENT"
      BY <2>1 DEF Keys
    <3>2. 0 \in 0..MaxExecutions
      BY ConstantsAssumption
    <3> QED BY <3>1, <3>2 DEF Numbered
  <2> QED BY <2>2, <2>3 DEF WithdrawalsOK
<1> QED BY <1>1, <1>2, <1>3, <1>4, <1>5 DEF IInv

\* Every action has the shape that preserves the invariant.
LEMMA NextMoves ==
  ASSUME IInv, Next
  PROVE  Moves
<1>1. CASE WithdrawalStep
  BY <1>1, RequestStep, ApproveStep, RejectStep DEF WithdrawalStep
<1>2. ASSUME NEW l \in OperatorLanes, OperatorRequest(l)
      PROVE  Moves
  BY <1>2, ExecuteStartStep, RecoverTransferStep, RecoverBankStep, RetryResumeStep,
     RetryStatusStep, CancelPreProviderStep, CancelClaimStep DEF OperatorRequest
<1>3. ASSUME NEW l \in OperatorLanes, OperatorStep(l)
      PROVE  Moves
  BY <1>3, ExecuteValidateStep, ClaimSendStep, ExecuteAbortStep, CallTransferStep,
     RecordTransferStep, ClaimBankStep, CallBankStep, RecordBankStep,
     FinalizeAnswerStep, ExecuteCaughtStep, ResumeStep, RecoverCaughtStep,
     CancelPayoutStep, CancelReverseStep, CancelFailedStep, CancelRecordPaidStep,
     CancelRecordReversalStep DEF OperatorStep
<1>4. ASSUME NEW l \in OperatorLanes, OperatorFault(l)
      PROVE  Moves
  BY <1>4, CallTransferFailsStep, CallBankFailsStep, CallUntrustedStep,
     RecordFailsStep, CancelCallFailsStep DEF OperatorFault
<1>5. ASSUME NEW l \in StatusLanes, StatusStep(l) \/ StatusSelect(l)
      PROVE  Moves
  BY <1>5, PromoteStep, PollApplyStep, PromoteSelectStep, PollReadStep
     DEF StatusStep, StatusSelect
<1>6. ASSUME NEW l \in InboxLanes, InboxStep(l)
      PROVE  Moves
  BY <1>6, InboxRecoverStep, InboxClaimStep, InboxUnmatchedStep, InboxPaidStep,
     InboxFailedStep, InboxLostStep DEF InboxStep
<1>7. CASE World
  BY <1>7, ClaimAgesStep, ProviderSettlesStep, CompleteManualStep, ReceiveStep,
     InboxDueStep, CrashStep DEF World
<1> QED BY <1>1, <1>2, <1>3, <1>4, <1>5, <1>6, <1>7 DEF Next

LEMMA NextInv ==
  ASSUME IInv, [Next]_vars
  PROVE  IInv'
<1>1. CASE Next
  BY <1>1, NextMoves, MovesPreserve
<1>2. CASE UNCHANGED vars
  <2>1. KeysMove /\ CallsKept /\ BooksMove /\ Refines
    BY <1>2, NoRowMoves DEF vars, balanceVars
  <2>2. LanesMove /\ InboxMoves /\ BoundsMove
    BY <1>2, <2>1, LanesStill, InboxStill, BoundsStill DEF vars, boundVars
  <2> QED BY <2>1, <2>2, MovesPreserve DEF Moves
<1> QED BY <1>1, <1>2

\* Rows, claims, provider objects, lanes, inbox and withdrawals stay consistent
\* with each other, whatever requests, sweeps, webhooks, lost answers and
\* crashes interleave.
THEOREM Invariance == Spec => []IInv
<1>1. IInv /\ [Next]_vars => IInv'
  BY NextInv
<1> QED BY <1>1, InitInv, PTL DEF Spec

\* Every variable keeps its type (payout.service.ts, the payout status worker
\* and the webhook inbox).
THEOREM TypeCorrect == Spec => []TypeOK
<1>1. IInv => TypeOK
  BY DEF IInv
<1> QED BY <1>1, Invariance, PTL

-----------------------------------------------------------------------------
(* What follows for the money *)

\* At most one open execution, and only an open one is exposed.
LEMMA InvPaidOnce ==
  ASSUME IInv
  PROVE  PaidOnce
<1>1. ASSUME NEW k \in Keys
      PROVE  /\ provider[k].transfers <= 1 /\ provider[k].payouts <= 1
             /\ provider[k].reversed => provider[k].payout \notin {"PENDING", "PAID"}
  <2>1. ObjectsFit(exec[k], claim[k], provider[k])
    BY RowFacts DEF RowOK
  <2> QED BY <2>1 DEF ObjectsFit, Quiesced
<1>2. ASSUME NEW j \in Keys, NEW k \in Keys,
             j[1] = k[1], Exposed(j), Exposed(k)
      PROVE  j = k
  <2>1. exec[j].status \in Open /\ exec[k].status \in Open
    BY <1>2, ClosedUnexposed
  <2>2. k[1] \in Withdrawals
    BY KeyParts
  <2> QED BY <1>2, <2>1, <2>2 DEF IInv, WithdrawalsOK, WithdrawalOK
<1> QED BY <1>1, <1>2 DEF PaidOnce

\* executeWithdrawal, retryExecution and cancelExecution, however they overlap,
\* never send a withdrawal twice, and reverse only a transfer whose payout did
\* not and cannot leave.
THEOREM PaidAlwaysOnce == Spec => []PaidOnce
<1>1. IInv => PaidOnce
  BY InvPaidOnce
<1> QED BY <1>1, Invariance, PTL

\* A completed row was paid, and a closed one has nothing at the provider.
LEMMA InvBooks ==
  ASSUME IInv
  PROVE  BooksFollowMoney
<1>1. ASSUME NEW w \in Withdrawals, withdrawal[w] = "COMPLETED"
      PROVE  \E k \in Executions(w) : /\ exec[k].status = "COMPLETED"
                                      /\ provider[k].payout = "PAID"
                                      /\ ~provider[k].reversed
  <2>1. PICK k \in Keys : k[1] = w /\ exec[k].status = "COMPLETED"
    BY <1>1 DEF IInv, WithdrawalsOK, WithdrawalOK
  <2>2. ObjectsFit(exec[k], claim[k], provider[k])
    BY RowFacts DEF RowOK
  <2>3. provider[k].payout = "PAID" /\ ~provider[k].reversed
    BY <2>1, <2>2 DEF ObjectsFit, Quiesced
  <2>4. k \in Executions(w)
    BY <2>1 DEF Executions
  <2> QED BY <2>1, <2>3, <2>4
<1>2. ASSUME NEW w \in Withdrawals, NEW k \in Executions(w),
             withdrawal[w] \in {"PENDING", "APPROVED", "REJECTED"}
      PROVE  ~Exposed(k)
  <2>1. k \in Keys /\ k[1] = w
    BY DEF Executions
  <2>2. exec[k].status \notin Open
    BY <1>2, <2>1 DEF IInv, WithdrawalsOK, WithdrawalOK, Open
  <2> QED BY <2>1, <2>2, ClosedUnexposed
<1> QED BY <1>1, <1>2 DEF BooksFollowMoney

\* finalizePayoutExecution books a withdrawal the bank has paid, and a rejected
\* or resendable withdrawal has nothing left at the provider.
THEOREM BooksAlwaysFollowMoney == Spec => []BooksFollowMoney
<1>1. IInv => BooksFollowMoney
  BY InvBooks
<1> QED BY <1>1, Invariance, PTL

\* The trigger accepts every step of a row.
LEMMA NextAccepted ==
  ASSUME IInv, [Next]_vars
  PROVE  [\A k \in Keys :
            exec[k].status # "ABSENT" /\ exec'[k] # exec[k]
              => Accepts(exec[k], exec'[k])]_vars
<1>1. CASE Next
  BY <1>1, NextMoves DEF Moves, KeysMove, KeyMoves
<1> QED BY <1>1

\* Every change of a PayoutExecution row is one guard_payout_execution_identity
\* accepts: the updates the services make without expecting a rejection
\* (claims, aborts, finalization, reversal) never meet one.
THEOREM UpdatesAlwaysAccepted == Spec => UpdatesAccepted
<1>1. IInv /\ [Next]_vars
        => [\A k \in Keys :
              exec[k].status # "ABSENT" /\ exec'[k] # exec[k]
                => Accepts(exec[k], exec'[k])]_vars
  BY NextAccepted
<1> QED BY <1>1, Invariance, PTL DEF Spec, UpdatesAccepted

LEMMA InitImplements == Init => Contract!Init
<1> SUFFICES ASSUME Init PROVE Contract!Init
  OBVIOUS
<1>1. \A k \in Keys : provider[k].payout # "PAID"
  BY DEF Init, NoObjects
<1> QED BY <1>1 DEF Init, Contract!Init

\* Every step is one of the contract, or one it does not see.
LEMMA NextImplements ==
  ASSUME IInv, [Next]_vars
  PROVE  [Contract!Next]_(Contract!cvars)
<1>1. CASE Next
  BY <1>1, NextMoves DEF Moves, Refines
<1>2. CASE UNCHANGED vars
  <2>1. Refines
    BY <1>2, NoRowMoves DEF vars, balanceVars
  <2> QED BY <2>1 DEF Refines
<1> QED BY <1>1, <1>2

\* The component keeps the payout contract: a reserved withdrawal is paid once
\* or returned once, and only what the bank has paid is booked as paid.
THEOREM ContractImplemented == Spec => ImplementsContract
<1>1. IInv /\ [Next]_vars => [Contract!Next]_(Contract!cvars)
  BY NextImplements
<1> QED BY <1>1, InitImplements, Invariance, PTL
        DEF Spec, ImplementsContract, Contract!Spec
=============================================================================
