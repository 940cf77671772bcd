------------------------ MODULE PaymentDisputeProofs ------------------------
(* Proofs about PaymentDispute for every set of events, lanes and amounts. *)
EXTENDS PaymentDispute, SumTheorems

-----------------------------------------------------------------------------
(* The inductive invariant.                                                *)

\* A persisted row keeps its signed envelope, and only a quarantined row can
\* have one that did not normalize.
RowsHaveEnvelopes ==
  \A e \in Events :
    /\ inbox[e].status # "ABSENT" => inbox[e].env \in Envelopes
    /\ inbox[e].status \in {"PENDING", "PROCESSING", "FAILED", "PROCESSED"} =>
         inbox[e].env.target \in Targets

\* A lane past the idle state of its role works on an event.
LanesHaveEvents ==
  /\ \A l \in Lanes : lane[l].pc \in {"received", "leased", "caught"} =>
                        lane[l].event \in Events
  /\ \A l \in ApiLanes : lane[l].pc = "claiming" => lane[l].event \in Events

\* A row that some lane claimed exists, and its counter is not behind the claim.
ClaimsBounded ==
  \A l \in Lanes : lane[l].pc \in {"leased", "caught"} =>
    /\ inbox[lane[l].event].status # "ABSENT"
    /\ lane[l].attempts <= inbox[lane[l].event].attempts

\* No two lanes were given the same claim.
ClaimsUnique ==
  \A l, m \in Lanes :
    /\ lane[l].pc \in {"leased", "caught"}
    /\ lane[m].pc \in {"leased", "caught"}
    /\ lane[l].event = lane[m].event
    /\ lane[l].attempts = lane[m].attempts
    => l = m

Shape == TypeOK /\ RowsHaveEnvelopes /\ LanesHaveEvents

IInv == Shape /\ WalletReconciles /\ ClaimsBounded /\ ClaimsUnique

-----------------------------------------------------------------------------
(* Shape is inductive.                                                     *)

LEMMA InitShape == Init => Shape
<1> SUFFICES ASSUME Init PROVE Shape
  OBVIOUS
<1>1. NoRow \in Rows /\ NoRow.status = "ABSENT"
  BY DEF NoRow, Rows, InboxStatuses
<1>2. NoCase \in CaseRows
  BY DEF NoCase, CaseRows
<1>3. Idle \in LaneStates /\ Idle.pc = "idle"
  BY DEF Idle, At, LaneStates
<1>4. RowsHaveEnvelopes /\ LanesHaveEvents
  BY <1>1, <1>3 DEF Init, RowsHaveEnvelopes, LanesHaveEvents, Lanes
<1>5. TypeOK
  BY <1>1, <1>2, <1>3 DEF Init, TypeOK
<1> QED
  BY <1>4, <1>5 DEF Shape

\* What each update of an inbox row leaves of its type and its envelope.
Keeps(row, new) ==
  new \in Rows /\ new.env = row.env /\ new.attempts = row.attempts

LEMMA RecoveredRow ==
  ASSUME NEW row \in Rows
  PROVE  /\ Keeps(row, Recovered(row))
         /\ Recovered(row).status \in {row.status, "FAILED"}
         /\ Recovered(row).status # row.status => row.status = "PROCESSING"
  BY DEF Keeps, Rows, InboxStatuses, Recovered, Stale

LEMMA ConflictedRow ==
  ASSUME NEW row \in Rows
  PROVE  Keeps(row, Conflicted(row)) /\ Conflicted(row).status = "QUARANTINED"
           /\ Conflicted(row).conflict
  BY DEF Keeps, Rows, InboxStatuses, Conflicted

LEMMA ClaimedRow ==
  ASSUME NEW row \in Rows
  PROVE  /\ Claimed(row) \in Rows
         /\ Claimed(row).env = row.env
         /\ Claimed(row).attempts = row.attempts + 1
         /\ Claimed(row).status = "PROCESSING"
<1>1. row.attempts + 1 \in Nat
  BY DEF Rows
<1>2. Claimed(row) \in Rows
  BY <1>1 DEF Claimed, Rows, InboxStatuses
<1>3. Claimed(row).env = row.env /\ Claimed(row).status = "PROCESSING"
  BY DEF Claimed, Rows
<1>4. Claimed(row).attempts = row.attempts + 1
  BY DEF Claimed, Rows
<1> QED
  BY <1>2, <1>3, <1>4

LEMMA CompletedRow ==
  ASSUME NEW row \in Rows, NEW p \in Disputes
  PROVE  Keeps(row, Completed(row, p)) /\ Completed(row, p).status = "PROCESSED"
  BY DEF Keeps, Rows, InboxStatuses, Completed

LEMMA ReturnedRow ==
  ASSUME NEW row \in Rows, NEW verdict
  PROVE  /\ Keeps(row, Returned(row, verdict))
         /\ Returned(row, verdict).status \in {"FAILED", "QUARANTINED"}
  BY DEF Keeps, Rows, InboxStatuses, Returned

LEMMA DueRow ==
  ASSUME NEW row \in Rows
  PROVE  /\ Keeps(row, [row EXCEPT !.due = TRUE])
         /\ [row EXCEPT !.due = TRUE].status = row.status
  BY DEF Keeps, Rows

LEMMA NewRowType ==
  ASSUME NEW v \in Envelopes
  PROVE  /\ NewRow(v) \in Rows
         /\ NewRow(v).status \in {"PENDING", "QUARANTINED"}
         /\ NewRow(v).status = "PENDING" => v.target \in Targets
         /\ NewRow(v).env = v
  BY DEF Rows, InboxStatuses, NewRow, Envelopes, Targets

LEMMA LaneTypes ==
  ASSUME NEW e \in Events \cup {None}, NEW n \in Nat,
         NEW pc \in {"idle", "received", "swept", "claiming", "leased", "caught"}
  PROVE  At(pc, e, n) \in LaneStates /\ At(pc, e, n).pc = pc
           /\ At(pc, e, n).event = e /\ At(pc, e, n).attempts = n
  BY DEF At, LaneStates

LEMMA IdleType == Idle \in LaneStates /\ Idle.pc = "idle"
  BY DEF Idle, At, LaneStates

LEMMA ReceiveShape ==
  ASSUME Shape, NEW l \in ApiLanes, NEW e \in Events, NEW v \in EnvelopesOf[e],
         Receive(l, e, v)
  PROVE  Shape'
<1>1. v \in Envelopes /\ l \in Lanes
  BY ConstantsAssumption DEF Lanes
<1>2. inbox[e] \in Rows /\ inbox[e].attempts \in Nat
  BY DEF Shape, TypeOK, Rows
<1>3. inbox' \in [Events -> Rows] /\ RowsHaveEnvelopes'
  <2>1. CASE ReceiveNew(l, e, v)
    BY <1>1, <2>1, NewRowType DEF ReceiveNew, Shape, TypeOK, RowsHaveEnvelopes
  <2>2. CASE ReceiveDuplicate(l, e, v)
    BY <2>2 DEF ReceiveDuplicate, Shape, TypeOK, RowsHaveEnvelopes
  <2>3. CASE ReceiveConflict(l, e, v)
    BY <1>2, <2>3, ConflictedRow
    DEF ReceiveConflict, Keeps, Shape, TypeOK, RowsHaveEnvelopes
  <2> QED
    BY <2>1, <2>2, <2>3 DEF Receive
<1>4. lane' = lane \/ lane' = [lane EXCEPT ![l] = Idle]
        \/ \E n \in Nat : lane' = [lane EXCEPT ![l] = At("received", e, n)]
  BY <1>2 DEF Receive, ReceiveNew, ReceiveDuplicate, ReceiveConflict, Proceed
<1>5. lane' \in [Lanes -> LaneStates] /\ LanesHaveEvents'
  <2>1. CASE lane' = lane
    BY <2>1 DEF Shape, TypeOK, LanesHaveEvents
  <2>2. CASE lane' = [lane EXCEPT ![l] = Idle]
    BY <1>1, <2>2, IdleType DEF Shape, TypeOK, LanesHaveEvents
  <2>3. ASSUME NEW n \in Nat, lane' = [lane EXCEPT ![l] = At("received", e, n)]
        PROVE  lane' \in [Lanes -> LaneStates] /\ LanesHaveEvents'
    BY <1>1, <2>3, LaneTypes DEF Shape, TypeOK, LanesHaveEvents
  <2> QED
    BY <1>4, <2>1, <2>2, <2>3
<1>6. UNCHANGED <<batch, cases, deposit, available, reserved, ledger, order,
                  runtime, crashes>> /\ deliveries' \in [Events -> Nat]
  BY DEF Receive, Shape, TypeOK
<1> QED
  BY <1>3, <1>5, <1>6 DEF Shape, TypeOK

\* A step that changes only the lane states and keeps them well formed.
LEMMA FinishedLane ==
  ASSUME NEW l \in Lanes, NEW todo
  PROVE  /\ Finished(l, todo) \in LaneStates
         /\ Finished(l, todo).pc \in {"idle", "claiming"}
         /\ l \in ApiLanes => Finished(l, todo).pc = "idle"
<1>1. None \in Events \cup {None} /\ 0 \in Nat
  OBVIOUS
<1>2. At("claiming", None, 0) \in LaneStates /\ At("claiming", None, 0).pc = "claiming"
  BY <1>1, LaneTypes
<1> QED
  BY <1>2, IdleType, ConstantsAssumption DEF Finished

LEMMA ClaimingShape ==
  ASSUME Shape, NEW l \in Lanes,
         \/ l \in ApiLanes /\ (ApiRecover(l) \/ ApiClaim(l))
         \/ l \in WorkerLanes /\ (WorkerSweep(l) \/ WorkerSelect(l) \/ WorkerClaim(l))
  PROVE  Shape'
<1>1. /\ lane[l] \in LaneStates
      /\ lane[l].attempts \in Nat
      /\ lane[l].event \in Events \cup {None}
      /\ \A e \in Events : inbox[e] \in Rows /\ inbox[e].attempts \in Nat
  BY DEF Shape, TypeOK, Rows, LaneStates
<1>2. ASSUME NEW e \in Events, NEW n \in Nat, ClaimRow(l, e, n)
      PROVE  /\ inbox' \in [Events -> Rows] /\ RowsHaveEnvelopes'
             /\ lane' \in [Lanes -> LaneStates] /\ LanesHaveEvents'
  <2>1. CASE Claimable(inbox[e]) /\ inbox[e].attempts = n
    <3>1. inbox' = [inbox EXCEPT ![e] = Claimed(inbox[e])]
          /\ lane' = [lane EXCEPT ![l] = At("leased", e, n + 1)]
      BY <1>2, <2>1 DEF ClaimRow
    <3>2. inbox' \in [Events -> Rows] /\ RowsHaveEnvelopes'
      BY <1>1, <2>1, <3>1, ClaimedRow DEF Shape, TypeOK, RowsHaveEnvelopes, Claimable
    <3>3. n + 1 \in Nat
      OBVIOUS
    <3>4. At("leased", e, n + 1) \in LaneStates
          /\ At("leased", e, n + 1).pc = "leased" /\ At("leased", e, n + 1).event = e
      BY <3>3, LaneTypes
    <3>5. lane' \in [Lanes -> LaneStates] /\ LanesHaveEvents'
      BY <3>1, <3>4 DEF Shape, TypeOK, LanesHaveEvents, Lanes
    <3> QED
      BY <3>2, <3>5
  <2>2. CASE ~(Claimable(inbox[e]) /\ inbox[e].attempts = n)
    <3>1. inbox' = inbox /\ lane' = [lane EXCEPT ![l] = Finished(l, batch')]
      BY <1>2, <2>2 DEF ClaimRow
    <3> QED
      BY <3>1, FinishedLane DEF Shape, TypeOK, RowsHaveEnvelopes, LanesHaveEvents, Lanes
  <2> QED
    BY <2>1, <2>2
<1>3. CASE l \in ApiLanes /\ ApiRecover(l)
  <2>1. lane[l].event \in Events
    BY <1>3 DEF ApiRecover, Shape, LanesHaveEvents
  <2>2. inbox' \in [Events -> Rows] /\ RowsHaveEnvelopes'
    BY <1>1, <1>3, <2>1, RecoveredRow DEF ApiRecover, Keeps, Shape, TypeOK, RowsHaveEnvelopes
  <2>3. At("claiming", lane[l].event, lane[l].attempts) \in LaneStates
        /\ At("claiming", lane[l].event, lane[l].attempts).pc = "claiming"
        /\ At("claiming", lane[l].event, lane[l].attempts).event = lane[l].event
    BY <1>1, LaneTypes
  <2>4. lane' \in [Lanes -> LaneStates] /\ LanesHaveEvents'
    BY <1>3, <2>1, <2>3 DEF ApiRecover, Shape, TypeOK, LanesHaveEvents, Lanes
  <2> QED
    BY <1>3, <2>2, <2>4 DEF ApiRecover, Shape, TypeOK
<1>4. CASE l \in ApiLanes /\ ApiClaim(l)
  <2>1. lane[l].event \in Events
    BY <1>4 DEF ApiClaim, Shape, LanesHaveEvents
  <2> QED
    BY <1>1, <1>2, <1>4, <2>1 DEF ApiClaim, Shape, TypeOK
<1>5. CASE l \in WorkerLanes /\ WorkerSweep(l)
  <2>1. inbox' \in [Events -> Rows] /\ RowsHaveEnvelopes'
    BY <1>1, <1>5, RecoveredRow DEF WorkerSweep, Keeps, Shape, TypeOK, RowsHaveEnvelopes
  <2>2. At("swept", None, 0) \in LaneStates /\ At("swept", None, 0).pc = "swept"
    BY LaneTypes
  <2>3. lane' \in [Lanes -> LaneStates] /\ LanesHaveEvents'
    BY <1>5, <2>2 DEF WorkerSweep, Shape, TypeOK, LanesHaveEvents, Lanes
  <2> QED
    BY <1>5, <2>1, <2>3 DEF WorkerSweep, Shape, TypeOK
<1>6. CASE l \in WorkerLanes /\ WorkerSelect(l)
  <2>1. At("claiming", None, 0) \in LaneStates /\ At("claiming", None, 0).pc = "claiming"
    BY LaneTypes
  <2>2. \E s \in {Idle, At("claiming", None, 0)} : lane' = [lane EXCEPT ![l] = s]
    BY <1>6 DEF WorkerSelect
  <2>3. lane' \in [Lanes -> LaneStates] /\ LanesHaveEvents'
    BY <1>6, <2>1, <2>2, IdleType, ConstantsAssumption
    DEF Shape, TypeOK, LanesHaveEvents, Lanes
  <2>4. batch' \in [WorkerLanes -> SUBSET [event : Events, attempts : Nat]]
    BY <1>1, <1>6 DEF WorkerSelect, Shape, TypeOK
  <2>5. inbox' = inbox /\ RowsHaveEnvelopes'
    BY <1>6 DEF WorkerSelect, dbVars, Shape, RowsHaveEnvelopes
  <2> QED
    BY <1>6, <2>3, <2>4, <2>5 DEF WorkerSelect, dbVars, Shape, TypeOK
<1>7. CASE l \in WorkerLanes /\ WorkerClaim(l)
  <2>1. PICK c \in batch[l] : /\ batch' = [batch EXCEPT ![l] = @ \ {c}]
                              /\ ClaimRow(l, c.event, c.attempts)
    BY <1>7 DEF WorkerClaim
  <2>2. c.event \in Events /\ c.attempts \in Nat
    BY <1>7, <2>1 DEF Shape, TypeOK
  <2>3. batch' \in [WorkerLanes -> SUBSET [event : Events, attempts : Nat]]
    BY <1>7, <2>1 DEF Shape, TypeOK
  <2> QED
    BY <1>2, <1>7, <2>1, <2>2, <2>3 DEF WorkerClaim, Shape, TypeOK
<1> QED
  BY <1>3, <1>4, <1>5, <1>6, <1>7

\* A committed transition keeps the dispute cases, the wallet and the ledger
\* well typed; the wallet part is where a missing guard would go negative.
LEMMA TransitionMoney ==
  ASSUME Shape, NEW e \in Events, NEW v \in Envelopes, v.target \in Targets,
         ~Refusal(v),
         AttachOpen(e, v) \/ ReplayTerminal(e, v) \/ Resolve(e, v) \/ Book(e, v)
  PROVE  /\ cases' \in [Disputes -> CaseRows]
         /\ available' \in Nat /\ reserved' \in Nat
         /\ ledger' \in [LedgerTypes -> Int]
         /\ WalletReconciles => WalletReconciles'
<1> DEFINE c == cases[v.dispute]
<1>1. /\ v.dispute \in Disputes /\ v.deposit \in Deposits
      /\ v.amount \in Nat \ {0}
  BY DEF Envelopes
<1>2. /\ c \in CaseRows
      /\ c.held \in Nat /\ c.shortfall \in Nat /\ c.amount \in Nat
      /\ c.holdTx \in Int
  BY <1>1 DEF Shape, TypeOK, CaseRows
<1>3. available \in Nat /\ reserved \in Nat /\ ledger \in [LedgerTypes -> Int]
      /\ cases \in [Disputes -> CaseRows]
  BY DEF Shape, TypeOK
<1>4. \A t \in LedgerTypes : ledger[t] \in Int
  BY <1>3
<1>5. CASE AttachOpen(e, v)
  <2>1. cases' = [cases EXCEPT ![v.dispute] =
                    [c EXCEPT !.openedBy = IF c.openedBy = None THEN e ELSE c.openedBy]]
    BY <1>5 DEF AttachOpen
  <2>2. [c EXCEPT !.openedBy = IF c.openedBy = None THEN e ELSE c.openedBy] \in CaseRows
    BY <1>2 DEF CaseRows
  <2> QED
    BY <1>1, <1>3, <1>5, <2>1, <2>2 DEF AttachOpen, WalletReconciles
<1>6. CASE ReplayTerminal(e, v)
  BY <1>3, <1>6 DEF ReplayTerminal, WalletReconciles
<1>7. CASE Resolve(e, v)
  <2>1. c.status = "OPEN" /\ v.target # "OPEN" /\ reserved >= c.held
    BY <1>2, <1>3, <1>7 DEF Resolve, Refusal
  <2>2. reserved' \in Nat /\ available' \in Nat
    BY <1>2, <1>3, <1>7, <2>1 DEF Resolve
  <2> DEFINE new == [c EXCEPT !.status = v.target, !.resolvedBy = e,
                        !.resolutionTx = IF v.target = "WON" THEN c.held ELSE 0 - c.held,
                        !.exposure = IF v.target = "WON" THEN 0 ELSE c.shortfall]
  <2>3. (IF v.target = "WON" THEN c.held ELSE 0 - c.held) \in Int
        /\ (IF v.target = "WON" THEN 0 ELSE c.shortfall) \in Nat
    BY <1>2
  <2>4. new \in CaseRows
    BY <1>2, <2>3 DEF CaseRows, Targets
  <2>5. cases' = [cases EXCEPT ![v.dispute] = new]
    BY <1>7 DEF Resolve
  <2>6. CASE v.target = "WON"
    <3>1. ledger' = [ledger EXCEPT !["RESERVATION"] = @ + c.held]
          /\ reserved' = reserved - c.held /\ available' = available + c.held
      BY <1>7, <2>6 DEF Resolve, ResolutionLedger
    <3>2. ledger' \in [LedgerTypes -> Int]
      BY <1>2, <1>3, <1>4, <3>1 DEF LedgerTypes
    <3>3. WalletReconciles => WalletReconciles'
      BY <1>2, <1>3, <1>4, <3>1 DEF LedgerTypes, WalletReconciles
    <3> QED
      BY <1>1, <1>3, <2>2, <2>4, <2>5, <3>2, <3>3
  <2>7. CASE v.target # "WON"
    <3>1. ledger' = [ledger EXCEPT !["CHARGEBACK"] = @ - c.held]
          /\ reserved' = reserved - c.held /\ available' = available
      BY <1>7, <2>7 DEF Resolve, ResolutionLedger
    <3>2. ledger' \in [LedgerTypes -> Int]
      BY <1>2, <1>3, <1>4, <3>1 DEF LedgerTypes
    <3>3. WalletReconciles => WalletReconciles'
      BY <1>2, <1>3, <1>4, <3>1 DEF LedgerTypes, WalletReconciles
    <3> QED
      BY <1>1, <1>3, <2>2, <2>4, <2>5, <3>2, <3>3
  <2> QED
    BY <2>6, <2>7
<1>8. CASE Book(e, v)
  <2> DEFINE held == HeldFor(v)
  <2>1. held \in Nat /\ held <= available /\ held <= v.amount
    BY <1>1, <1>3 DEF HeldFor, Lesser
  <2>2. available' = available - held /\ available' \in Nat
    BY <1>3, <1>8, <2>1 DEF Book
  <2> DEFINE new == [status |-> v.target, deposit |-> v.deposit,
                     amount |-> v.amount, held |-> held, shortfall |-> v.amount - held,
                     exposure |-> IF v.target = "WON" THEN 0 ELSE v.amount - held,
                     openedBy |-> IF v.target = "OPEN" THEN e ELSE None,
                     resolvedBy |-> IF v.target = "OPEN" THEN None ELSE e,
                     holdTx |-> IF v.target = "OPEN" THEN 0 - held ELSE 0,
                     resolutionTx |-> IF v.target = "OPEN" THEN 0 ELSE 0 - held]
  <2>3. v.amount - held \in Nat /\ 0 - held \in Int /\ v.amount \in Nat
    BY <1>1, <2>1
  <2> HIDE DEF held
  <2>4. new \in CaseRows
    BY <1>1, <2>1, <2>3 DEF CaseRows, Targets
  <2>5. cases' = [cases EXCEPT ![v.dispute] = new]
    BY <1>8 DEF Book, held
  <2>6. CASE v.target = "OPEN"
    <3>1. ledger' = [ledger EXCEPT !["RESERVATION"] = @ - held]
          /\ reserved' = reserved + held
      BY <1>8, <2>6 DEF Book, held
    <3>2. ledger' \in [LedgerTypes -> Int] /\ reserved' \in Nat
      BY <1>3, <1>4, <2>1, <3>1 DEF LedgerTypes
    <3>3. WalletReconciles => WalletReconciles'
      BY <1>3, <1>4, <2>1, <2>2, <3>1 DEF LedgerTypes, WalletReconciles
    <3> QED
      BY <1>1, <1>3, <2>2, <2>4, <2>5, <3>2, <3>3
  <2>7. CASE v.target # "OPEN"
    <3>1. ledger' = [ledger EXCEPT !["CHARGEBACK"] = @ - held]
          /\ reserved' = reserved
      BY <1>8, <2>7 DEF Book, held
    <3>2. ledger' \in [LedgerTypes -> Int] /\ reserved' \in Nat
      BY <1>3, <1>4, <2>1, <3>1 DEF LedgerTypes
    <3>3. WalletReconciles => WalletReconciles'
      BY <1>3, <1>4, <2>1, <2>2, <3>1 DEF LedgerTypes, WalletReconciles
    <3> QED
      BY <1>1, <1>3, <2>2, <2>4, <2>5, <3>2, <3>3
  <2> QED
    BY <2>6, <2>7
<1> QED
  BY <1>5, <1>6, <1>7, <1>8

LEMMA ProcessShape ==
  ASSUME Shape, NEW l \in Lanes, Process(l)
  PROVE  Shape' /\ (WalletReconciles => WalletReconciles')
<1> DEFINE e == lane[l].event
           v == inbox[e].env
<1>1. /\ lane[l] \in LaneStates
      /\ lane[l].pc \in {"leased", "caught"} => e \in Events
      /\ \A x \in Events : inbox[x] \in Rows
  BY DEF Shape, TypeOK, LanesHaveEvents
<1>2. \A verdict \in {"RETRY", "QUARANTINE"} :
        Caught(l, verdict) \in LaneStates /\ Caught(l, verdict).pc = "caught"
          /\ Caught(l, verdict).event = lane[l].event
  BY <1>1 DEF Caught, LaneStates
<1>3. CASE TransitionCommits(l)
  <2>1. e \in Events /\ OwnsLease(l) /\ lane[l].pc = "leased"
    BY <1>1, <1>3 DEF TransitionCommits
  <2>2. v \in Envelopes /\ v.target \in Targets /\ v.dispute \in Disputes
        /\ v.deposit \in Deposits
    BY <2>1 DEF OwnsLease, OwnedBy, Shape, RowsHaveEnvelopes, Envelopes
  <2>3. /\ cases' \in [Disputes -> CaseRows]
        /\ available' \in Nat /\ reserved' \in Nat
        /\ ledger' \in [LedgerTypes -> Int]
        /\ WalletReconciles => WalletReconciles'
    <3> HIDE DEF v
    <3>1. ~Refusal(v) /\ (AttachOpen(e, v) \/ ReplayTerminal(e, v) \/ Resolve(e, v) \/ Book(e, v))
      BY <1>3 DEF TransitionCommits, v
    <3> QED
      BY <2>1, <2>2, <3>1, TransitionMoney
  <2>4. /\ deposit' = [deposit EXCEPT ![v.deposit] = Projection(StatusesOf(cases', v.deposit))]
        /\ inbox' = [inbox EXCEPT ![e] = Completed(@, v.dispute)]
    BY <1>3 DEF TransitionCommits, CompleteEvent
  <2>5. deposit' \in [Deposits -> CreditBacked \cup {"UNPAID"}]
    BY <2>2, <2>4 DEF Shape, TypeOK, Projection, CreditBacked
  <2>6. inbox' \in [Events -> Rows] /\ RowsHaveEnvelopes'
    BY <1>1, <2>1, <2>2, <2>4, CompletedRow, ZenonT(30)
     DEF Keeps, Shape, TypeOK, RowsHaveEnvelopes
  <2>7. \E next \in {Finished(l, batch), Caught(l, "RETRY"), Caught(l, "QUARANTINE")} :
          lane' = [lane EXCEPT ![l] = next]
    BY <1>3 DEF TransitionCommits
  <2>8. lane' \in [Lanes -> LaneStates] /\ LanesHaveEvents'
    BY <1>2, <2>1, <2>7, FinishedLane DEF Shape, TypeOK, LanesHaveEvents, Lanes
  <2> QED
    BY <1>3, <2>3, <2>5, <2>6, <2>8 DEF TransitionCommits, Shape, TypeOK
<1>4. CASE TransitionRefused(l) \/ TransitionFails(l)
  <2>1. lane[l].pc = "leased"
        /\ \E verdict \in {"RETRY", "QUARANTINE"} : lane' = [lane EXCEPT ![l] = Caught(l, verdict)]
    BY <1>4 DEF TransitionRefused, TransitionFails
  <2>2. lane' \in [Lanes -> LaneStates] /\ LanesHaveEvents'
    BY <1>1, <1>2, <2>1 DEF Shape, TypeOK, LanesHaveEvents, Lanes
  <2>3. UNCHANGED <<batch, dbVars, runtime, deliveries, crashes>>
    BY <1>4 DEF TransitionRefused, TransitionFails
  <2> QED
    BY <2>2, <2>3 DEF dbVars, Shape, TypeOK, RowsHaveEnvelopes, WalletReconciles
<1>5. CASE HandleError(l)
  <2>1. e \in Events
    BY <1>1, <1>5 DEF HandleError
  <2>2. inbox' = inbox \/ (OwnsLease(l) /\ inbox' = [inbox EXCEPT ![e] = Returned(@, lane[l].verdict)])
    BY <1>5 DEF HandleError
  <2>3. inbox' \in [Events -> Rows] /\ RowsHaveEnvelopes'
    BY <1>1, <2>1, <2>2, ReturnedRow
    DEF OwnsLease, OwnedBy, Keeps, Shape, TypeOK, RowsHaveEnvelopes
  <2>4. lane' \in [Lanes -> LaneStates] /\ LanesHaveEvents'
    BY <1>5, FinishedLane DEF HandleError, Shape, TypeOK, LanesHaveEvents, Lanes
  <2> QED
    BY <1>5, <2>3, <2>4 DEF HandleError, Shape, TypeOK, WalletReconciles
<1> QED
  BY <1>3, <1>4, <1>5 DEF Process

LEMMA EnvironmentShape ==
  ASSUME Shape,
         \/ \E d \in Deposits : CreditDeposit(d)
         \/ \E o \in Orders : PayOrder(o) \/ RefundOrder(o)
         \/ \E e \in Events : Elapse(e)
         \/ \E l \in Lanes : Crash(l)
         \/ \E r \in Runtimes : Redeploy(r)
  PROVE  Shape' /\ (WalletReconciles => WalletReconciles')
<1>1. available \in Nat /\ reserved \in Nat /\ ledger \in [LedgerTypes -> Int]
      /\ \A t \in LedgerTypes : ledger[t] \in Int
  BY DEF Shape, TypeOK
<1>2. ASSUME NEW d \in Deposits, CreditDeposit(d)
      PROVE  Shape' /\ (WalletReconciles => WalletReconciles')
  <2>1. Credit[d] \in Nat
    BY ConstantsAssumption
  <2>2. available' = available + Credit[d] /\ UNCHANGED <<inbox, lane, reserved>>
        /\ ledger' = [ledger EXCEPT !["DEPOSIT"] = @ + Credit[d]]
    BY <1>2 DEF CreditDeposit
  <2>3. ledger' \in [LedgerTypes -> Int] /\ available' \in Nat
    BY <1>1, <2>1, <2>2 DEF LedgerTypes
  <2>4. WalletReconciles => WalletReconciles'
    BY <1>1, <2>1, <2>2 DEF LedgerTypes, WalletReconciles
  <2>5. deposit' \in [Deposits -> CreditBacked \cup {"UNPAID"}]
    BY <1>2 DEF CreditDeposit, CreditBacked, Shape, TypeOK
  <2> QED
    BY <1>2, <2>2, <2>3, <2>4, <2>5
    DEF CreditDeposit, Shape, TypeOK, RowsHaveEnvelopes, LanesHaveEvents
<1>3. ASSUME NEW o \in Orders, PayOrder(o) \/ RefundOrder(o)
      PROVE  Shape' /\ (WalletReconciles => WalletReconciles')
  <2>1. Price[o] \in Nat
    BY ConstantsAssumption
  <2>2. UNCHANGED <<inbox, lane, reserved>>
        /\ order' \in [Orders -> {"UNPAID", "PAID", "REFUNDED"}]
    BY <1>3 DEF PayOrder, RefundOrder, Shape, TypeOK
  <2>3. CASE PayOrder(o)
    <3>1. available' = available - Price[o] /\ available >= Price[o]
          /\ ledger' = [ledger EXCEPT !["RESERVATION"] = @ - Price[o],
                                      !["PURCHASE"] = @ - Price[o]]
      BY <2>3 DEF PayOrder
    <3>2. ledger' \in [LedgerTypes -> Int] /\ available' \in Nat
      BY <1>1, <2>1, <3>1 DEF LedgerTypes
    <3>3. WalletReconciles => WalletReconciles'
      BY <1>1, <2>1, <2>2, <3>1 DEF LedgerTypes, WalletReconciles
    <3> QED
      BY <2>2, <2>3, <3>2, <3>3
      DEF PayOrder, Shape, TypeOK, RowsHaveEnvelopes, LanesHaveEvents
  <2>4. CASE RefundOrder(o)
    <3>1. available' = available + Price[o]
          /\ ledger' = [ledger EXCEPT !["REFUND"] = @ + Price[o]]
      BY <2>4 DEF RefundOrder
    <3>2. ledger' \in [LedgerTypes -> Int] /\ available' \in Nat
      BY <1>1, <2>1, <3>1 DEF LedgerTypes
    <3>3. WalletReconciles => WalletReconciles'
      BY <1>1, <2>1, <2>2, <3>1 DEF LedgerTypes, WalletReconciles
    <3> QED
      BY <2>2, <2>4, <3>2, <3>3
      DEF RefundOrder, Shape, TypeOK, RowsHaveEnvelopes, LanesHaveEvents
  <2> QED
    BY <1>3, <2>3, <2>4
<1>4. ASSUME NEW e \in Events, Elapse(e)
      PROVE  Shape' /\ (WalletReconciles => WalletReconciles')
  <2>1. inbox' \in [Events -> Rows] /\ RowsHaveEnvelopes'
    BY <1>4, DueRow DEF Elapse, Keeps, Shape, TypeOK, RowsHaveEnvelopes
  <2> QED
    BY <1>4, <2>1 DEF Elapse, Shape, TypeOK, LanesHaveEvents, WalletReconciles
<1>5. ASSUME NEW l \in Lanes, Crash(l)
      PROVE  Shape' /\ (WalletReconciles => WalletReconciles')
  <2>1. lane' \in [Lanes -> LaneStates] /\ LanesHaveEvents'
    BY <1>5, IdleType DEF Crash, Shape, TypeOK, LanesHaveEvents, Lanes
  <2>2. batch' \in [WorkerLanes -> SUBSET [event : Events, attempts : Nat]]
        /\ crashes' \in Nat
    BY <1>5 DEF Crash, Shape, TypeOK
  <2> QED
    BY <1>5, <2>1, <2>2 DEF Crash, dbVars, Shape, TypeOK, RowsHaveEnvelopes, WalletReconciles
<1>6. ASSUME NEW r \in Runtimes, Redeploy(r)
      PROVE  Shape' /\ (WalletReconciles => WalletReconciles')
  <2>1. lane' \in [Lanes -> LaneStates] /\ LanesHaveEvents'
    BY <1>6, IdleType DEF Redeploy, Shape, TypeOK, LanesHaveEvents, Lanes
  <2>2. batch' \in [WorkerLanes -> SUBSET [event : Events, attempts : Nat]]
        /\ crashes' \in Nat /\ runtime' \in Runtimes
    BY <1>6 DEF Redeploy, Shape, TypeOK
  <2> QED
    BY <1>6, <2>1, <2>2 DEF Redeploy, dbVars, Shape, TypeOK, RowsHaveEnvelopes, WalletReconciles
<1> QED
  BY <1>2, <1>3, <1>4, <1>5, <1>6

-----------------------------------------------------------------------------
(* Claims.  A step is harmless to them when no row disappears or counts     *)
(* down and every lane that ends up working on a claim already had it.      *)

Working(l) == lane[l].pc \in {"leased", "caught"}

Harmless ==
  /\ \A e \in Events : inbox[e].status # "ABSENT" =>
       inbox'[e].status # "ABSENT" /\ inbox'[e].attempts = inbox[e].attempts
  /\ \A l \in Lanes : Working(l)' =>
       /\ Working(l)
       /\ lane'[l].event = lane[l].event
       /\ lane'[l].attempts = lane[l].attempts

LEMMA HarmlessClaims ==
  ASSUME Shape, ClaimsBounded, ClaimsUnique, Harmless
  PROVE  ClaimsBounded' /\ ClaimsUnique'
  BY DEF Harmless, Working, ClaimsBounded, ClaimsUnique, Shape, LanesHaveEvents

LEMMA ClaimIsFresh ==
  ASSUME Shape, ClaimsBounded, ClaimsUnique,
         NEW l \in Lanes, NEW e \in Events, NEW n \in Nat, ClaimRow(l, e, n)
  PROVE  ClaimsBounded' /\ ClaimsUnique'
<1>1. inbox[e] \in Rows /\ inbox[e].attempts \in Nat
      /\ \A m \in Lanes : lane[m].attempts \in Nat
  BY DEF Shape, TypeOK, Rows, LaneStates
<1>2. CASE Claimable(inbox[e]) /\ inbox[e].attempts = n
  <2>1. inbox' = [inbox EXCEPT ![e] = Claimed(inbox[e])]
        /\ lane' = [lane EXCEPT ![l] = At("leased", e, n + 1)]
    BY <1>2 DEF ClaimRow
  <2>2. inbox'[e].attempts = n + 1 /\ inbox'[e].status = "PROCESSING"
        /\ \A x \in Events : x # e => inbox'[x] = inbox[x]
    BY <1>1, <1>2, <2>1, ClaimedRow DEF Shape, TypeOK
  <2>3. n + 1 \in Nat
    OBVIOUS
  <2>4. At("leased", e, n + 1).event = e /\ At("leased", e, n + 1).attempts = n + 1
    BY <2>3, LaneTypes
  <2>5. lane'[l].event = e /\ lane'[l].attempts = n + 1
        /\ \A m \in Lanes : m # l => lane'[m] = lane[m]
    BY <2>1, <2>4 DEF Shape, TypeOK
  <2>6. \A m \in Lanes : m # l /\ Working(m) /\ lane[m].event = e => lane[m].attempts <= n
    BY <1>2 DEF Working, ClaimsBounded
  <2>7. ClaimsBounded'
    BY <1>1, <1>2, <2>2, <2>5, <2>6
    DEF Working, ClaimsBounded, Shape, LanesHaveEvents
  <2>8. ClaimsUnique'
    BY <1>1, <2>5, <2>6 DEF Working, ClaimsUnique
  <2> QED
    BY <2>7, <2>8
<1>3. CASE ~(Claimable(inbox[e]) /\ inbox[e].attempts = n)
  <2>1. inbox' = inbox /\ lane' = [lane EXCEPT ![l] = Finished(l, batch')]
    BY <1>3 DEF ClaimRow
  <2>2. Harmless
    BY <2>1, FinishedLane DEF Harmless, Working, Shape, TypeOK
  <2> QED
    BY <2>2, HarmlessClaims
<1> QED
  BY <1>2, <1>3

LEMMA NextClaims ==
  ASSUME Shape, ClaimsBounded, ClaimsUnique, [Next]_vars
  PROVE  ClaimsBounded' /\ ClaimsUnique'
<1>1. /\ \A e \in Events : inbox[e] \in Rows
      /\ \A l \in Lanes : lane[l] \in LaneStates /\ lane[l].attempts \in Nat
                            /\ lane[l].event \in Events \cup {None}
      /\ inbox \in [Events -> Rows] /\ lane \in [Lanes -> LaneStates]
  BY DEF Shape, TypeOK, LaneStates
<1>2. /\ \A n \in Nat, e \in Events \cup {None} : At("received", e, n).pc = "received"
      /\ \A n \in Nat, e \in Events \cup {None} : At("claiming", e, n).pc = "claiming"
      /\ At("swept", None, 0).pc = "swept"
  BY LaneTypes
<1>3. ASSUME NEW l \in ApiLanes, NEW e \in Events, NEW v \in EnvelopesOf[e], Receive(l, e, v)
      PROVE  Harmless
  <2>1. l \in Lanes /\ inbox[e].attempts \in Nat /\ 0 \in Nat
    BY <1>1 DEF Lanes, Rows
  <2>2. \A x \in Events : inbox[x].status # "ABSENT" =>
          inbox'[x].status # "ABSENT" /\ inbox'[x].attempts = inbox[x].attempts
    BY <1>1, <1>3, ConflictedRow
    DEF Receive, ReceiveNew, ReceiveDuplicate, ReceiveConflict, Keeps
  <2>3. lane' = lane \/ lane' = [lane EXCEPT ![l] = Idle]
        \/ \E n \in Nat : lane' = [lane EXCEPT ![l] = At("received", e, n)]
    BY <1>3, <2>1 DEF Receive, ReceiveNew, ReceiveDuplicate, ReceiveConflict, Proceed
  <2> QED
    BY <1>1, <1>2, <2>1, <2>2, <2>3, IdleType DEF Harmless, Working
<1>4. ASSUME NEW l \in ApiLanes, ApiRecover(l)
      PROVE  Harmless
  <2>1. l \in Lanes /\ lane[l].event \in Events
    BY <1>4 DEF Lanes, ApiRecover, Shape, LanesHaveEvents
  <2>2. \A x \in Events : inbox[x].status # "ABSENT" =>
          inbox'[x].status # "ABSENT" /\ inbox'[x].attempts = inbox[x].attempts
    BY <1>1, <1>4, <2>1, RecoveredRow DEF ApiRecover, Keeps
  <2>3. lane' = [lane EXCEPT ![l] = At("claiming", lane[l].event, lane[l].attempts)]
    BY <1>4 DEF ApiRecover
  <2> QED
    BY <1>1, <1>2, <2>1, <2>2, <2>3 DEF Harmless, Working
<1>5. ASSUME NEW w \in WorkerLanes, WorkerSweep(w)
      PROVE  Harmless
  <2>1. \A x \in Events : inbox[x].status # "ABSENT" =>
          inbox'[x].status # "ABSENT" /\ inbox'[x].attempts = inbox[x].attempts
    BY <1>1, <1>5, RecoveredRow DEF WorkerSweep, Keeps
  <2>2. w \in Lanes /\ lane' = [lane EXCEPT ![w] = At("swept", None, 0)]
    BY <1>5 DEF WorkerSweep, Lanes
  <2> QED
    BY <1>1, <1>2, <2>1, <2>2 DEF Harmless, Working
<1>6. ASSUME NEW w \in WorkerLanes, WorkerSelect(w)
      PROVE  Harmless
  <2>1. w \in Lanes /\ inbox' = inbox
        /\ \E s \in {Idle, At("claiming", None, 0)} : lane' = [lane EXCEPT ![w] = s]
    BY <1>6 DEF WorkerSelect, dbVars, Lanes
  <2>2. At("claiming", None, 0).pc = "claiming"
    BY <1>2
  <2> QED
    BY <1>1, <2>1, <2>2, IdleType DEF Harmless, Working
<1>7. ASSUME NEW l \in Lanes, Process(l)
      PROVE  Harmless
  <2>1. \A verdict : /\ Caught(l, verdict).event = lane[l].event
                     /\ Caught(l, verdict).attempts = lane[l].attempts
    BY <1>1 DEF Caught, LaneStates
  <2>2. Working(l)
    BY <1>7 DEF Process, TransitionCommits, TransitionRefused, TransitionFails,
                HandleError, Working
  <2>3. \E next \in {Finished(l, batch), Caught(l, "RETRY"), Caught(l, "QUARANTINE")} :
          lane' = [lane EXCEPT ![l] = next]
    BY <1>7 DEF Process, TransitionCommits, TransitionRefused, TransitionFails, HandleError
  <2>4. lane[l].event \in Events
    BY <2>2 DEF Working, Shape, LanesHaveEvents
  <2>5. \A x \in Events : inbox[x].status # "ABSENT" =>
          inbox'[x].status # "ABSENT" /\ inbox'[x].attempts = inbox[x].attempts
    <3>1. CASE TransitionCommits(l)
      <4>1. inbox[lane[l].event].env.dispute \in Disputes
        BY <2>4, <3>1 DEF TransitionCommits, OwnsLease, OwnedBy, Shape, RowsHaveEnvelopes, Envelopes
      <4>2. inbox' = [inbox EXCEPT ![lane[l].event] =
                        Completed(inbox[lane[l].event], inbox[lane[l].event].env.dispute)]
        BY <3>1 DEF TransitionCommits, CompleteEvent
      <4> QED
        BY <1>1, <2>4, <4>1, <4>2, CompletedRow DEF Keeps
    <3>2. CASE TransitionRefused(l) \/ TransitionFails(l)
      BY <3>2 DEF TransitionRefused, TransitionFails, dbVars
    <3>3. CASE HandleError(l)
      BY <1>1, <2>4, <3>3, ReturnedRow DEF HandleError, Keeps
    <3> QED
      BY <1>7, <3>1, <3>2, <3>3 DEF Process
  <2> QED
    BY <1>1, <2>1, <2>2, <2>3, <2>5, FinishedLane DEF Harmless, Working
<1>8. ASSUME \/ \E d \in Deposits : CreditDeposit(d)
             \/ \E o \in Orders : PayOrder(o) \/ RefundOrder(o)
             \/ UNCHANGED vars
      PROVE  Harmless
  BY <1>8 DEF CreditDeposit, PayOrder, RefundOrder, vars, Harmless, Working
<1>9. ASSUME NEW e \in Events, Elapse(e)
      PROVE  Harmless
  BY <1>1, <1>9, DueRow DEF Elapse, Keeps, Harmless, Working
<1>10. ASSUME NEW l \in Lanes, Crash(l)
       PROVE  Harmless
  BY <1>1, <1>10, IdleType DEF Crash, dbVars, Harmless, Working
<1>11. ASSUME NEW r \in Runtimes, Redeploy(r)
       PROVE  Harmless
  BY <1>11, IdleType DEF Redeploy, dbVars, Harmless, Working
<1>12. ASSUME NEW l \in ApiLanes, ApiClaim(l)
       PROVE  ClaimsBounded' /\ ClaimsUnique'
  BY <1>1, <1>12, ClaimIsFresh DEF ApiClaim, Lanes, Shape, LanesHaveEvents
<1>13. ASSUME NEW w \in WorkerLanes, WorkerClaim(w)
       PROVE  ClaimsBounded' /\ ClaimsUnique'
  <2>1. PICK c \in batch[w] : ClaimRow(w, c.event, c.attempts)
    BY <1>13 DEF WorkerClaim
  <2>2. w \in Lanes /\ c.event \in Events /\ c.attempts \in Nat
    BY <2>1 DEF Lanes, Shape, TypeOK
  <2> QED
    BY <2>1, <2>2, ClaimIsFresh
<1> QED
  BY <1>3, <1>4, <1>5, <1>6, <1>7, <1>8, <1>9, <1>10, <1>11, <1>12, <1>13,
     HarmlessClaims DEF Next

-----------------------------------------------------------------------------
(* The theorems.                                                           *)

LEMMA NextShape ==
  ASSUME Shape, [Next]_vars
  PROVE  Shape' /\ (WalletReconciles => WalletReconciles')
<1>1. ASSUME NEW l \in ApiLanes, NEW e \in Events, NEW v \in EnvelopesOf[e], Receive(l, e, v)
      PROVE  Shape' /\ (WalletReconciles => WalletReconciles')
  BY <1>1, ReceiveShape DEF Receive, WalletReconciles
<1>2. ASSUME NEW l \in ApiLanes, ApiRecover(l) \/ ApiClaim(l)
      PROVE  Shape' /\ (WalletReconciles => WalletReconciles')
  <2>1. l \in Lanes
    BY DEF Lanes
  <2> QED
    BY <1>2, <2>1, ClaimingShape DEF ApiRecover, ApiClaim, WalletReconciles
<1>3. ASSUME NEW w \in WorkerLanes, WorkerSweep(w) \/ WorkerSelect(w) \/ WorkerClaim(w)
      PROVE  Shape' /\ (WalletReconciles => WalletReconciles')
  <2>1. w \in Lanes
    BY DEF Lanes
  <2>2. Shape'
    BY <1>3, <2>1, ClaimingShape
  <2> QED
    BY <1>3, <2>2 DEF WorkerSweep, WorkerSelect, WorkerClaim, dbVars, WalletReconciles
<1>4. ASSUME NEW l \in Lanes, Process(l)
      PROVE  Shape' /\ (WalletReconciles => WalletReconciles')
  BY <1>4, ProcessShape
<1>5. CASE UNCHANGED vars
  BY <1>5 DEF vars, Shape, TypeOK, RowsHaveEnvelopes, LanesHaveEvents, WalletReconciles
<1> QED
  BY <1>1, <1>2, <1>3, <1>4, <1>5, EnvironmentShape DEF Next

\* The inductive invariant holds in every reachable state.
THEOREM Invariance == Spec => []IInv
<1>1. Init => IInv
  <2> SUFFICES ASSUME Init PROVE IInv
    OBVIOUS
  <2>1. Shape
    BY InitShape
  <2>2. WalletReconciles
    BY DEF Init, WalletReconciles, LedgerTypes
  <2>3. \A l \in Lanes : lane[l].pc = "idle"
    BY IdleType DEF Init
  <2> QED
    BY <2>1, <2>2, <2>3 DEF IInv, ClaimsBounded, ClaimsUnique
<1>2. IInv /\ [Next]_vars => IInv'
  BY NextShape, NextClaims DEF IInv
<1> QED
  BY <1>1, <1>2, PTL DEF Spec

\* Type correctness for every instance: in particular no interleaving of
\* dispute events, payments, refunds and retries drives a wallet balance
\* negative.
THEOREM TypeCorrect == Spec => []TypeOK
<1>1. IInv => TypeOK
  BY DEF IInv, Shape
<1> QED
  BY <1>1, Invariance, PTL

\* checkWallets of the reconciliation never reports WALLET_DRIFT.
THEOREM WalletAlwaysReconciles == Spec => []WalletReconciles
<1>1. IInv => WalletReconciles
  BY DEF IInv
<1> QED
  BY <1>1, Invariance, PTL

\* At most one lane ever holds the current claim of an inbox row.
THEOREM LeaseExclusive == Spec => []OneLeaseHolder
<1>1. IInv => OneLeaseHolder
  BY DEF IInv, ClaimsUnique, OneLeaseHolder, Holds, OwnsLease, OwnedBy
<1> QED
  BY <1>1, Invariance, PTL

-----------------------------------------------------------------------------
(* Terminal cases are final.                                               *)

LEMMA TransitionTerminal ==
  ASSUME Shape, NEW e \in Events, NEW v \in Envelopes,
         AttachOpen(e, v) \/ ReplayTerminal(e, v) \/ Resolve(e, v) \/ Book(e, v)
  PROVE  TerminalStep
<1>1. v.dispute \in Disputes /\ cases \in [Disputes -> CaseRows]
  BY DEF Envelopes, Shape, TypeOK
<1>2. \A p \in Disputes : /\ cases[p].openedBy \in Events \cup {None}
                          /\ [cases[p] EXCEPT !.openedBy = cases[p].openedBy] = cases[p]
  BY <1>1 DEF CaseRows
<1>3. CASE AttachOpen(e, v)
  <2> DEFINE o == IF cases[v.dispute].openedBy = None THEN e ELSE cases[v.dispute].openedBy
  <2>1. o \in Events \cup {None}
        /\ cases' = [cases EXCEPT ![v.dispute] = [cases[v.dispute] EXCEPT !.openedBy = o]]
    BY <1>1, <1>2, <1>3 DEF AttachOpen
  <2> HIDE DEF o
  <2> QED
    BY <1>1, <1>2, <2>1 DEF TerminalStep
<1>4. CASE ReplayTerminal(e, v)
  BY <1>2, <1>4 DEF ReplayTerminal, TerminalStep
<1>5. CASE Resolve(e, v) \/ Book(e, v)
  <2>1. cases[v.dispute].status \notin {"WON", "LOST"}
        /\ \A p \in Disputes : p # v.dispute => cases'[p] = cases[p]
    BY <1>1, <1>5 DEF Resolve, Book
  <2> QED
    BY <1>2, <2>1 DEF TerminalStep
<1> QED
  BY <1>3, <1>4, <1>5

\* No late, repeated or contradicting provider event changes the outcome, the
\* money or the resolution evidence of a case that is WON or LOST.
THEOREM TerminalIsFinal == Spec => TerminalFinal
<1>1. Shape /\ [Next]_vars => [TerminalStep]_vars
  <2> SUFFICES ASSUME Shape, [Next]_vars PROVE TerminalStep \/ UNCHANGED vars
    OBVIOUS
  <2>1. ASSUME UNCHANGED cases PROVE TerminalStep
    <3>1. \A p \in Disputes : /\ cases[p].openedBy \in Events \cup {None}
                              /\ [cases[p] EXCEPT !.openedBy = cases[p].openedBy] = cases[p]
      BY DEF Shape, TypeOK, CaseRows
    <3> QED
      BY <2>1, <3>1 DEF TerminalStep
  <2>2. ASSUME NEW l \in Lanes, TransitionCommits(l) PROVE TerminalStep
    <3>1. lane[l].event \in Events
      BY <2>2 DEF TransitionCommits, Shape, LanesHaveEvents
    <3>2. inbox[lane[l].event].env \in Envelopes
      BY <2>2, <3>1 DEF TransitionCommits, OwnsLease, OwnedBy, Shape, RowsHaveEnvelopes
    <3> QED
      BY <2>2, <3>1, <3>2, TransitionTerminal DEF TransitionCommits
  <2>3. \/ UNCHANGED cases \/ UNCHANGED vars
        \/ \E l \in Lanes : TransitionCommits(l)
    BY DEF Next, Receive, ApiRecover, ApiClaim, WorkerSweep, WorkerSelect, WorkerClaim,
           Process, TransitionRefused, TransitionFails, HandleError, Crash,
           CreditDeposit, PayOrder, RefundOrder, Elapse, Redeploy, dbVars
  <2> QED
    BY <2>1, <2>2, <2>3
<1>2. IInv => Shape
  BY DEF IInv
<1> QED
  BY <1>1, <1>2, Invariance, PTL DEF Spec, TerminalFinal

-----------------------------------------------------------------------------
(* A live lease is ended only by its holder.                                *)

\* A lane whose claim was taken over, or whose lease another lane recovered,
\* never changes the row: only the holder or an identity conflict does.
THEOREM LeaseIsFenced == Spec => LeaseFenced
<1>1. Shape /\ [Next]_vars => [LeaseStep]_vars
  <2> SUFFICES ASSUME Shape, [Next]_vars, NEW e \in Events,
                      inbox[e].status = "PROCESSING", ~inbox[e].due,
                      inbox'[e].status # "PROCESSING"
               PROVE  \/ inbox'[e].conflict
                      \/ \E l \in Lanes : Holds(l, e) /\ lane'[l] # lane[l]
    BY DEF LeaseStep
  <2>1. /\ \A x \in Events : inbox[x] \in Rows
        /\ inbox \in [Events -> Rows] /\ lane \in [Lanes -> LaneStates]
    BY DEF Shape, TypeOK
  <2>2. ASSUME NEW l \in ApiLanes, NEW x \in Events, NEW v \in EnvelopesOf[x], Receive(l, x, v)
        PROVE  inbox'[e].conflict
    BY <2>1, <2>2, ConflictedRow
    DEF Receive, ReceiveNew, ReceiveDuplicate, ReceiveConflict
  <2>3. Recovered(inbox[e]) = inbox[e]
    BY DEF Recovered, Stale
  <2>4. ASSUME NEW l \in ApiLanes, ApiRecover(l) PROVE FALSE
    BY <2>1, <2>3, <2>4 DEF ApiRecover, Shape, LanesHaveEvents, Lanes
  <2>5. ASSUME NEW w \in WorkerLanes, WorkerSweep(w) PROVE FALSE
    BY <2>3, <2>5 DEF WorkerSweep
  <2>6. ASSUME NEW l \in Lanes, NEW x \in Events, NEW n \in Nat, ClaimRow(l, x, n) PROVE FALSE
    BY <2>1, <2>6, ClaimedRow DEF ClaimRow, Claimable
  <2>7. ASSUME NEW l \in ApiLanes, ApiClaim(l) PROVE FALSE
    <3>1. l \in Lanes /\ lane[l].event \in Events /\ lane[l].attempts \in Nat
      BY <2>1, <2>7 DEF ApiClaim, Shape, LanesHaveEvents, Lanes, LaneStates
    <3> QED
      BY <2>6, <2>7, <3>1 DEF ApiClaim
  <2>8. ASSUME NEW w \in WorkerLanes, WorkerClaim(w) PROVE FALSE
    <3>1. PICK c \in batch[w] : ClaimRow(w, c.event, c.attempts)
      BY <2>8 DEF WorkerClaim
    <3>2. w \in Lanes /\ c.event \in Events /\ c.attempts \in Nat
      BY <3>1 DEF Lanes, Shape, TypeOK
    <3> QED
      BY <2>6, <3>1, <3>2
  <2>9. ASSUME NEW l \in Lanes, TransitionCommits(l) \/ HandleError(l)
        PROVE  Holds(l, e) /\ lane'[l] # lane[l]
    <3>1. lane[l].pc \in {"leased", "caught"} /\ lane[l].event \in Events
      BY <2>9 DEF TransitionCommits, HandleError, Shape, LanesHaveEvents
    <3>2. OwnsLease(l) /\ lane[l].event = e
      BY <2>1, <2>9, <3>1 DEF TransitionCommits, CompleteEvent, HandleError
    <3>3. lane'[l].pc # lane[l].pc
      <4>1. CASE TransitionCommits(l)
        <5>1. \E next \in {Finished(l, batch), Caught(l, "RETRY"), Caught(l, "QUARANTINE")} :
                lane' = [lane EXCEPT ![l] = next]
          BY <4>1 DEF TransitionCommits
        <5>2. \A verdict : Caught(l, verdict).pc = "caught"
          BY <2>1 DEF Caught, LaneStates
        <5> QED
          BY <2>1, <4>1, <5>1, <5>2, FinishedLane DEF TransitionCommits
      <4>2. CASE HandleError(l)
        BY <2>1, <4>2, FinishedLane DEF HandleError
      <4> QED
        BY <2>9, <4>1, <4>2
    <3> QED
      BY <3>1, <3>2, <3>3 DEF Holds
  <2>10. ASSUME NEW x \in Events, Elapse(x) PROVE FALSE
    BY <2>1, <2>10, DueRow DEF Elapse
  <2>11. ASSUME inbox' = inbox PROVE FALSE
    BY <2>11
  <2>12. \/ inbox' = inbox
         \/ \E l \in ApiLanes : \/ \E x \in Events : \E v \in EnvelopesOf[x] : Receive(l, x, v)
                                \/ ApiRecover(l) \/ ApiClaim(l)
         \/ \E w \in WorkerLanes : WorkerSweep(w) \/ WorkerClaim(w)
         \/ \E l \in Lanes : TransitionCommits(l) \/ HandleError(l)
         \/ \E x \in Events : Elapse(x)
    BY DEF Next, WorkerSelect, Process, TransitionRefused, TransitionFails, Crash,
           CreditDeposit, PayOrder, RefundOrder, Redeploy, dbVars, vars
  <2> QED
    BY <2>2, <2>4, <2>5, <2>7, <2>8, <2>9, <2>10, <2>11, <2>12
<1>2. IInv => Shape
  BY DEF IInv
<1> QED
  BY <1>1, <1>2, Invariance, PTL DEF Spec, LeaseFenced


-----------------------------------------------------------------------------
(* Cases, their evidence, their holds and the deposits they project to.     *)

\* A dispute without a case has no money, deposit or evidence.
CasesStartEmpty ==
  \A p \in Disputes : cases[p].status = "NONE" => cases[p] = NoCase

CaseInv ==
  /\ CasesStartEmpty /\ HoldsBacked /\ CaseEvidence /\ DepositProjected

\* A late open event is attached, or nothing happens to the case.
Attached(e, v) ==
  LET c == cases[v.dispute]
      n == cases'[v.dispute]
  IN /\ c.status # "NONE" /\ ExactCase(c, v)
     /\ n.status = c.status /\ n.deposit = c.deposit /\ n.amount = c.amount
     /\ n.held = c.held /\ n.shortfall = c.shortfall /\ n.exposure = c.exposure
     /\ n.resolvedBy = c.resolvedBy /\ n.holdTx = c.holdTx
     /\ n.resolutionTx = c.resolutionTx
     /\ \/ n.openedBy = c.openedBy
        \/ c.openedBy = None /\ n.openedBy = e /\ v.target = "OPEN"
     /\ available' = available /\ reserved' = reserved

\* An open case is closed.
Closed(e, v) ==
  LET c == cases[v.dispute]
      n == cases'[v.dispute]
  IN /\ c.status = "OPEN" /\ ExactCase(c, v)
     /\ v.target \in {"WON", "LOST"} /\ n.status = v.target
     /\ n.deposit = c.deposit /\ n.amount = c.amount /\ n.held = c.held
     /\ n.shortfall = c.shortfall /\ n.openedBy = c.openedBy
     /\ n.holdTx = c.holdTx /\ n.resolvedBy = e
     /\ n.resolutionTx = (IF v.target = "WON" THEN c.held ELSE 0 - c.held)
     /\ n.exposure = (IF v.target = "WON" THEN 0 ELSE c.shortfall)
     /\ reserved' = reserved - c.held
     /\ available' = (IF v.target = "WON" THEN available + c.held ELSE available)

\* The first event books a case.
Booked(e, v) ==
  LET n == cases'[v.dispute]
  IN /\ cases[v.dispute].status = "NONE" /\ n.status = v.target
     /\ Disputed(v.deposit) + v.amount <= Credit[v.deposit]
     /\ n.deposit = v.deposit /\ n.amount = v.amount
     /\ n.held \in Nat /\ n.held <= available /\ n.held <= v.amount
     /\ v.target = "WON" => n.held = 0
     /\ n.shortfall = v.amount - n.held
     /\ n.exposure = (IF v.target = "WON" THEN 0 ELSE n.shortfall)
     /\ n.openedBy = (IF v.target = "OPEN" THEN e ELSE None)
     /\ n.resolvedBy = (IF v.target = "OPEN" THEN None ELSE e)
     /\ n.holdTx = (IF v.target = "OPEN" THEN 0 - n.held ELSE 0)
     /\ n.resolutionTx = (IF v.target = "OPEN" THEN 0 ELSE 0 - n.held)
     /\ available' = available - n.held
     /\ reserved' = (IF v.target = "OPEN" THEN reserved + n.held ELSE reserved)

\* What a disputed amount must add up to.
LEMMA DisputedInt ==
  ASSUME cases \in [Disputes -> CaseRows], NEW d \in Deposits
  PROVE  Disputed(d) \in Nat
<1> DEFINE f == [p \in Disputes |-> IF cases[p].deposit = d THEN cases[p].amount ELSE 0]
<1>1. IsFiniteSet(Disputes) /\ \A p \in Disputes : f[p] \in Nat
  BY ConstantsAssumption DEF CaseRows
<1>2. SumFunctionOnSet(f, Disputes) \in Nat
  <2> HIDE DEF f
  <2> QED BY <1>1, SumNat
<1> QED
  BY <1>2 DEF Disputed, SumFunction

\* Every transition books, closes or attaches, and leaves the other cases.
LEMMA TransitionCases ==
  ASSUME Shape, NEW e \in Events, NEW v \in Envelopes, v.target \in Targets,
         ~Refusal(v),
         AttachOpen(e, v) \/ ReplayTerminal(e, v) \/ Resolve(e, v) \/ Book(e, v)
  PROVE  /\ \A p \in Disputes : p # v.dispute => cases'[p] = cases[p]
         /\ Attached(e, v) \/ Closed(e, v) \/ Booked(e, v)
<1> DEFINE c == cases[v.dispute]
<1>1. /\ v.dispute \in Disputes /\ v.deposit \in Deposits
      /\ v.amount \in Nat \ {0} /\ v.amount \in Nat
  BY DEF Envelopes
<1>2. /\ c \in CaseRows /\ cases \in [Disputes -> CaseRows]
      /\ c.held \in Nat /\ c.shortfall \in Nat
  BY <1>1 DEF Shape, TypeOK, CaseRows
<1>3. available \in Nat /\ reserved \in Nat
  BY DEF Shape, TypeOK
<1>4. \A p \in Disputes : p # v.dispute => cases'[p] = cases[p]
  BY <1>2 DEF AttachOpen, ReplayTerminal, Resolve, Book
<1>5. c.status # "NONE" => ExactCase(c, v)
  BY DEF Refusal
<1>6. CASE AttachOpen(e, v)
  <2> DEFINE o == IF c.openedBy = None THEN e ELSE c.openedBy
             n == [c EXCEPT !.openedBy = o]
  <2>1. cases'[v.dispute] = n
    BY <1>1, <1>2, <1>6 DEF AttachOpen
  <2>2. /\ n.status = c.status /\ n.deposit = c.deposit /\ n.amount = c.amount
        /\ n.held = c.held /\ n.shortfall = c.shortfall /\ n.exposure = c.exposure
        /\ n.resolvedBy = c.resolvedBy /\ n.holdTx = c.holdTx
        /\ n.resolutionTx = c.resolutionTx /\ n.openedBy = o
    BY <1>2 DEF CaseRows
  <2>3. c.status # "NONE" /\ v.target = "OPEN" /\ available' = available
        /\ reserved' = reserved
    BY <1>6 DEF AttachOpen
  <2>4. Attached(e, v)
    BY <1>5, <2>1, <2>2, <2>3 DEF Attached
  <2> QED BY <1>4, <2>4
<1>7. CASE ReplayTerminal(e, v)
  <2>1. Attached(e, v)
    BY <1>5, <1>7 DEF ReplayTerminal, Attached, Targets
  <2> QED BY <1>4, <2>1
<1>8. CASE Resolve(e, v)
  <2> DEFINE n == [c EXCEPT !.status = v.target, !.resolvedBy = e,
                     !.resolutionTx = IF v.target = "WON" THEN c.held ELSE 0 - c.held,
                     !.exposure = IF v.target = "WON" THEN 0 ELSE c.shortfall]
  <2>1. cases'[v.dispute] = n
    BY <1>1, <1>2, <1>8 DEF Resolve
  <2>2. /\ n.status = v.target /\ n.deposit = c.deposit /\ n.amount = c.amount
        /\ n.held = c.held /\ n.shortfall = c.shortfall /\ n.openedBy = c.openedBy
        /\ n.holdTx = c.holdTx /\ n.resolvedBy = e
        /\ n.resolutionTx = (IF v.target = "WON" THEN c.held ELSE 0 - c.held)
        /\ n.exposure = (IF v.target = "WON" THEN 0 ELSE c.shortfall)
    BY <1>2 DEF CaseRows
  <2>3. /\ c.status = "OPEN" /\ v.target \in {"WON", "LOST"}
        /\ reserved' = reserved - c.held
        /\ available' = (IF v.target = "WON" THEN available + c.held ELSE available)
    BY <1>8 DEF Resolve, Targets
  <2> HIDE DEF n
  <2>4. Closed(e, v)
    BY <1>5, <2>1, <2>2, <2>3 DEF Closed
  <2> QED BY <1>4, <2>4
<1>9. CASE Book(e, v)
  <2> DEFINE h == HeldFor(v)
             n == [status |-> v.target, deposit |-> v.deposit,
                   amount |-> v.amount, held |-> h, shortfall |-> v.amount - h,
                   exposure |-> IF v.target = "WON" THEN 0 ELSE v.amount - h,
                   openedBy |-> IF v.target = "OPEN" THEN e ELSE None,
                   resolvedBy |-> IF v.target = "OPEN" THEN None ELSE e,
                   holdTx |-> IF v.target = "OPEN" THEN 0 - h ELSE 0,
                   resolutionTx |-> IF v.target = "OPEN" THEN 0 ELSE 0 - h]
  <2>1. h \in Nat /\ h <= available /\ h <= v.amount /\ (v.target = "WON" => h = 0)
    BY <1>1, <1>3 DEF HeldFor, Lesser
  <2>2. c.status = "NONE" /\ cases'[v.dispute] = n
    BY <1>1, <1>2, <1>9 DEF Book
  <2>3. ~(Disputed(v.deposit) + v.amount > Credit[v.deposit])
    BY <2>2 DEF Refusal
  <2>4. Disputed(v.deposit) + v.amount <= Credit[v.deposit]
    BY <1>1, <1>2, <2>3, DisputedInt, ConstantsAssumption
  <2>5. /\ available' = available - h
        /\ reserved' = (IF v.target = "OPEN" THEN reserved + h ELSE reserved)
    BY <1>9 DEF Book
  <2> HIDE DEF h
  <2>6. Booked(e, v)
    BY <2>1, <2>2, <2>4, <2>5 DEF Booked
  <2> QED BY <1>4, <2>6
<1> QED
  BY <1>6, <1>7, <1>8, <1>9


\* The reserved balance and the disputed amounts follow a transition.
LEMMA TransitionHolds ==
  ASSUME Shape, Shape', CaseInv, NEW e \in Events, NEW v \in Envelopes,
         v.target \in Targets,
         \A p \in Disputes : p # v.dispute => cases'[p] = cases[p],
         Attached(e, v) \/ Closed(e, v) \/ Booked(e, v)
  PROVE  HoldsBacked'
<1>1. v.dispute \in Disputes /\ v.deposit \in Deposits /\ v.amount \in Nat
  BY DEF Envelopes
<1>2. PICK q \in Disputes : q = v.dispute
  BY <1>1
<1>3. /\ IsFiniteSet(Disputes) /\ reserved \in Nat
      /\ \A p \in Disputes : /\ cases[p] \in CaseRows /\ cases'[p] \in CaseRows
                             /\ cases[p].held \in Nat /\ cases'[p].held \in Nat
                             /\ cases[p].amount \in Nat /\ cases'[p].amount \in Nat
                             /\ cases[p].shortfall \in Nat
  BY ConstantsAssumption DEF Shape, TypeOK, CaseRows
<1>4. reserved' = SumFunction([p \in Disputes |->
                     IF cases'[p].status = "OPEN" THEN cases'[p].held ELSE 0])
  <2> DEFINE f == [p \in Disputes |-> IF cases[p].status = "OPEN" THEN cases[p].held ELSE 0]
             g == [p \in Disputes |-> IF cases'[p].status = "OPEN" THEN cases'[p].held ELSE 0]
  <2>1. reserved = SumFunctionOnSet(f, Disputes)
    BY DEF CaseInv, HoldsBacked, SumFunction
  <2>2. \A p \in Disputes : f[p] \in Int /\ g[p] \in Int
    BY <1>3
  <2>3. \A p \in Disputes : p # q => g[p] = f[p]
    BY <1>2
  <2>4. f[q] \in Int /\ g[q] \in Int /\ reserved' = reserved + g[q] - f[q]
    <3>1. CASE Attached(e, v)
      BY <1>2, <1>3, <3>1 DEF Attached
    <3>2. CASE Closed(e, v)
      BY <1>2, <1>3, <3>2 DEF Closed
    <3>3. CASE Booked(e, v)
      BY <1>2, <1>3, <3>3 DEF Booked
    <3> QED BY <3>1, <3>2, <3>3
  <2>5. SumFunctionOnSet(g, Disputes) = SumFunctionOnSet(f, Disputes) + g[q] - f[q]
    <3> HIDE DEF f, g
    <3> QED BY ONLY <1>3, <2>2, <2>3, q \in Disputes, SumChange
  <2>6. reserved' = SumFunctionOnSet(g, Disputes)
    <3> HIDE DEF f, g
    <3> QED BY <2>1, <2>4, <2>5
  <2>7. SumFunction(g) = SumFunctionOnSet(g, Disputes)
    BY DEF SumFunction
  <2> QED BY <2>6, <2>7
<1>5. ASSUME NEW d \in Deposits PROVE Disputed(d)' <= Credit[d]
  <2> DEFINE f == [p \in Disputes |-> IF cases[p].deposit = d THEN cases[p].amount ELSE 0]
             g == [p \in Disputes |-> IF cases'[p].deposit = d THEN cases'[p].amount ELSE 0]
  <2>1. Disputed(d) = SumFunctionOnSet(f, Disputes)
    BY DEF Disputed, SumFunction
  <2>2. \A p \in Disputes : f[p] \in Int /\ g[p] \in Int
    BY <1>3
  <2>3. \A p \in Disputes : p # q => g[p] = f[p]
    BY <1>2
  <2>4. SumFunctionOnSet(g, Disputes) = SumFunctionOnSet(f, Disputes) + g[q] - f[q]
    <3> HIDE DEF f, g
    <3>1. IsFiniteSet(Disputes)
      BY <1>3
    <3> QED BY ONLY <2>2, <2>3, <3>1, q \in Disputes, SumChange
  <2>5. Disputed(d)' = SumFunctionOnSet(g, Disputes)
    BY DEF Disputed, SumFunction
  <2>6. /\ Disputed(d) \in Nat /\ Disputed(d) <= Credit[d] /\ Credit[d] \in Nat
        /\ f[q] \in Int /\ g[q] \in Int
    BY <1>3, DisputedInt, ConstantsAssumption DEF CaseInv, HoldsBacked, Shape, TypeOK
  <2>7. CASE g[q] = f[q]
    <3> HIDE DEF f, g
    <3> QED BY <2>1, <2>4, <2>5, <2>6, <2>7
  <2>8. CASE g[q] # f[q]
    <3>1. Booked(e, v)
      BY <1>2, <2>8 DEF Attached, Closed
    <3>2. cases[q] = NoCase
      BY <1>2, <3>1 DEF Booked, CaseInv, CasesStartEmpty
    <3>3. f[q] = 0
      BY <3>2 DEF NoCase
    <3>4. d = v.deposit /\ g[q] = v.amount
      BY <1>2, <2>8, <3>1, <3>3 DEF Booked
    <3>5. Disputed(d) + v.amount <= Credit[d]
      BY <3>1, <3>4 DEF Booked
    <3> HIDE DEF f, g
    <3> QED BY <1>1, <2>1, <2>4, <2>5, <2>6, <3>3, <3>4, <3>5
  <2> QED BY <2>7, <2>8
<1>6. \A p \in Disputes :
        /\ cases'[p].held + cases'[p].shortfall = cases'[p].amount
        /\ cases'[p].exposure =
             (IF cases'[p].status = "WON" THEN 0 ELSE cases'[p].shortfall)
  <2>1. \A p \in Disputes :
          /\ cases[p].held + cases[p].shortfall = cases[p].amount
          /\ cases[p].exposure =
               (IF cases[p].status = "WON" THEN 0 ELSE cases[p].shortfall)
    BY DEF CaseInv, HoldsBacked
  <2>2. /\ cases'[q].held + cases'[q].shortfall = cases'[q].amount
        /\ cases'[q].exposure =
             (IF cases'[q].status = "WON" THEN 0 ELSE cases'[q].shortfall)
    <3>1. CASE Attached(e, v)
      BY <1>2, <2>1, <3>1 DEF Attached
    <3>2. CASE Closed(e, v)
      BY <1>2, <2>1, <3>2 DEF Closed
    <3>3. CASE Booked(e, v)
      BY <1>1, <1>2, <1>3, <3>3 DEF Booked
    <3> QED BY <3>1, <3>2, <3>3
  <2> QED BY <1>2, <2>1, <2>2
<1> QED
  BY <1>4, <1>5, <1>6 DEF HoldsBacked

\* A deposit shows what its cases require after a transition.
LEMMA TransitionProjects ==
  ASSUME Shape, Shape', CaseInv, NEW e \in Events, NEW v \in Envelopes,
         v.target \in Targets, Linked(v),
         \A p \in Disputes : p # v.dispute => cases'[p] = cases[p],
         Attached(e, v) \/ Closed(e, v) \/ Booked(e, v),
         deposit' = [deposit EXCEPT ![v.deposit] =
                       Projection(StatusesOf(cases', v.deposit))]
  PROVE  DepositProjected'
<1>1. v.dispute \in Disputes /\ v.deposit \in Deposits
  BY DEF Envelopes
<1>2. deposit \in [Deposits -> CreditBacked \cup {"UNPAID"}]
  BY DEF Shape, TypeOK
<1>3. /\ cases'[v.dispute].deposit = v.deposit
      /\ cases[v.dispute].deposit = v.deposit \/ cases[v.dispute].status = "NONE"
  BY DEF Attached, Closed, Booked, ExactCase
<1>4. ASSUME NEW d \in Deposits, d # v.deposit
      PROVE  /\ deposit'[d] = deposit[d]
             /\ \A s \in Targets :
                  (\E p \in Disputes : cases'[p].deposit = d /\ cases'[p].status = s)
                  <=> (\E p \in Disputes : cases[p].deposit = d /\ cases[p].status = s)
  BY <1>1, <1>2, <1>3, <1>4 DEF Targets
<1>5. \A s : s \in StatusesOf(cases', v.deposit) <=>
        \E p \in Disputes : cases'[p].deposit = v.deposit /\ cases'[p].status = s
  BY DEF StatusesOf
<1>6. deposit'[v.deposit] = Projection(StatusesOf(cases', v.deposit))
  BY <1>1, <1>2
<1> SUFFICES ASSUME NEW d \in Deposits
             PROVE  LET against(s) == \E p \in Disputes :
                                        cases'[p].deposit = d /\ cases'[p].status = s
                    IN  /\ deposit'[d] = "CHARGEBACK" <=> against("LOST")
                        /\ deposit'[d] = "DISPUTED" <=> against("OPEN") /\ ~against("LOST")
                        /\ deposit'[d] = "UNPAID" => ~against("WON")
  BY DEF DepositProjected
<1>7. CASE d = v.deposit
  BY <1>5, <1>6, <1>7 DEF Projection
<1>8. CASE d # v.deposit
  BY <1>4, <1>8 DEF CaseInv, DepositProjected, Targets
<1> QED
  BY <1>7, <1>8

\* Recorded evidence of a case is not touched.
EvidenceKept ==
  \A x \in Events :
    inbox[x].status = "PROCESSED" /\
    (\E p \in Disputes : cases[p].openedBy = x \/ cases[p].resolvedBy = x)
    => inbox'[x] = inbox[x]

\* The event row backs case row c of dispute p in one of the roles t.
Backs(row, c, p, t) ==
  /\ row.status = "PROCESSED" /\ row.linked = p
  /\ row.env.dispute = p /\ row.env.deposit = c.deposit
  /\ row.env.amount = c.amount /\ row.env.target \in t

\* What CaseEvidence says of one case row, given the event rows.
CaseBacked(rows, c, p) ==
  /\ c.openedBy # None =>
       c.openedBy \in Events /\ Backs(rows[c.openedBy], c, p, {"OPEN"})
  /\ c.status = "OPEN" =>
       /\ c.openedBy # None /\ c.resolvedBy = None
       /\ c.resolutionTx = 0 /\ c.holdTx = 0 - c.held
  /\ c.status \in {"WON", "LOST"} =>
       /\ c.resolvedBy \in Events /\ Backs(rows[c.resolvedBy], c, p, {c.status})
       /\ c.resolutionTx = (IF c.status = "WON" THEN c.held ELSE 0 - c.held)
       /\ c.status = "WON" => c.holdTx = 0 - c.held
       /\ c.holdTx \in {0, 0 - c.held}

LEMMA EvidenceIsBacking ==
  /\ CaseEvidence <=> \A p \in Disputes : CaseBacked(inbox, cases[p], p)
  /\ CaseEvidence' <=> \A p \in Disputes : CaseBacked(inbox', cases'[p], p)
<1>1. CaseEvidence <=> \A p \in Disputes : CaseBacked(inbox, cases[p], p)
  BY DEF CaseEvidence, IsEvidence, CaseBacked, Backs
<1>2. CaseEvidence' <=> \A p \in Disputes : CaseBacked(inbox', cases'[p], p)
  BY DEF CaseEvidence, IsEvidence, CaseBacked, Backs
<1> QED
  BY <1>1, <1>2

\* Evidence that is kept keeps backing the same case.
LEMMA BackingKept ==
  ASSUME NEW p \in Disputes, EvidenceKept, CaseBacked(inbox, cases[p], p),
         cases'[p] = cases[p]
  PROVE  CaseBacked(inbox', cases'[p], p)
  BY DEF EvidenceKept, CaseBacked, Backs

\* The events of a transition back the case it leaves.
LEMMA TransitionEvidence ==
  ASSUME Shape, Shape', CaseInv, NEW e \in Events, NEW v \in Envelopes,
         v.target \in Targets, EvidenceKept,
         \A p \in Disputes : p # v.dispute => cases'[p] = cases[p],
         Attached(e, v) \/ Closed(e, v) \/ Booked(e, v),
         inbox'[e].status = "PROCESSED", inbox'[e].linked = v.dispute,
         inbox'[e].env = v
  PROVE  CaseEvidence' /\ CasesStartEmpty'
<1>1. v.dispute \in Disputes /\ v.deposit \in Deposits /\ v.amount \in Nat
  BY DEF Envelopes
<1>2. PICK q \in Disputes : q = v.dispute
  BY <1>1
<1>3. PICK c, n : c = cases[q] /\ n = cases'[q]
  OBVIOUS
<1>4. /\ c.held \in Nat /\ n.held \in Nat /\ None \notin Events
  BY <1>3, ConstantsAssumption DEF Shape, TypeOK, CaseRows
<1>5. \A p \in Disputes : CaseBacked(inbox, cases[p], p)
  BY EvidenceIsBacking DEF CaseInv
<1>6. n.deposit = v.deposit /\ n.amount = v.amount
  BY <1>2, <1>3 DEF Attached, Closed, Booked, ExactCase
<1>7. \A t : v.target \in t => Backs(inbox'[e], n, q, t)
  BY <1>2, <1>6 DEF Backs
<1>8. ASSUME NEW x \in Events, NEW t, x = c.openedBy \/ x = c.resolvedBy,
             Backs(inbox[x], c, q, t), n.deposit = c.deposit, n.amount = c.amount
      PROVE  Backs(inbox'[x], n, q, t)
  BY <1>3, <1>8 DEF EvidenceKept, Backs
<1>9. CaseBacked(inbox', n, q)
  <2>1. CASE Attached(e, v)
    <3>1. /\ n.status = c.status /\ n.deposit = c.deposit /\ n.amount = c.amount
          /\ n.held = c.held /\ n.resolvedBy = c.resolvedBy /\ n.holdTx = c.holdTx
          /\ n.resolutionTx = c.resolutionTx
          /\ \/ n.openedBy = c.openedBy
             \/ c.openedBy = None /\ n.openedBy = e /\ v.target = "OPEN"
      BY <1>2, <1>3, <2>1 DEF Attached
    <3>2. CaseBacked(inbox, c, q)
      BY <1>3, <1>5
    <3>3. n.openedBy # None =>
            n.openedBy \in Events /\ Backs(inbox'[n.openedBy], n, q, {"OPEN"})
      <4>1. CASE n.openedBy = c.openedBy
        BY <1>8, <3>1, <3>2, <4>1 DEF CaseBacked
      <4>2. CASE n.openedBy = e /\ v.target = "OPEN"
        BY <1>7, <4>2
      <4> QED BY <3>1, <4>1, <4>2
    <3>4. n.status \in {"WON", "LOST"} =>
            n.resolvedBy \in Events /\ Backs(inbox'[n.resolvedBy], n, q, {n.status})
      BY <1>8, <3>1, <3>2 DEF CaseBacked
    <3>5. n.status = "OPEN" => n.openedBy # None
      BY <1>4, <3>1, <3>2 DEF CaseBacked
    <3> QED BY <3>1, <3>2, <3>3, <3>4, <3>5 DEF CaseBacked
  <2>2. CASE Closed(e, v)
    <3>1. /\ c.status = "OPEN" /\ n.deposit = c.deposit /\ n.amount = c.amount
          /\ v.target \in {"WON", "LOST"} /\ n.status = v.target
          /\ n.held = c.held /\ n.openedBy = c.openedBy
          /\ n.holdTx = c.holdTx /\ n.resolvedBy = e
          /\ n.resolutionTx = (IF v.target = "WON" THEN c.held ELSE 0 - c.held)
      BY <1>2, <1>3, <2>2 DEF Closed
    <3>2. CaseBacked(inbox, c, q)
      BY <1>3, <1>5
    <3>3. n.openedBy # None =>
            n.openedBy \in Events /\ Backs(inbox'[n.openedBy], n, q, {"OPEN"})
      BY <1>8, <3>1, <3>2 DEF CaseBacked
    <3>4. n.resolvedBy \in Events /\ Backs(inbox'[n.resolvedBy], n, q, {n.status})
      BY <1>7, <3>1
    <3>5. n.holdTx = 0 - n.held /\ n.status # "OPEN"
      BY <3>1, <3>2 DEF CaseBacked
    <3> QED BY <3>1, <3>3, <3>4, <3>5 DEF CaseBacked
  <2>3. CASE Booked(e, v)
    <3>1. /\ n.status = v.target /\ (v.target = "WON" => n.held = 0)
          /\ n.openedBy = (IF v.target = "OPEN" THEN e ELSE None)
          /\ n.resolvedBy = (IF v.target = "OPEN" THEN None ELSE e)
          /\ n.holdTx = (IF v.target = "OPEN" THEN 0 - n.held ELSE 0)
          /\ n.resolutionTx = (IF v.target = "OPEN" THEN 0 ELSE 0 - n.held)
      BY <1>2, <1>3, <2>3 DEF Booked
    <3> QED BY <1>4, <1>7, <3>1 DEF CaseBacked
  <2> QED BY <2>1, <2>2, <2>3
<1>10. ASSUME NEW p \in Disputes, p # q PROVE CaseBacked(inbox', cases'[p], p)
  BY <1>2, <1>5, <1>10, BackingKept
<1>11. CaseEvidence'
  BY <1>3, <1>9, <1>10, EvidenceIsBacking
<1>12. cases'[q].status # "NONE"
  BY <1>2 DEF Attached, Closed, Booked, Targets
<1> QED
  BY <1>2, <1>11, <1>12 DEF CaseInv, CasesStartEmpty


\* No step but a transition touches the evidence of a case: an identity
\* conflict retains it, and recoveries, claims and errors act on other rows.
LEMMA NextKeepsEvidence ==
  ASSUME Shape, [Next]_vars
  PROVE  EvidenceKept
<1> SUFFICES ASSUME NEW e \in Events, inbox[e].status = "PROCESSED",
                    \E p \in Disputes : cases[p].openedBy = e \/ cases[p].resolvedBy = e
             PROVE  inbox'[e] = inbox[e]
  BY DEF EvidenceKept
<1>1. /\ inbox \in [Events -> Rows] /\ lane \in [Lanes -> LaneStates]
  BY DEF Shape, TypeOK
<1>2. Recovered(inbox[e]) = inbox[e]
  BY DEF Recovered, Stale
<1>3. ASSUME NEW l \in ApiLanes, NEW x \in Events, NEW v \in EnvelopesOf[x], Receive(l, x, v)
      PROVE  inbox'[e] = inbox[e]
  BY <1>1, <1>3 DEF Receive, ReceiveNew, ReceiveDuplicate, ReceiveConflict, Canonical
<1>4. ASSUME NEW l \in ApiLanes, ApiRecover(l) PROVE inbox'[e] = inbox[e]
  BY <1>1, <1>2, <1>4 DEF ApiRecover, Shape, LanesHaveEvents, Lanes
<1>5. ASSUME NEW w \in WorkerLanes, WorkerSweep(w) PROVE inbox'[e] = inbox[e]
  BY <1>2, <1>5 DEF WorkerSweep
<1>6. ASSUME NEW l, NEW x, NEW n, ClaimRow(l, x, n) PROVE inbox'[e] = inbox[e]
  BY <1>1, <1>6 DEF ClaimRow, Claimable
<1>7. ASSUME NEW l \in Lanes, TransitionCommits(l) \/ HandleError(l)
      PROVE  inbox'[e] = inbox[e]
  BY <1>1, <1>7 DEF TransitionCommits, CompleteEvent, HandleError, OwnsLease, OwnedBy
<1>8. ASSUME NEW x \in Events, Elapse(x) PROVE inbox'[e] = inbox[e]
  BY <1>1, <1>8 DEF Elapse
<1>9. \/ inbox' = inbox
      \/ \E l \in ApiLanes : \/ \E x \in Events : \E v \in EnvelopesOf[x] : Receive(l, x, v)
                             \/ ApiRecover(l) \/ ApiClaim(l)
      \/ \E w \in WorkerLanes : WorkerSweep(w) \/ WorkerClaim(w)
      \/ \E l \in Lanes : TransitionCommits(l) \/ HandleError(l)
      \/ \E x \in Events : Elapse(x)
  BY DEF Next, WorkerSelect, Process, TransitionRefused, TransitionFails, Crash,
         CreditDeposit, PayOrder, RefundOrder, Redeploy, dbVars, vars
<1>10. ASSUME NEW l \in ApiLanes, ApiClaim(l) PROVE inbox'[e] = inbox[e]
  BY <1>6, <1>10 DEF ApiClaim
<1>11. ASSUME NEW w \in WorkerLanes, WorkerClaim(w) PROVE inbox'[e] = inbox[e]
  BY <1>6, <1>11 DEF WorkerClaim
<1> QED
  BY <1>3, <1>4, <1>5, <1>7, <1>8, <1>9, <1>10, <1>11

\* A step without a transition leaves the cases and what they have reserved.
LEMMA CasesStay ==
  ASSUME Shape, CaseInv, EvidenceKept, cases' = cases, reserved' = reserved,
         \A d \in Deposits : \/ deposit'[d] = deposit[d]
                             \/ deposit[d] = "UNPAID" /\ deposit'[d] = "SUCCEEDED"
  PROVE  CaseInv'
<1>1. CasesStartEmpty' /\ HoldsBacked'
  BY DEF CaseInv, CasesStartEmpty, HoldsBacked, Disputed
<1>2. CaseEvidence'
  BY BackingKept, EvidenceIsBacking DEF CaseInv
<1>3. DepositProjected'
  BY DEF CaseInv, DepositProjected
<1> QED
  BY <1>1, <1>2, <1>3 DEF CaseInv

\* What a step is to the cases: a transition of one of them, a movement of the
\* free balance alone, or nothing.
CaseStep ==
  \/ \E e \in Events, v \in Envelopes :
       /\ v.target \in Targets
       /\ \A p \in Disputes : p # v.dispute => cases'[p] = cases[p]
       /\ Attached(e, v) \/ Closed(e, v) \/ Booked(e, v)
  \/ cases' = cases

LEMMA NextCases ==
  ASSUME Shape, Shape', CaseInv, [Next]_vars
  PROVE  CaseInv' /\ CaseStep
<1>1. EvidenceKept
  BY NextKeepsEvidence
<1>2. ASSUME NEW l \in Lanes, TransitionCommits(l) PROVE CaseInv' /\ CaseStep
  <2>1. PICK e \in Events : e = lane[l].event
    BY <1>2 DEF TransitionCommits, Shape, LanesHaveEvents
  <2>2. PICK v \in Envelopes : v = inbox[e].env /\ v.target \in Targets
    BY <1>2, <2>1 DEF TransitionCommits, OwnsLease, OwnedBy, Shape, RowsHaveEnvelopes
  <2>3. /\ Linked(v) /\ ~Refusal(v) /\ CompleteEvent(e, v)
        /\ AttachOpen(e, v) \/ ReplayTerminal(e, v) \/ Resolve(e, v) \/ Book(e, v)
    BY <1>2, <2>1, <2>2 DEF TransitionCommits
  <2>4. /\ \A p \in Disputes : p # v.dispute => cases'[p] = cases[p]
        /\ Attached(e, v) \/ Closed(e, v) \/ Booked(e, v)
    BY <2>2, <2>3, TransitionCases
  <2>5. HoldsBacked'
    BY <2>2, <2>4, TransitionHolds
  <2>6. DepositProjected'
    BY <2>2, <2>3, <2>4, TransitionProjects DEF CompleteEvent
  <2>7. /\ inbox'[e].status = "PROCESSED" /\ inbox'[e].linked = v.dispute
        /\ inbox'[e].env = v
    <3>1. inbox' = [inbox EXCEPT ![e] = Completed(inbox[e], v.dispute)]
      BY <2>3 DEF CompleteEvent
    <3>2. inbox \in [Events -> Rows]
      BY DEF Shape, TypeOK
    <3>3. inbox[e] \in Rows
      BY <3>2
    <3>4. /\ Completed(inbox[e], v.dispute).status = "PROCESSED"
          /\ Completed(inbox[e], v.dispute).linked = v.dispute
          /\ Completed(inbox[e], v.dispute).env = inbox[e].env
      BY <3>3 DEF Completed, Rows
    <3> QED BY <2>2, <3>1, <3>2, <3>4
  <2>8. CaseEvidence' /\ CasesStartEmpty'
    BY <1>1, <2>2, <2>4, <2>7, TransitionEvidence
  <2>9. CaseStep
    BY <2>2, <2>4 DEF CaseStep
  <2> QED BY <2>5, <2>6, <2>8, <2>9 DEF CaseInv
<1>3. ASSUME cases' = cases, reserved' = reserved, deposit' = deposit
      PROVE  CaseInv' /\ CaseStep
  BY <1>1, <1>3, CasesStay DEF CaseStep
<1>4. ASSUME NEW d \in Deposits, CreditDeposit(d) PROVE CaseInv' /\ CaseStep
  <2>1. deposit \in [Deposits -> CreditBacked \cup {"UNPAID"}]
    BY DEF Shape, TypeOK
  <2>2. /\ deposit[d] = "UNPAID" /\ deposit' = [deposit EXCEPT ![d] = "SUCCEEDED"]
        /\ cases' = cases /\ reserved' = reserved
    BY <1>4 DEF CreditDeposit
  <2> QED BY <1>1, <2>1, <2>2, CasesStay DEF CaseStep
<1>5. \/ cases' = cases /\ reserved' = reserved /\ deposit' = deposit
      \/ \E l \in Lanes : TransitionCommits(l)
      \/ \E d \in Deposits : CreditDeposit(d)
  BY DEF Next, Receive, ApiRecover, ApiClaim, WorkerSweep, WorkerSelect, WorkerClaim,
         Process, TransitionRefused, TransitionFails, HandleError, Crash,
         PayOrder, RefundOrder, Elapse, Redeploy, dbVars, vars
<1> QED
  BY <1>2, <1>3, <1>4, <1>5

\* Cases are empty or backed by evidence and by holds, and deposits show them.
THEOREM CasesInvariance == Spec => [](IInv /\ CaseInv)
<1>1. Init => CaseInv
  <2> SUFFICES ASSUME Init PROVE CaseInv
    OBVIOUS
  <2>1. \A p \in Disputes : cases[p] = NoCase
    BY DEF Init
  <2>2. /\ NoCase.status = "NONE" /\ NoCase.amount = 0 /\ NoCase.held = 0
        /\ NoCase.shortfall = 0 /\ NoCase.exposure = 0 /\ NoCase.openedBy = None
    BY DEF NoCase
  <2>3. CasesStartEmpty /\ CaseEvidence /\ DepositProjected
    BY <2>1, <2>2 DEF CasesStartEmpty, CaseEvidence, DepositProjected, Init
  <2>4. reserved = SumFunction([p \in Disputes |->
                      IF cases[p].status = "OPEN" THEN cases[p].held ELSE 0])
    <3> DEFINE f == [p \in Disputes |-> IF cases[p].status = "OPEN" THEN cases[p].held ELSE 0]
    <3>1. IsFiniteSet(Disputes) /\ \A p \in Disputes : f[p] = 0
      BY <2>1, <2>2, ConstantsAssumption
    <3>2. SumFunctionOnSet(f, Disputes) = 0
      <4> HIDE DEF f
      <4> QED BY <3>1, SumZero
    <3> QED BY <3>2 DEF SumFunction, Init
  <2>5. ASSUME NEW d \in Deposits PROVE Disputed(d) <= Credit[d]
    <3> DEFINE f == [p \in Disputes |-> IF cases[p].deposit = d THEN cases[p].amount ELSE 0]
    <3>1. IsFiniteSet(Disputes) /\ \A p \in Disputes : f[p] = 0
      BY <2>1, <2>2, ConstantsAssumption
    <3>2. SumFunctionOnSet(f, Disputes) = 0
      <4> HIDE DEF f
      <4> QED BY <3>1, SumZero
    <3>3. Disputed(d) = 0
      BY <3>2 DEF SumFunction, Disputed
    <3> QED BY <3>3, ConstantsAssumption
  <2> QED BY <2>1, <2>2, <2>3, <2>4, <2>5 DEF CaseInv, HoldsBacked
<1>2. IInv /\ IInv' /\ CaseInv /\ [Next]_vars => CaseInv'
  BY NextCases DEF IInv
<1> QED
  BY <1>1, <1>2, Invariance, PTL DEF Spec

\* The reserved balance is exactly the holds of the open disputes, so resolving
\* one never fails with HOLD_MISSING, and no deposit is disputed beyond its
\* credit.
THEOREM HoldsAlwaysBacked == Spec => []HoldsBacked
<1>1. CaseInv => HoldsBacked
  BY DEF CaseInv
<1> QED
  BY <1>1, CasesInvariance, PTL

\* Every case is backed by processed provider events and matching ledger rows.
THEOREM CasesAlwaysBacked == Spec => []CaseEvidence
<1>1. CaseInv => CaseEvidence
  BY DEF CaseInv
<1> QED
  BY <1>1, CasesInvariance, PTL

\* A deposit shows CHARGEBACK, DISPUTED or SUCCEEDED exactly as its cases
\* require.
THEOREM DepositsAlwaysProjected == Spec => []DepositProjected
<1>1. CaseInv => DepositProjected
  BY DEF CaseInv
<1> QED
  BY <1>1, CasesInvariance, PTL

\* Inbox, retries, crashes, duplicated and reordered events implement the
\* contract of the wallet: each dispute freezes, releases or takes money once.
THEOREM ContractImplemented == Spec => ImplementsContract
<1>1. Init => Contract!Init
  BY DEF Init, Contract!Init, NoCase
<1>2. IInv /\ IInv' /\ CaseInv /\ [Next]_vars => [Contract!Next]_(Contract!cvars)
  <2> SUFFICES ASSUME Shape, Shape', CaseInv, [Next]_vars
               PROVE  [Contract!Next]_(Contract!cvars)
    BY DEF IInv
  <2>1. CaseStep
    BY NextCases
  <2>2. available \in Nat /\ available' \in Nat
        /\ \A p \in Disputes : cases[p].held \in Nat /\ cases'[p].held \in Nat
    BY DEF Shape, TypeOK, CaseRows
  <2>3. CASE cases' = cases
    BY <2>2, <2>3 DEF Contract!Next, Contract!OtherMovement
  <2>4. ASSUME NEW e \in Events, NEW v \in Envelopes, v.target \in Targets,
               \A p \in Disputes : p # v.dispute => cases'[p] = cases[p],
               Attached(e, v) \/ Closed(e, v) \/ Booked(e, v)
        PROVE  [Contract!Next]_(Contract!cvars)
    <3>1. PICK q \in Disputes : q = v.dispute
      BY DEF Envelopes
    <3>2. \A p \in Disputes : p # q => cases'[p] = cases[p]
      BY <2>4, <3>1
    <3>3. CASE Attached(e, v)
      <4>1. \A p \in Disputes : cases'[p].status = cases[p].status
                                /\ cases'[p].held = cases[p].held
        BY <3>1, <3>2, <3>3 DEF Attached
      <4>2. available' = available
        BY <3>3 DEF Attached
      <4> QED BY <4>1, <4>2 DEF Contract!cvars
    <3>4. CASE Closed(e, v) /\ v.target = "WON"
      <4>1. /\ cases[q].status = "OPEN" /\ cases'[q].status = "WON"
            /\ available' = available + cases[q].held
        BY <3>1, <3>4 DEF Closed
      <4>2. Contract!Win(q)
        BY <3>2, <4>1 DEF Contract!Win
      <4> QED BY <4>2 DEF Contract!Next
    <3>5. CASE Closed(e, v) /\ v.target # "WON"
      <4>1. /\ cases[q].status = "OPEN" /\ cases'[q].status = "LOST"
            /\ cases'[q].held = cases[q].held /\ available' = available
        BY <3>1, <3>5 DEF Closed
      <4>2. Contract!Lose(q)
        BY <3>2, <4>1 DEF Contract!Lose
      <4> QED BY <4>2 DEF Contract!Next
    <3>6. CASE Booked(e, v)
      <4>1. /\ cases[q].status = "NONE" /\ cases'[q].status = v.target
            /\ v.target = "WON" => cases'[q].held = 0
            /\ cases'[q].held \in 0..available
            /\ available' = available - cases'[q].held
        BY <2>2, <3>1, <3>6 DEF Booked
      <4>2. CASE v.target = "OPEN"
        <5>1. Contract!Open(q)
          BY <2>2, <3>2, <4>1, <4>2 DEF Contract!Open
        <5> QED BY <5>1 DEF Contract!Next
      <4>3. CASE v.target = "WON"
        <5>1. available' = available + 0
          BY <2>2, <4>1, <4>3
        <5>2. /\ cases[q].status = "NONE" /\ cases'[q].status = "WON"
          BY <4>1, <4>3
        <5>3. Contract!Win(q)
          BY <3>2, <5>1, <5>2 DEF Contract!Win
        <5> QED BY <5>3 DEF Contract!Next
      <4>4. CASE v.target = "LOST"
        <5>1. Contract!LoseUnopened(q)
          BY <2>2, <3>2, <4>1, <4>4 DEF Contract!LoseUnopened
        <5> QED BY <5>1 DEF Contract!Next
      <4> QED BY <2>4, <4>2, <4>3, <4>4 DEF Targets
    <3> QED BY <2>4, <3>3, <3>4, <3>5, <3>6
  <2> QED BY <2>1, <2>3, <2>4 DEF CaseStep
<1> QED
  BY <1>1, <1>2, CasesInvariance, PTL DEF Spec, ImplementsContract, Contract!Spec
=============================================================================
