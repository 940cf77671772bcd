------------------------ MODULE DepositFundingProofs ------------------------
(* Proofs about DepositFunding for every set of deposits, lanes and bounds. *)
EXTENDS DepositFunding, SumTheorems

-----------------------------------------------------------------------------
(* The inductive invariant.                                                *)

\* The program points of each role, and what a lane there works on.
CheckoutPoints == {"opening", "failing", "attaching", "reusing"}
WebhookPoints == {"received", "claiming", "leased", "replaying", "caught"}
WorkerPoints == {"seeding", "swept", "claiming"} \cup Working

RoleFits(l, n) ==
  /\ l \in CheckoutLanes => /\ n.pc \in CheckoutPoints \cup {"idle"}
                            /\ n.pc # "idle" => n.job \in Deposits
  /\ l \in WebhookLanes => /\ n.pc \in WebhookPoints \cup {"idle"}
                           /\ n.pc # "idle" => n.job \in Events
  /\ l \in WorkerLanes => /\ n.pc \in WorkerPoints \cup {"idle"}
                          /\ n.pc \in Working => n.job \in Deposits

RolesFit == \A l \in Lanes : RoleFits(l, lane[l])

Shape == TypeOK /\ RolesFit

\* The provider announces payments it has received, and only events it emitted
\* are in the inbox.
PaidKinds == {"completedPaid", "asyncPaid"}

AnnouncedPaid ==
  \A e \in sent : e.kind \in PaidKinds => session[e.deposit] = "PAID"

InboxSent == \A e \in Events : inbox[e].status # "ABSENT" => e \in sent

\* A final answer that a worker lane read is still the provider's answer, and a
\* lane that acts on evidence has persisted it under its claim.  Here n is the
\* lane, s the session and v the evidence of the deposit it works on.
Informed == {"reading", "persisting", "closing", "finalizing"}

Knows(n, s, v) ==
  /\ n.pc \in Informed /\ n.seen.checkout \in {"PAID", "EXPIRED"} => s = n.seen.checkout
  /\ n.pc \in Informed /\ n.seen.paid => s = "PAID"
  /\ n.pc = "closing" => n.seen.checkout = "EXPIRED"
  /\ n.pc = "finalizing" => n.seen.checkout = "PAID"
  /\ n.pc \in {"closing", "finalizing"} => [claim |-> n.attempts, seen |-> n.seen] \in v

LanesKnow ==
  \A w \in WorkerLanes :
    lane[w].pc \in Informed =>
      Knows(lane[w], session[lane[w].job], evidence[lane[w].job])

\* A request that reuses a session found it attached.
ReusesAttached ==
  \A l \in CheckoutLanes : lane[l].pc = "reusing" => attempt[lane[l].job].session

\* The balance is a sum over all deposits; the rest speaks of one deposit.
CreditAgrees(d) ==
  /\ credits[d] \in {0, 1}
  /\ credits[d] = 1 => session[d] = "PAID"
  /\ attempt[d].ledger <=> credits[d] = 1
  /\ attempt[d].status \in CreditBacked <=> credits[d] = 1

IInv ==
  /\ Shape
  /\ AnnouncedPaid /\ InboxSent
  /\ LanesKnow /\ ReusesAttached
  /\ CreditedOnce
  /\ LinkAttached
  /\ AuthoritiesProve


-----------------------------------------------------------------------------
(* What a step may do.  Every action is shown to be such a step; what is   *)
(* proved of the system afterwards follows from these shapes alone.        *)

\* Final answers of the provider, attachments and evidence stay.
Grows ==
  \A d \in Deposits :
    /\ session[d] \in {"PAID", "EXPIRED"} => session'[d] = session[d]
    /\ attempt[d].session => attempt'[d].session
    /\ evidence[d] \subseteq evidence'[d]

\* The provider announces a payment when it has it.
Announces ==
  /\ sent \subseteq sent'
  /\ \A e \in sent' : e \in sent \/ (e.kind \in PaidKinds => session'[e.deposit] = "PAID")

\* A row is created for an emitted event and a success processed with its credit.
InboxMoves ==
  \A e \in Events :
    /\ inbox'[e].status # "ABSENT" => inbox[e].status # "ABSENT" \/ e \in sent
    /\ inbox'[e].status = "PROCESSED" /\ e.kind \in SuccessKinds =>
         inbox[e].status = "PROCESSED" \/ credits'[e.deposit] = 1

LinkMoves == \A d \in linked' : d \in linked \/ attempt'[d].session

\* A settled recovery stays as it is; a recovery settles with its proof.
Settled == {"PROCESSED", "SUPERSEDED", "CLOSED_UNPAID"}

RecoveryMoves ==
  \A d \in Deposits :
    \/ recovery'[d] = recovery[d]
    \/ /\ recovery[d].status \notin Settled
       /\ recovery'[d].status \notin Settled \/ RecoveryProves(d)'

\* An attempt row b that follows a without a credit.
Follows(a, b) ==
  /\ b.ledger = a.ledger
  /\ b.status \in CreditBacked <=> a.status \in CreditBacked
  /\ a.status = "EXPIRED" => b.status = "EXPIRED"

Kept ==
  /\ UNCHANGED <<credits, available>>
  /\ \A d \in Deposits : Follows(attempt[d], attempt'[d])

Funds(d) ==
  /\ session[d] = "PAID"
  /\ credits[d] = 0
  /\ attempt' = [attempt EXCEPT ![d].status = "SUCCEEDED", ![d].ledger = TRUE]
  /\ credits' = [credits EXCEPT ![d] = 1]
  /\ available' = available + Credit[d]

SameClosed(d) ==
  recovery'[d].status = "CLOSED_UNPAID" <=> recovery[d].status = "CLOSED_UNPAID"

ClosesNone == \A d \in Deposits : SameClosed(d)

Closes(d) ==
  /\ credits[d] = 0
  /\ recovery[d].status # "CLOSED_UNPAID"
  /\ recovery'[d].status = "CLOSED_UNPAID"
  /\ \A q \in Deposits : q # d => SameClosed(q)

Outcome ==
  \/ Kept /\ ClosesNone
  \/ Kept /\ \E d \in Deposits : Closes(d)
  \/ ClosesNone /\ \E d \in Deposits : Funds(d)

LanesSound == RolesFit' /\ LanesKnow' /\ ReusesAttached'

Moves ==
  /\ TypeOK'
  /\ LanesSound
  /\ Grows /\ Announces /\ InboxMoves /\ LinkMoves /\ RecoveryMoves /\ Outcome

-----------------------------------------------------------------------------
(* The invariant follows from the shape of a step.                         *)

LEMMA PerDeposit ==
  CreditedOnce <=> /\ \A d \in Deposits : CreditAgrees(d)
                   /\ available = SumFunction([d \in Deposits |-> credits[d] * Credit[d]])
  BY DEF CreditedOnce, CreditAgrees

LEMMA FundedSum ==
  ASSUME TypeOK, CreditedOnce, NEW d \in Deposits, Funds(d)
  PROVE  available' = SumFunction([q \in Deposits |-> credits'[q] * Credit[q]])
<1> DEFINE f == [q \in Deposits |-> credits[q] * Credit[q]]
           g == [q \in Deposits |-> credits'[q] * Credit[q]]
<1>1. IsFiniteSet(Deposits)
  BY ConstantsAssumption
<1>2. \A q \in Deposits : credits[q] \in {0, 1} /\ Credit[q] \in Nat
  BY ConstantsAssumption DEF CreditedOnce
<1>3. \A q \in Deposits : credits'[q] = IF q = d THEN 1 ELSE credits[q]
  BY DEF Funds, TypeOK
<1>4. credits[d] = 0
  BY DEF Funds
<1>5. \A q \in Deposits : f[q] \in Int /\ g[q] \in Int
  <2>1. ASSUME NEW q \in Deposits PROVE f[q] \in Int /\ g[q] \in Int
    <3>1. credits'[q] \in {0, 1}
      BY <1>2, <1>3
    <3>2. f[q] = 0 \/ f[q] = Credit[q]
      BY <1>2
    <3>3. g[q] = 0 \/ g[q] = Credit[q]
      BY <1>2, <3>1
    <3> HIDE DEF f, g
    <3> QED BY <1>2, <3>2, <3>3
  <2> QED BY <2>1
<1>6. \A q \in Deposits : q # d => g[q] = f[q]
  BY <1>3
<1>7. f[d] = 0 /\ g[d] = Credit[d] /\ Credit[d] \in Nat
  BY <1>2, <1>3, <1>4
<1>8. DOMAIN f = Deposits /\ DOMAIN g = Deposits
  OBVIOUS
<1>9. available = SumFunction(f) /\ available' = available + Credit[d] /\ available \in Nat
  BY DEF CreditedOnce, Funds, TypeOK
<1> HIDE DEF f, g
<1>10. SumFunctionOnSet(g, Deposits) = SumFunctionOnSet(f, Deposits) + g[d] - f[d]
  BY ONLY <1>1, <1>5, <1>6, SumChange, d \in Deposits
<1>11. available = SumFunctionOnSet(f, Deposits)
  BY <1>8, <1>9 DEF SumFunction
<1>12. SumFunctionOnSet(g, Deposits) = available + Credit[d]
  BY <1>7, <1>9, <1>10, <1>11
<1>13. SumFunctionOnSet(g, Deposits) = SumFunction(g)
  BY <1>8 DEF SumFunction
<1> QED BY <1>9, <1>12, <1>13 DEF g

LEMMA CreditedMoves ==
  ASSUME IInv, Moves
  PROVE  CreditedOnce'
<1>1. TypeOK /\ TypeOK' /\ Grows /\ CreditedOnce
  BY DEF IInv, Moves, Shape
<1>2. CASE Kept
  <2>1. UNCHANGED <<credits, available>> /\ \A d \in Deposits : Follows(attempt[d], attempt'[d])
    BY <1>2 DEF Kept
  <2>2. ASSUME NEW d \in Deposits PROVE CreditAgrees(d)'
    BY <1>1, <2>1 DEF CreditedOnce, CreditAgrees, Grows, Follows, TypeOK, AttemptRows
  <2>3. available' = SumFunction([q \in Deposits |-> credits'[q] * Credit[q]])
    BY <1>1, <2>1 DEF CreditedOnce
  <2> QED BY <2>2, <2>3 DEF CreditedOnce, CreditAgrees
<1>3. ASSUME NEW d \in Deposits, Funds(d) PROVE CreditedOnce'
  <2>1. available' = SumFunction([q \in Deposits |-> credits'[q] * Credit[q]])
    BY <1>1, <1>3, FundedSum
  <2>2. ASSUME NEW q \in Deposits PROVE CreditAgrees(q)'
    BY <1>1, <1>3 DEF CreditedOnce, CreditAgrees, Grows, Funds, TypeOK, AttemptRows, CreditBacked
  <2> QED BY <2>1, <2>2 DEF CreditedOnce, CreditAgrees
<1> QED BY <1>2, <1>3 DEF Moves, Outcome

LEMMA ProvesMoves ==
  ASSUME IInv, Moves
  PROVE  AuthoritiesProve'
<1>1. /\ TypeOK /\ TypeOK' /\ Grows /\ CreditedOnce /\ AuthoritiesProve
      /\ InboxMoves /\ RecoveryMoves /\ Outcome
  BY DEF IInv, Moves, Shape
<1>2. ASSUME NEW d \in Deposits
      PROVE  credits[d] = 1 => credits'[d] = 1
  BY <1>1 DEF Outcome, Kept, Funds, TypeOK
<1>3. ASSUME NEW d \in Deposits, session[d] = "EXPIRED", attempt[d].status = "EXPIRED"
      PROVE  credits'[d] = credits[d] /\ attempt'[d].status = "EXPIRED"
  <2>1. ASSUME NEW q \in Deposits, Funds(q)
        PROVE  credits'[d] = credits[d] /\ attempt'[d].status = "EXPIRED"
    BY <1>1, <1>3, <2>1 DEF Funds, TypeOK, AttemptRows
  <2>2. CASE Kept
    BY <1>3, <2>2 DEF Kept, Follows
  <2> QED BY <1>1, <2>1, <2>2 DEF Outcome
<1>4. ASSUME NEW e \in Events PROVE EventProves(e)'
  <2>1. e.deposit \in Deposits
    BY DEF Events
  <2> QED BY <1>1, <1>2, <2>1 DEF AuthoritiesProve, EventProves, InboxMoves
<1>5. ASSUME NEW d \in Deposits PROVE RecoveryProves(d)'
  <2>1. RecoveryProves(d)
    BY <1>1 DEF AuthoritiesProve
  <2>2. CASE recovery'[d] = recovery[d]
    <3>1. ASSUME NEW s, Selected(d, s) PROVE Selected(d, s)'
      BY <1>1, <2>2, <3>1 DEF Selected, Grows
    <3>2. session[d] = "EXPIRED" => session'[d] = "EXPIRED"
      BY <1>1 DEF Grows
    <3> QED BY <1>2, <1>3, <2>1, <2>2, <3>1, <3>2 DEF RecoveryProves
  <2>3. CASE recovery'[d].status \notin Settled
    BY <2>3 DEF RecoveryProves, Settled
  <2> QED BY <1>1, <2>2, <2>3 DEF RecoveryMoves
<1> QED BY <1>4, <1>5 DEF AuthoritiesProve

LEMMA MovesInv ==
  ASSUME IInv, Moves
  PROVE  IInv'
<1>1. AnnouncedPaid'
  <2>1. ASSUME NEW e \in sent', e.kind \in PaidKinds PROVE session'[e.deposit] = "PAID"
    <3>1. e.deposit \in Deposits
      BY DEF Moves, TypeOK, Events
    <3> QED BY <2>1, <3>1 DEF IInv, Moves, Announces, Grows, AnnouncedPaid
  <2> QED BY <2>1 DEF AnnouncedPaid
<1>2. InboxSent'
  BY DEF IInv, Moves, InboxSent, InboxMoves, Announces
<1>3. LinkAttached'
  BY DEF IInv, Moves, LinkAttached, LinkMoves, Grows, Shape, TypeOK
<1>4. Shape' /\ LanesKnow' /\ ReusesAttached'
  BY DEF Moves, LanesSound, Shape
<1> QED BY <1>1, <1>2, <1>3, <1>4, CreditedMoves, ProvesMoves DEF IInv

-----------------------------------------------------------------------------
(* Parts of the state that a step leaves alone.                            *)

LEMMA MoneyStill == ASSUME UNCHANGED moneyVars PROVE Kept
  BY DEF moneyVars, Kept, Follows

LEMMA ProviderStill ==
  ASSUME UNCHANGED <<session, sent>>, UNCHANGED attempt, UNCHANGED evidence
  PROVE  Grows /\ Announces
  BY DEF Grows, Announces

LEMMA InboxStill == ASSUME UNCHANGED inbox PROVE InboxMoves
  BY DEF InboxMoves

LEMMA LinkStill == ASSUME UNCHANGED linked PROVE LinkMoves
  BY DEF LinkMoves

LEMMA RecoveryStill ==
  ASSUME UNCHANGED recovery
  PROVE  RecoveryMoves /\ ClosesNone
  BY DEF RecoveryMoves, ClosesNone, SameClosed

\* A recovery that has not settled changes and does not settle.
LEMMA RecoveryOpen ==
  ASSUME \A d \in Deposits :
           \/ recovery'[d] = recovery[d]
           \/ recovery[d].status \notin Settled /\ recovery'[d].status \notin Settled
  PROVE  RecoveryMoves /\ ClosesNone
  BY DEF RecoveryMoves, ClosesNone, SameClosed, Settled

\* One lane moves on to n.
LEMMA LaneMoves ==
  ASSUME Shape, LanesKnow, ReusesAttached, Grows,
         NEW l \in Lanes, NEW n \in LaneStates, RoleFits(l, n),
         l \in CheckoutLanes /\ n.pc = "reusing" => attempt'[n.job].session,
         l \in WorkerLanes /\ n.pc \in Informed =>
           Knows(n, session'[n.job], evidence'[n.job]),
         lane' = [lane EXCEPT ![l] = n]
  PROVE  lane' \in [Lanes -> LaneStates] /\ LanesSound
<1>1. lane \in [Lanes -> LaneStates] /\ RolesFit
  BY DEF Shape, TypeOK
<1>2. lane' \in [Lanes -> LaneStates]
  BY <1>1
<1>3. \A m \in Lanes : lane'[m] = IF m = l THEN n ELSE lane[m]
  BY <1>1
<1>4. RolesFit'
  BY <1>1, <1>3 DEF RolesFit, RoleFits
<1>5. ASSUME NEW w \in WorkerLanes, lane'[w].pc \in Informed
      PROVE  Knows(lane'[w], session'[lane'[w].job], evidence'[lane'[w].job])
  <2>1. w \in Lanes
    BY DEF Lanes
  <2>2. CASE w = l
    BY <1>3, <1>5, <2>1, <2>2
  <2>3. CASE w # l
    <3>1. lane'[w] = lane[w]
      BY <1>3, <2>1, <2>3
    <3>2. lane[w].job \in Deposits
      BY <1>1, <1>5, <2>1, <3>1 DEF RolesFit, RoleFits, Informed, Working
    <3>3. Knows(lane[w], session[lane[w].job], evidence[lane[w].job])
      BY <1>5, <3>1 DEF LanesKnow
    <3> QED BY <3>1, <3>2, <3>3 DEF Knows, Grows
  <2> QED BY <2>2, <2>3
<1>6. ASSUME NEW m \in CheckoutLanes, lane'[m].pc = "reusing"
      PROVE  attempt'[lane'[m].job].session
  <2>1. m \in Lanes
    BY DEF Lanes, ServerLanes
  <2>2. CASE m = l
    BY <1>3, <1>6, <2>1, <2>2
  <2>3. CASE m # l
    <3>1. lane'[m] = lane[m]
      BY <1>3, <2>1, <2>3
    <3>2. lane[m].job \in Deposits
      BY <1>1, <1>6, <2>1, <3>1 DEF RolesFit, RoleFits
    <3> QED BY <1>6, <3>1, <3>2 DEF ReusesAttached, Grows
  <2> QED BY <2>2, <2>3
<1> QED BY <1>2, <1>4, <1>5, <1>6 DEF LanesSound, LanesKnow, ReusesAttached

LEMMA LanesStay ==
  ASSUME Shape, LanesKnow, ReusesAttached, Grows, UNCHANGED lane
  PROVE  LanesSound
<1>1. RolesFit'
  BY DEF Shape, RolesFit, RoleFits
<1>2. ASSUME NEW w \in WorkerLanes, lane[w].pc \in Informed
      PROVE  Knows(lane[w], session'[lane[w].job], evidence'[lane[w].job])
  <2>1. lane[w].job \in Deposits
    BY <1>2 DEF Shape, RolesFit, RoleFits, Informed, Working, Lanes
  <2> QED BY <1>2, <2>1 DEF LanesKnow, Knows, Grows
<1>3. ASSUME NEW m \in CheckoutLanes, lane[m].pc = "reusing"
      PROVE  attempt'[lane[m].job].session
  <2>1. lane[m].job \in Deposits
    BY <1>3 DEF Shape, RolesFit, RoleFits, Lanes, ServerLanes
  <2> QED BY <1>3, <2>1 DEF ReusesAttached, Grows
<1> QED BY <1>1, <1>2, <1>3 DEF LanesSound, LanesKnow, ReusesAttached

\* Steps of a lane towards a point where nothing is known of the provider.
LEMMA LaneRests ==
  ASSUME NEW l \in Lanes
  PROVE  /\ Idle \in LaneStates /\ RoleFits(l, Idle) /\ Idle.pc = "idle"
  BY DEF Idle, At, LaneStates, RoleFits, Facts, SessionStatuses, NoFacts, Working

LEMMA AtType ==
  ASSUME NEW pc \in CheckoutPoints \cup WebhookPoints \cup WorkerPoints \cup {"idle"},
         NEW job \in Deposits \cup Events \cup {None}, NEW k \in Nat
  PROVE  /\ At(pc, job, k) \in LaneStates
         /\ At(pc, job, k).pc = pc /\ At(pc, job, k).job = job
         /\ At(pc, job, k).attempts = k
  BY DEF At, LaneStates, Facts, SessionStatuses, NoFacts, Working, CheckoutPoints,
         WebhookPoints, WorkerPoints

LEMMA GotoType ==
  ASSUME TypeOK, NEW l \in Lanes,
         NEW pc \in CheckoutPoints \cup WebhookPoints \cup WorkerPoints \cup {"idle"}
  PROVE  /\ [lane[l] EXCEPT !.pc = pc] \in LaneStates
         /\ [lane[l] EXCEPT !.pc = pc].pc = pc
         /\ [lane[l] EXCEPT !.pc = pc].job = lane[l].job
         /\ [lane[l] EXCEPT !.pc = pc].attempts = lane[l].attempts
         /\ [lane[l] EXCEPT !.pc = pc].seen = lane[l].seen
         /\ [lane EXCEPT ![l].pc = pc] = [lane EXCEPT ![l] = [lane[l] EXCEPT !.pc = pc]]
  BY DEF TypeOK, LaneStates, Working, CheckoutPoints, WebhookPoints, WorkerPoints

LEMMA CaughtType ==
  ASSUME TypeOK, NEW l \in Lanes, NEW verdict \in {"RETRY", "QUARANTINE"}
  PROVE  /\ Caught(l, verdict) \in LaneStates
         /\ Caught(l, verdict).pc = "caught"
         /\ Caught(l, verdict).job = lane[l].job
         /\ Caught(l, verdict).attempts = lane[l].attempts
  BY ZenonT(30) DEF Caught, TypeOK, LaneStates, Working

\* A lane of a role rests or hands an error to its handler.
LEMMA RoleOf ==
  /\ \A l \in CheckoutLanes : l \in Lanes /\ l \notin WebhookLanes /\ l \notin WorkerLanes
  /\ \A l \in WebhookLanes : l \in Lanes /\ l \notin CheckoutLanes /\ l \notin WorkerLanes
  /\ \A l \in WorkerLanes : l \in Lanes /\ l \notin CheckoutLanes /\ l \notin WebhookLanes
  BY ConstantsAssumption DEF Lanes, ServerLanes

LEMMA CaughtFits ==
  ASSUME Shape, NEW l \in WebhookLanes \cup WorkerLanes,
         NEW verdict \in {"RETRY", "QUARANTINE"},
         l \in WebhookLanes => lane[l].pc # "idle",
         l \in WorkerLanes => lane[l].pc \in Working
  PROVE  RoleFits(l, Caught(l, verdict))
<1>1. l \in Lanes /\ TypeOK
  BY RoleOf DEF Shape
<1>2. RoleFits(l, lane[l])
  BY <1>1 DEF Shape, RolesFit
<1> QED BY <1>1, <1>2, CaughtType, RoleOf DEF RoleFits, WebhookPoints, WorkerPoints, Working

LEMMA NextOfType ==
  ASSUME NEW w \in WorkerLanes, NEW todo
  PROVE  /\ NextOf(w, todo) \in LaneStates
         /\ RoleFits(w, NextOf(w, todo))
         /\ NextOf(w, todo).pc \in {"idle", "claiming"}
<1>1. w \in Lanes
  BY RoleOf
<1>2. /\ At("claiming", None, 0) \in LaneStates
      /\ At("claiming", None, 0).pc = "claiming"
  BY AtType DEF WorkerPoints
<1>3. RoleFits(w, At("claiming", None, 0))
  BY <1>2, RoleOf DEF RoleFits, WorkerPoints, Working
<1> QED BY <1>1, <1>2, <1>3, LaneRests DEF NextOf

-----------------------------------------------------------------------------
(* Steps that leave the rows, the provider and the links alone.            *)

Still == UNCHANGED <<moneyVars, inbox, recovery, evidence, session, linked, sent>>

LEMMA StillMoves ==
  ASSUME Still, TypeOK', LanesSound
  PROVE  Moves
<1>1. Kept
  BY MoneyStill DEF Still
<1>2. Grows /\ Announces
  BY ProviderStill DEF Still, moneyVars
<1>3. InboxMoves /\ LinkMoves /\ RecoveryMoves /\ ClosesNone
  BY InboxStill, LinkStill, RecoveryStill DEF Still
<1> QED BY <1>1, <1>2, <1>3 DEF Moves, Outcome

LEMMA StillGrows == ASSUME Still PROVE Grows
  BY DEF Still, moneyVars, Grows

\* Only one lane moves, within its role.
LEMMA OnlyLane ==
  ASSUME IInv, Still, NEW l \in Lanes, NEW n \in LaneStates, RoleFits(l, n),
         n.pc # "reusing", l \in WorkerLanes /\ n.pc \in Informed =>
                             Knows(n, session[n.job], evidence[n.job]),
         lane' = [lane EXCEPT ![l] = n],
         flagged' \in [Deposits -> BOOLEAN], runtime' \in Runtimes, faults' \in Nat,
         UNCHANGED <<requests, deliveries>>,
         batch' \in [WorkerLanes -> SUBSET [deposit : Deposits, attempts : Nat]]
  PROVE  Moves
<1>1. Shape /\ LanesKnow /\ ReusesAttached /\ TypeOK
  BY DEF IInv, Shape
<1>2. session' = session /\ evidence' = evidence
  BY DEF Still
<1>3. lane' \in [Lanes -> LaneStates] /\ LanesSound
  BY <1>1, <1>2, StillGrows, LaneMoves
<1>4. TypeOK'
  BY <1>1, <1>3 DEF TypeOK, Still, moneyVars
<1> QED BY <1>3, <1>4, StillMoves

LEMMA CaughtMoves ==
  ASSUME IInv, Still, NEW l \in WebhookLanes \cup WorkerLanes,
         NEW verdict \in {"RETRY", "QUARANTINE"},
         l \in WebhookLanes => lane[l].pc # "idle",
         l \in WorkerLanes => lane[l].pc \in Working,
         lane' = [lane EXCEPT ![l] = Caught(l, verdict)],
         UNCHANGED <<flagged, runtime, requests, deliveries, batch>>, faults' \in Nat
  PROVE  Moves
<1>1. Shape /\ TypeOK /\ l \in Lanes
  BY RoleOf DEF IInv, Shape
<1>2. /\ Caught(l, verdict) \in LaneStates
      /\ RoleFits(l, Caught(l, verdict))
      /\ Caught(l, verdict).pc = "caught"
  BY <1>1, CaughtType, CaughtFits
<1>3. Caught(l, verdict).pc \notin Informed \cup {"reusing"}
  BY <1>2 DEF Informed
<1>4. /\ flagged' \in [Deposits -> BOOLEAN] /\ runtime' \in Runtimes
      /\ batch' \in [WorkerLanes -> SUBSET [deposit : Deposits, attempts : Nat]]
  BY <1>1 DEF TypeOK
<1> QED BY <1>1, <1>2, <1>3, <1>4, OnlyLane

LEMMA WebhookErrors ==
  ASSUME IInv, NEW l \in WebhookLanes,
         WebhookRefused(l) \/ WebhookDeferred(l) \/ WebhookFails(l)
  PROVE  Moves
<1>1. /\ lane[l].pc = "leased" /\ Still
      /\ \E verdict \in {"RETRY", "QUARANTINE"} :
           lane' = [lane EXCEPT ![l] = Caught(l, verdict)]
      /\ UNCHANGED <<flagged, runtime, requests, deliveries, batch>>
  BY DEF WebhookRefused, WebhookDeferred, WebhookFails, Still, providerVars, boundVars, moneyVars
<1>2. faults \in Nat
  BY DEF IInv, Shape, TypeOK
<1>3. faults' \in Nat
  BY <1>2 DEF WebhookRefused, WebhookDeferred, WebhookFails, boundVars, Fault
<1> QED BY <1>1, <1>3, CaughtMoves, RoleOf

LEMMA RecoveryErrors ==
  ASSUME IInv, NEW w \in WorkerLanes, RecoveryRefused(w) \/ RecoveryFails(w)
  PROVE  Moves
<1>1. /\ lane[w].pc \in Working /\ Still
      /\ \E verdict \in {"RETRY", "QUARANTINE"} :
           lane' = [lane EXCEPT ![w] = Caught(w, verdict)]
      /\ UNCHANGED <<flagged, runtime, requests, deliveries, batch>>
  BY DEF RecoveryRefused, RecoveryFails, Still, providerVars, boundVars, moneyVars, Working
<1>2. faults \in Nat
  BY DEF IInv, Shape, TypeOK
<1>3. faults' \in Nat
  BY <1>2 DEF RecoveryRefused, RecoveryFails, boundVars, Fault
<1> QED BY <1>1, <1>3, CaughtMoves, RoleOf

\* What the lane-only steps of a worker share.
Batches == [WorkerLanes -> SUBSET [deposit : Deposits, attempts : Nat]]

LEMMA WorkerStep ==
  ASSUME IInv, Still, NEW w \in WorkerLanes, NEW n \in LaneStates, RoleFits(w, n),
         n.pc \in Informed => Knows(n, session[n.job], evidence[n.job]),
         lane' = [lane EXCEPT ![w] = n], batch' \in Batches,
         UNCHANGED <<flagged, boundVars>>
  PROVE  Moves
<1>1. w \in Lanes /\ w \notin CheckoutLanes /\ TypeOK
  BY RoleOf DEF IInv, Shape
<1>2. n.pc # "reusing"
  BY RoleOf DEF RoleFits, WorkerPoints, Working
<1>3. /\ flagged' \in [Deposits -> BOOLEAN] /\ runtime' \in Runtimes /\ faults' \in Nat
      /\ UNCHANGED <<requests, deliveries>>
  BY <1>1 DEF TypeOK, boundVars
<1> QED BY <1>1, <1>2, <1>3, OnlyLane DEF Batches

LEMMA BatchesOf ==
  ASSUME TypeOK, NEW w \in WorkerLanes, NEW S \in SUBSET Deposits
  PROVE  [batch EXCEPT ![w] = {Candidate(d) : d \in S}] \in Batches
<1>1. \A d \in S : Candidate(d) \in [deposit : Deposits, attempts : Nat]
  BY DEF Candidate, TypeOK, RecoveryRows
<1> QED BY <1>1 DEF TypeOK, Batches

LEMMA SeedSelectMoves ==
  ASSUME IInv, NEW w \in WorkerLanes, SeedSelect(w)
  PROVE  Moves
<1> DEFINE n == [lane[w] EXCEPT !.pc = "seeding"]
<1>1. TypeOK /\ w \in Lanes
  BY RoleOf DEF IInv, Shape
<1>2. n \in LaneStates /\ n.pc = "seeding" /\ lane' = [lane EXCEPT ![w] = n]
  BY <1>1, GotoType DEF SeedSelect, Goto, WorkerPoints
<1>3. batch' \in Batches
  BY <1>1, BatchesOf DEF SeedSelect, Unrecovered
<1>4. Still /\ UNCHANGED <<flagged, boundVars>>
  BY DEF SeedSelect, Still, providerVars
<1> HIDE DEF n
<1>5. RoleFits(w, n) /\ n.pc \notin Informed
  BY <1>2, RoleOf DEF RoleFits, WorkerPoints, Working, Informed
<1> QED BY <1>2, <1>3, <1>4, <1>5, WorkerStep

LEMMA SelectMoves ==
  ASSUME IInv, NEW w \in WorkerLanes, Select(w)
  PROVE  Moves
<1>0. PICK pc \in {"idle", "claiming"} : lane' = [lane EXCEPT ![w].pc = pc]
  BY DEF Select, Goto
<1> DEFINE n == [lane[w] EXCEPT !.pc = pc]
<1>1. TypeOK /\ w \in Lanes
  BY RoleOf DEF IInv, Shape
<1>2. n \in LaneStates /\ n.pc = pc /\ lane' = [lane EXCEPT ![w] = n]
  BY <1>0, <1>1, GotoType DEF WorkerPoints
<1>3. batch' \in Batches
  BY <1>1, BatchesOf DEF Select
<1>4. Still /\ UNCHANGED <<flagged, boundVars>>
  BY DEF Select, Still, providerVars
<1> HIDE DEF n
<1>5. RoleFits(w, n) /\ n.pc \notin Informed
  BY <1>2, RoleOf DEF RoleFits, WorkerPoints, Working, Informed
<1> QED BY <1>2, <1>3, <1>4, <1>5, WorkerStep

LEMMA RereadMoves ==
  ASSUME IInv, NEW w \in WorkerLanes, Reread(w)
  PROVE  Moves
<1>1. TypeOK /\ w \in Lanes /\ RoleFits(w, lane[w])
  BY RoleOf DEF IInv, Shape, RolesFit
<1>2. batch' \in Batches
  BY <1>1 DEF Reread, TypeOK, Batches
<1>3. Still /\ UNCHANGED <<flagged, boundVars>>
  BY DEF Reread, Still, providerVars
<1>4. CASE Continue(w)
  <2>1. /\ NextOf(w, batch[w]) \in LaneStates /\ RoleFits(w, NextOf(w, batch[w]))
        /\ NextOf(w, batch[w]).pc \notin Informed
    BY NextOfType DEF Informed
  <2> QED BY <1>2, <1>3, <1>4, <2>1, WorkerStep DEF Continue
<1>5. ASSUME NEW pc \in {"superseding", "retrieving"}, Goto(w, pc)
      PROVE  Moves
  <2> DEFINE n == [lane[w] EXCEPT !.pc = pc]
  <2>1. n \in LaneStates /\ n.pc = pc /\ n.job = lane[w].job /\ lane' = [lane EXCEPT ![w] = n]
    BY <1>1, <1>5, GotoType DEF Goto, WorkerPoints, Working
  <2> HIDE DEF n
  <2>2. lane[w].job \in Deposits
    BY <1>1 DEF Reread, RoleFits, Working
  <2>3. RoleFits(w, n) /\ n.pc \notin Informed
    BY <2>1, <2>2, RoleOf DEF RoleFits, WorkerPoints, Working, Informed
  <2> QED BY <1>2, <1>3, <2>1, <2>3, WorkerStep
<1> QED BY <1>4, <1>5 DEF Reread

LEMMA RetrieveSessionMoves ==
  ASSUME IInv, NEW w \in WorkerLanes, RetrieveSession(w)
  PROVE  Moves
<1>1. TypeOK /\ w \in Lanes /\ RoleFits(w, lane[w])
  BY RoleOf DEF IInv, Shape, RolesFit
<1>2. lane[w].pc = "retrieving" /\ lane[w].pc \in Working /\ lane[w].job \in Deposits
  BY <1>1 DEF RetrieveSession, RoleFits, Working
<1>3. batch' \in Batches /\ faults' \in Nat
  BY <1>1 DEF RetrieveSession, TypeOK, Batches, boundVars
<1>4. Still /\ UNCHANGED <<flagged, boundVars, batch>>
  BY DEF RetrieveSession, Still, providerVars
<1> DEFINE n == [lane[w] EXCEPT !.pc = "reading",
                   !.seen = [checkout |-> session[lane[w].job], paid |-> FALSE]]
<1>5. \/ \E verdict \in {"RETRY", "QUARANTINE"} : lane' = [lane EXCEPT ![w] = Caught(w, verdict)]
      \/ lane' = [lane EXCEPT ![w] = n]
  BY DEF RetrieveSession
<1>6. ASSUME NEW verdict \in {"RETRY", "QUARANTINE"}, lane' = [lane EXCEPT ![w] = Caught(w, verdict)]
      PROVE  Moves
  BY <1>2, <1>3, <1>4, <1>6, CaughtMoves, RoleOf DEF boundVars
<1>7. CASE lane' = [lane EXCEPT ![w] = n]
  <2>1. session[lane[w].job] \in SessionStatuses
    BY <1>1, <1>2 DEF TypeOK
  <2>2. /\ n \in LaneStates /\ n.pc = "reading" /\ n.job = lane[w].job
        /\ n.seen.checkout = session[lane[w].job] /\ n.seen.paid = FALSE
    BY <1>1, <2>1, ZenonT(30) DEF TypeOK, LaneStates, Working, Facts
  <2> HIDE DEF n
  <2>3. RoleFits(w, n) /\ Knows(n, session[n.job], evidence[n.job])
    BY <1>2, <2>2, RoleOf DEF RoleFits, WorkerPoints, Working, Knows
  <2> QED BY <1>3, <1>4, <1>7, <2>2, <2>3, WorkerStep
<1> QED BY <1>5, <1>6, <1>7

LEMMA RetrievePaymentMoves ==
  ASSUME IInv, NEW w \in WorkerLanes, RetrievePayment(w)
  PROVE  Moves
<1>1. TypeOK /\ w \in Lanes /\ RoleFits(w, lane[w]) /\ LanesKnow
  BY RoleOf DEF IInv, Shape, RolesFit
<1>2. lane[w].pc = "reading" /\ lane[w].pc \in Working \cap Informed /\ lane[w].job \in Deposits
  BY <1>1 DEF RetrievePayment, RoleFits, Working, Informed
<1>3. batch' \in Batches /\ faults' \in Nat
  BY <1>1 DEF RetrievePayment, TypeOK, Batches, boundVars
<1>4. Still /\ UNCHANGED <<flagged, boundVars, batch>>
  BY DEF RetrievePayment, Still, providerVars
<1>5. PICK named \in BOOLEAN :
        \/ lane' = [lane EXCEPT ![w] = Caught(w, "QUARANTINE")]
        \/ lane' = [lane EXCEPT ![w] = [lane[w] EXCEPT !.pc = "persisting",
                      !.seen.paid = named /\ session[lane[w].job] = "PAID"]]
  BY DEF RetrievePayment
<1> DEFINE p == named /\ session[lane[w].job] = "PAID"
           n == [lane[w] EXCEPT !.pc = "persisting", !.seen.paid = p]
<1>6. CASE lane' = [lane EXCEPT ![w] = Caught(w, "QUARANTINE")]
  BY <1>2, <1>3, <1>4, <1>6, CaughtMoves, RoleOf DEF boundVars
<1>7. CASE lane' = [lane EXCEPT ![w] = n]
  <2>1. p \in BOOLEAN /\ (p => session[lane[w].job] = "PAID")
    OBVIOUS
  <2>2. lane[w] \in LaneStates
    BY <1>1 DEF TypeOK
  <2> HIDE DEF p
  <2>3. /\ n \in LaneStates /\ n.pc = "persisting" /\ n.job = lane[w].job
        /\ n.seen.checkout = lane[w].seen.checkout /\ n.seen.paid = p
    BY <2>1, <2>2 DEF LaneStates, Working, Facts
  <2>4. Knows(lane[w], session[lane[w].job], evidence[lane[w].job])
    BY <1>1, <1>2 DEF LanesKnow
  <2> HIDE DEF n
  <2>5. RoleFits(w, n) /\ Knows(n, session[n.job], evidence[n.job])
    BY <1>2, <2>1, <2>3, <2>4, RoleOf DEF RoleFits, WorkerPoints, Working, Knows
  <2> QED BY <1>3, <1>4, <1>7, <2>3, <2>5, WorkerStep
<1> QED BY <1>5, <1>6, <1>7

LEMMA FlagMoves ==
  ASSUME IInv, NEW d \in Deposits, Flag(d)
  PROVE  Moves
<1>1. Still /\ UNCHANGED <<lane, batch, boundVars>>
  BY DEF Flag, Still
<1>2. Shape /\ LanesKnow /\ ReusesAttached /\ TypeOK
  BY DEF IInv, Shape
<1>3. LanesSound
  BY <1>1, <1>2, StillGrows, LanesStay
<1>4. flagged' \in [Deposits -> BOOLEAN]
  BY <1>2 DEF Flag, TypeOK
<1>5. TypeOK'
  BY <1>1, <1>2, <1>4 DEF TypeOK, Still, moneyVars, boundVars
<1> QED BY <1>1, <1>3, <1>5, StillMoves

LEMMA CrashMoves ==
  ASSUME IInv, NEW l \in Lanes, Crash(l)
  PROVE  Moves
<1>1. TypeOK
  BY DEF IInv, Shape
<1>2. Still /\ lane' = [lane EXCEPT ![l] = Idle] /\ UNCHANGED <<flagged, runtime, requests, deliveries>>
  BY DEF Crash, Still, providerVars, Rest
<1>3. batch' \in [WorkerLanes -> SUBSET [deposit : Deposits, attempts : Nat]]
  BY <1>1 DEF Crash, TypeOK
<1>4. faults' \in Nat /\ flagged' \in [Deposits -> BOOLEAN] /\ runtime' \in Runtimes
  BY <1>1, <1>2 DEF Crash, Fault, TypeOK
<1>5. Idle.pc \notin Informed \cup {"reusing"}
  BY LaneRests DEF Informed
<1> QED BY <1>2, <1>3, <1>4, <1>5, LaneRests, OnlyLane

LEMMA RedeployMoves ==
  ASSUME IInv, NEW r \in Runtimes, Redeploy(r)
  PROVE  Moves
<1>1. TypeOK
  BY DEF IInv, Shape
<1>2. /\ Still /\ lane' = [l \in Lanes |-> Idle] /\ runtime' = r
      /\ UNCHANGED <<flagged, requests, deliveries>>
  BY DEF Redeploy, Still, providerVars
<1>3. batch' \in [WorkerLanes -> SUBSET [deposit : Deposits, attempts : Nat]]
  BY DEF Redeploy
<1>4. faults' \in Nat
  BY <1>1 DEF Redeploy, Fault, TypeOK
<1>5. \A l \in Lanes : Idle \in LaneStates /\ RoleFits(l, Idle) /\ Idle.pc = "idle"
  BY LaneRests
<1>6. \A l \in Lanes : lane'[l] = Idle
  BY <1>2
<1>7. RolesFit'
  BY <1>5, <1>6 DEF RolesFit, RoleFits
<1>8. LanesKnow' /\ ReusesAttached'
  BY <1>5, <1>6, RoleOf DEF LanesKnow, ReusesAttached, Informed
<1>9. lane' \in [Lanes -> LaneStates]
  BY <1>2, <1>5
<1>10. TypeOK'
  BY <1>1, <1>2, <1>3, <1>4, <1>9 DEF TypeOK, Still, moneyVars
<1> QED BY <1>2, <1>7, <1>8, <1>10, StillMoves DEF LanesSound

-----------------------------------------------------------------------------
(* Steps on the recovery rows.                                             *)

LEMMA RecoveredRecovery ==
  ASSUME NEW row \in RecoveryRows
  PROVE  /\ Recovered(row) \in RecoveryRows
         /\ \/ Recovered(row) = row
            \/ row.status = "PROCESSING" /\ Recovered(row).status = "FAILED"
  BY DEF RecoveryRows, Recovered, Stale

LEMMA ClaimedRecovery ==
  ASSUME NEW row \in RecoveryRows
  PROVE  Claimed(row) \in RecoveryRows /\ Claimed(row).status = "PROCESSING"
<1>1. row.attempts + 1 \in Nat
  BY DEF RecoveryRows
<1> QED BY <1>1 DEF RecoveryRows, Claimed

LEMMA EndedRecovery ==
  ASSUME NEW row \in RecoveryRows, NEW status \in Settled, NEW k \in Nat
  PROVE  /\ Ended(row, status, k) \in RecoveryRows
         /\ Ended(row, status, k).status = status
         /\ Ended(row, status, k).evidence = k
         /\ Ended(row, status, k).attempts = row.attempts
  BY DEF RecoveryRows, Ended, Settled

LEMMA ReturnedRecovery ==
  ASSUME NEW row \in RecoveryRows, NEW verdict
  PROVE  /\ Returned(row, verdict) \in RecoveryRows
         /\ Returned(row, verdict).status \in {"FAILED", "QUARANTINED"}
  BY DEF RecoveryRows, Returned

LEMMA GivenUpRecovery ==
  ASSUME NEW row \in RecoveryRows, NEW verdict, NEW d
  PROVE  /\ GivenUp(row, d, verdict) \in RecoveryRows
         /\ GivenUp(row, d, verdict).status \in {"FAILED", "QUARANTINED"}
<1> DEFINE r == Returned(row, verdict)
           k == IF verdict = "QUARANTINE" /\ (\E o \in evidence[d] : o.claim = row.attempts)
                  THEN row.attempts ELSE 0
<1>1. r \in RecoveryRows /\ r.status \in {"FAILED", "QUARANTINED"}
  BY ReturnedRecovery
<1>2. k \in Nat
  BY DEF RecoveryRows
<1>3. GivenUp(row, d, verdict) = [r EXCEPT !.evidence = k]
  BY DEF GivenUp
<1> HIDE DEF r, k
<1> QED BY <1>1, <1>2, <1>3 DEF RecoveryRows

\* Only recovery rows, evidence, a worker lane and its batch change.
RowsOnly == UNCHANGED <<moneyVars, inbox, session, linked, sent, flagged, boundVars>>

LEMMA RowsMove ==
  ASSUME IInv, RowsOnly, RecoveryMoves, ClosesNone, UNCHANGED evidence,
         recovery' \in [Deposits -> RecoveryRows], batch' \in Batches,
         NEW w \in WorkerLanes,
         \/ UNCHANGED lane
         \/ \E n \in LaneStates : /\ RoleFits(w, n)
                                  /\ n.pc \notin Informed
                                  /\ lane' = [lane EXCEPT ![w] = n]
  PROVE  Moves
<1>1. Shape /\ LanesKnow /\ ReusesAttached /\ TypeOK /\ w \in Lanes /\ w \notin CheckoutLanes
  BY RoleOf DEF IInv, Shape
<1>2. Kept /\ Grows /\ Announces /\ InboxMoves /\ LinkMoves
  BY MoneyStill, ProviderStill, InboxStill, LinkStill DEF RowsOnly, moneyVars
<1>3. lane' \in [Lanes -> LaneStates] /\ LanesSound
  <2>1. CASE UNCHANGED lane
    BY <1>1, <1>2, <2>1, LanesStay DEF TypeOK
  <2>2. ASSUME NEW n \in LaneStates, RoleFits(w, n), n.pc \notin Informed,
               lane' = [lane EXCEPT ![w] = n]
        PROVE  lane' \in [Lanes -> LaneStates] /\ LanesSound
    BY <1>1, <1>2, <2>2, LaneMoves
  <2> QED BY <2>1, <2>2
<1>4. TypeOK'
  BY <1>1, <1>3 DEF TypeOK, RowsOnly, Batches, moneyVars, boundVars
<1> QED BY <1>2, <1>3, <1>4 DEF Moves, Outcome

LEMMA SeedCreateMoves ==
  ASSUME IInv, NEW w \in WorkerLanes, SeedCreate(w)
  PROVE  Moves
<1>1. TypeOK
  BY DEF IInv, Shape
<1>2. RowsOnly /\ UNCHANGED lane /\ UNCHANGED evidence
  BY DEF SeedCreate, RowsOnly, providerVars
<1>3. batch' \in Batches
  BY <1>1 DEF SeedCreate, TypeOK, Batches
<1>4. PICK c \in batch[w] :
        recovery' = IF recovery[c.deposit].status = "ABSENT"
                      THEN [recovery EXCEPT ![c.deposit] =
                              [NoRecovery EXCEPT !.status = "PENDING", !.due = TRUE]]
                      ELSE recovery
  BY DEF SeedCreate
<1>5. c.deposit \in Deposits
  BY <1>1 DEF TypeOK
<1> DEFINE r == [NoRecovery EXCEPT !.status = "PENDING", !.due = TRUE]
<1>6. r \in RecoveryRows /\ r.status = "PENDING"
  BY DEF RecoveryRows, NoRecovery
<1> HIDE DEF r
<1>7. recovery' \in [Deposits -> RecoveryRows] /\ RecoveryMoves /\ ClosesNone
  <2>1. CASE recovery' = recovery
    BY <1>1, <2>1, RecoveryStill DEF TypeOK
  <2>2. CASE recovery[c.deposit].status = "ABSENT" /\ recovery' = [recovery EXCEPT ![c.deposit] = r]
    <3>1. \A d \in Deposits : \/ recovery'[d] = recovery[d]
                              \/ /\ recovery[d].status \notin Settled
                                 /\ recovery'[d].status \notin Settled
      BY <1>1, <1>5, <1>6, <2>2 DEF TypeOK, Settled
    <3>2. recovery' \in [Deposits -> RecoveryRows]
      BY <1>1, <1>5, <1>6, <2>2 DEF TypeOK
    <3> QED BY <3>1, <3>2, RecoveryOpen
  <2> QED BY <1>4, <2>1, <2>2 DEF r
<1> QED BY <1>2, <1>3, <1>7, RowsMove

LEMMA SweepMoves ==
  ASSUME IInv, NEW w \in WorkerLanes, Sweep(w)
  PROVE  Moves
<1> DEFINE n == [lane[w] EXCEPT !.pc = "swept"]
<1>1. TypeOK /\ w \in Lanes
  BY RoleOf DEF IInv, Shape
<1>2. RowsOnly /\ UNCHANGED evidence /\ batch' \in Batches
  BY <1>1 DEF Sweep, RowsOnly, providerVars, TypeOK, Batches
<1>3. n \in LaneStates /\ n.pc = "swept" /\ lane' = [lane EXCEPT ![w] = n]
  BY <1>1, GotoType DEF Sweep, Goto, WorkerPoints
<1>4. \A d \in Deposits : recovery[d] \in RecoveryRows /\ recovery'[d] = Recovered(recovery[d])
  BY <1>1 DEF TypeOK, Sweep
<1>5. recovery' \in [Deposits -> RecoveryRows]
  BY <1>4, RecoveredRecovery DEF Sweep
<1>6. RecoveryMoves /\ ClosesNone
  <2>1. \A d \in Deposits : \/ recovery'[d] = recovery[d]
                            \/ recovery[d].status \notin Settled /\ recovery'[d].status \notin Settled
    BY <1>4, RecoveredRecovery DEF Settled
  <2> QED BY <2>1, RecoveryOpen
<1> HIDE DEF n
<1>7. RoleFits(w, n) /\ n.pc \notin Informed
  BY <1>3, RoleOf DEF RoleFits, WorkerPoints, Working, Informed
<1> QED BY <1>2, <1>3, <1>5, <1>6, <1>7, RowsMove

\* One open row changes and stays open.
LEMMA OneRowOpen ==
  ASSUME TypeOK, NEW d \in Deposits, NEW r \in RecoveryRows,
         recovery[d].status \notin Settled, r.status \notin Settled,
         recovery' = [recovery EXCEPT ![d] = r]
  PROVE  recovery' \in [Deposits -> RecoveryRows] /\ RecoveryMoves /\ ClosesNone
<1>1. \A q \in Deposits : recovery'[q] = IF q = d THEN r ELSE recovery[q]
  BY DEF TypeOK
<1>2. recovery' \in [Deposits -> RecoveryRows]
  BY DEF TypeOK
<1>3. \A q \in Deposits : \/ recovery'[q] = recovery[q]
                          \/ recovery[q].status \notin Settled /\ recovery'[q].status \notin Settled
  BY <1>1
<1> QED BY <1>2, <1>3, RecoveryOpen

LEMMA ClaimMoves ==
  ASSUME IInv, NEW w \in WorkerLanes, Claim(w)
  PROVE  Moves
<1>1. TypeOK /\ w \in Lanes
  BY RoleOf DEF IInv, Shape
<1>2. RowsOnly /\ UNCHANGED evidence
  BY DEF Claim, RowsOnly, providerVars
<1>3. PICK c \in batch[w] :
        LET d == c.deposit
            todo == batch[w] \ {c}
        IN /\ batch' = [batch EXCEPT ![w] = todo]
           /\ IF Claimable(recovery[d]) /\ recovery[d].attempts = c.attempts
                THEN /\ recovery' = [recovery EXCEPT ![d] = Claimed(@)]
                     /\ lane' = [lane EXCEPT ![w] = At("claimed", d, c.attempts + 1)]
                ELSE /\ lane' = [lane EXCEPT ![w] = NextOf(w, todo)]
                     /\ UNCHANGED recovery
  BY DEF Claim
<1>4. c.deposit \in Deposits /\ c.attempts + 1 \in Nat
  BY <1>1 DEF TypeOK
<1>5. batch' \in Batches
  BY <1>1, <1>3 DEF TypeOK, Batches
<1>6. CASE Claimable(recovery[c.deposit]) /\ recovery[c.deposit].attempts = c.attempts
  <2> DEFINE r == Claimed(recovery[c.deposit])
             n == At("claimed", c.deposit, c.attempts + 1)
  <2>1. recovery[c.deposit] \in RecoveryRows
    BY <1>1, <1>4 DEF TypeOK
  <2>2. r \in RecoveryRows /\ r.status \notin Settled
    BY <2>1, ClaimedRecovery DEF Settled
  <2>3. recovery[c.deposit].status \notin Settled
    BY <1>6 DEF Claimable, Settled
  <2>4. recovery' = [recovery EXCEPT ![c.deposit] = r] /\ lane' = [lane EXCEPT ![w] = n]
    BY <1>3, <1>6
  <2>5. n \in LaneStates /\ n.pc = "claimed" /\ n.job = c.deposit
    <3>1. "claimed" \in CheckoutPoints \cup WebhookPoints \cup WorkerPoints \cup {"idle"}
      BY DEF WorkerPoints, Working
    <3>2. c.deposit \in Deposits \cup Events \cup {None}
      BY <1>4
    <3> QED BY <1>4, <3>1, <3>2, AtType
  <2> HIDE DEF r, n
  <2>6. recovery' \in [Deposits -> RecoveryRows] /\ RecoveryMoves /\ ClosesNone
    BY <1>1, <1>4, <2>2, <2>3, <2>4, OneRowOpen
  <2>7. RoleFits(w, n) /\ n.pc \notin Informed
    BY <1>4, <2>5, RoleOf DEF RoleFits, WorkerPoints, Working, Informed
  <2> QED BY <1>2, <1>5, <2>4, <2>5, <2>6, <2>7, RowsMove
<1>7. CASE ~(Claimable(recovery[c.deposit]) /\ recovery[c.deposit].attempts = c.attempts)
  <2> DEFINE n == NextOf(w, batch[w] \ {c})
  <2>1. lane' = [lane EXCEPT ![w] = n] /\ UNCHANGED recovery
    BY <1>3, <1>7
  <2>2. n \in LaneStates /\ RoleFits(w, n) /\ n.pc \notin Informed
    BY NextOfType DEF Informed
  <2>3. recovery' \in [Deposits -> RecoveryRows] /\ RecoveryMoves /\ ClosesNone
    BY <1>1, <2>1, RecoveryStill DEF TypeOK
  <2> HIDE DEF n
  <2> QED BY <1>2, <1>5, <2>1, <2>2, <2>3, RowsMove
<1> QED BY <1>6, <1>7

\* What a worker lane that works under a claim has at hand.
LEMMA WorkerAt ==
  ASSUME IInv, NEW w \in WorkerLanes, lane[w].pc \in Working
  PROVE  /\ w \in Lanes /\ TypeOK
         /\ lane[w].job \in Deposits /\ recovery[lane[w].job] \in RecoveryRows
         /\ lane[w].attempts \in Nat /\ lane[w].seen \in Facts
         /\ OwnsRecovery(w) => /\ recovery[lane[w].job].status = "PROCESSING"
                               /\ recovery[lane[w].job].attempts = lane[w].attempts
<1>1. w \in Lanes /\ TypeOK /\ RoleFits(w, lane[w])
  BY RoleOf DEF IInv, Shape, RolesFit
<1>2. lane[w].job \in Deposits
  BY <1>1 DEF RoleFits
<1>3. lane[w] \in LaneStates
  BY <1>1 DEF TypeOK
<1> QED BY <1>1, <1>2, <1>3 DEF TypeOK, LaneStates, OwnsRecovery, OwnedBy

\* Every handler that ends a claim leaves the row open and takes the next
\* candidate, unless it settles the row.
LEMMA ReturnMoves ==
  ASSUME IInv, NEW w \in WorkerLanes, lane[w].pc \in Working, RowsOnly,
         UNCHANGED evidence, UNCHANGED batch, Continue(w),
         \/ UNCHANGED recovery
         \/ /\ OwnsRecovery(w)
            /\ \E r \in RecoveryRows : /\ r.status \notin Settled
                                       /\ recovery' = [recovery EXCEPT ![lane[w].job] = r]
  PROVE  Moves
<1>1. /\ TypeOK /\ lane[w].job \in Deposits
      /\ OwnsRecovery(w) => recovery[lane[w].job].status = "PROCESSING"
  BY WorkerAt
<1>2. batch' \in Batches
  BY <1>1 DEF TypeOK, Batches
<1>3. recovery' \in [Deposits -> RecoveryRows] /\ RecoveryMoves /\ ClosesNone
  <2>1. CASE UNCHANGED recovery
    BY <1>1, <2>1, RecoveryStill DEF TypeOK
  <2>2. CASE OwnsRecovery(w) /\ \E r \in RecoveryRows :
                /\ r.status \notin Settled
                /\ recovery' = [recovery EXCEPT ![lane[w].job] = r]
    <3>1. recovery[lane[w].job].status \notin Settled
      BY <1>1, <2>2 DEF Settled
    <3> QED BY <1>1, <2>2, <3>1, OneRowOpen
  <2> QED BY <2>1, <2>2
<1>4. /\ NextOf(w, batch[w]) \in LaneStates /\ RoleFits(w, NextOf(w, batch[w]))
      /\ NextOf(w, batch[w]).pc \notin Informed
  BY NextOfType DEF Informed
<1>5. lane' = [lane EXCEPT ![w] = NextOf(w, batch[w])]
  BY DEF Continue
<1> QED BY <1>2, <1>3, <1>4, <1>5, RowsMove

LEMMA RecoveryHandleErrorMoves ==
  ASSUME IInv, NEW w \in WorkerLanes, RecoveryHandleError(w)
  PROVE  Moves
<1>1. lane[w].pc \in Working
  BY DEF RecoveryHandleError, Working
<1>2. lane[w].job \in Deposits /\ recovery[lane[w].job] \in RecoveryRows /\ TypeOK
  BY <1>1, WorkerAt
<1>3. RowsOnly /\ UNCHANGED evidence /\ UNCHANGED batch /\ Continue(w)
  BY DEF RecoveryHandleError, RowsOnly, providerVars
<1> DEFINE r == GivenUp(recovery[lane[w].job], lane[w].job, lane[w].verdict)
<1>4. r \in RecoveryRows /\ r.status \notin Settled
  BY <1>2, GivenUpRecovery DEF Settled
<1>5. \/ UNCHANGED recovery
      \/ OwnsRecovery(w) /\ recovery' = [recovery EXCEPT ![lane[w].job] = r]
  BY DEF RecoveryHandleError
<1> HIDE DEF r
<1> QED BY <1>1, <1>3, <1>4, <1>5, ReturnMoves

LEMMA ElapseRecoveryMoves ==
  ASSUME IInv, NEW d \in Deposits, ElapseRecovery(d)
  PROVE  Moves
<1> DEFINE r == [recovery[d] EXCEPT !.due = TRUE]
<1>1. Shape /\ LanesKnow /\ ReusesAttached /\ TypeOK /\ recovery[d] \in RecoveryRows
  BY DEF IInv, Shape, TypeOK
<1>2. /\ RowsOnly /\ UNCHANGED evidence /\ UNCHANGED lane /\ UNCHANGED batch
      /\ recovery[d].status \in {"FAILED", "PROCESSING"}
      /\ recovery' = [recovery EXCEPT ![d] = r]
  BY DEF ElapseRecovery, RowsOnly, providerVars
<1>3. r \in RecoveryRows /\ r.status = recovery[d].status
  BY <1>1 DEF RecoveryRows
<1> HIDE DEF r
<1>4. recovery' \in [Deposits -> RecoveryRows] /\ RecoveryMoves /\ ClosesNone
  BY <1>1, <1>2, <1>3, OneRowOpen DEF Settled
<1>5. Kept /\ Grows /\ Announces /\ InboxMoves /\ LinkMoves
  BY <1>2, MoneyStill, ProviderStill, InboxStill, LinkStill DEF RowsOnly, moneyVars
<1>6. LanesSound
  BY <1>1, <1>2, <1>5, LanesStay
<1>7. TypeOK'
  BY <1>1, <1>2, <1>4 DEF TypeOK, RowsOnly, moneyVars, boundVars
<1> QED BY <1>4, <1>5, <1>6, <1>7 DEF Moves, Outcome

LEMMA PersistEvidenceMoves ==
  ASSUME IInv, NEW w \in WorkerLanes, PersistEvidence(w)
  PROVE  Moves
<1>1. lane[w].pc = "persisting" /\ lane[w].pc \in Working \cap Informed
  BY DEF PersistEvidence, Working, Informed
<1>2. PICK d \in Deposits : d = lane[w].job
  BY <1>1, WorkerAt
<1>3. /\ w \in Lanes /\ w \notin CheckoutLanes /\ TypeOK /\ LanesKnow /\ ReusesAttached /\ Shape
      /\ lane[w].attempts \in Nat /\ lane[w].seen \in Facts
  BY <1>1, WorkerAt, RoleOf DEF IInv
<1>4. UNCHANGED <<moneyVars, inbox, recovery, providerVars, batch, boundVars>>
  BY DEF PersistEvidence
<1> DEFINE o == [claim |-> lane[w].attempts, seen |-> lane[w].seen]
<1>5. o \in [claim : Nat, seen : Facts]
  BY <1>3
<1>6. CASE ~OwnsRecovery(w)
  <2>1. Still /\ UNCHANGED flagged /\ lane' = [lane EXCEPT ![w] = Caught(w, "QUARANTINE")]
    BY <1>4, <1>6 DEF PersistEvidence, Still, providerVars
  <2>2. faults' \in Nat /\ UNCHANGED <<runtime, requests, deliveries, batch>>
    BY <1>3, <1>4 DEF boundVars, TypeOK
  <2> QED BY <1>1, <2>1, <2>2, CaughtMoves, RoleOf
<1>7. CASE OwnsRecovery(w)
  <2>1. evidence' = [evidence EXCEPT ![d] = evidence[d] \cup {o}]
        /\ lane' = [lane EXCEPT ![w] = Decision(w)]
    BY <1>2, <1>7 DEF PersistEvidence
  <2> HIDE DEF o
  <2>2. /\ evidence' \in [Deposits -> SUBSET [claim : Nat, seen : Facts]]
        /\ \A q \in Deposits : evidence[q] \subseteq evidence'[q]
        /\ o \in evidence'[d]
    BY <1>3, <1>5, <2>1 DEF TypeOK
  <2>3. Grows /\ Announces
    BY <1>4, <2>2 DEF Grows, Announces, moneyVars, providerVars
  <2>4. Kept /\ InboxMoves /\ LinkMoves /\ RecoveryMoves /\ ClosesNone
    BY <1>4, MoneyStill, InboxStill, LinkStill, RecoveryStill DEF providerVars
  <2>5. Knows(lane[w], session[d], evidence[d])
    BY <1>1, <1>2, <1>3 DEF LanesKnow
  <2>6. session'[d] = session[d]
    BY <1>4 DEF providerVars
  <2> DEFINE n == Decision(w)
  <2>7. /\ n \in LaneStates /\ n.job = d /\ n.attempts = lane[w].attempts
        /\ n.pc \in {"caught", "closing", "finalizing"}
        /\ n.pc \in {"closing", "finalizing"} => n.seen = lane[w].seen
        /\ n.pc = "closing" => lane[w].seen.checkout = "EXPIRED"
        /\ n.pc = "finalizing" => lane[w].seen.checkout = "PAID"
    <3>1. /\ Caught(w, "QUARANTINE") \in LaneStates /\ Caught(w, "QUARANTINE").pc = "caught"
          /\ Caught(w, "QUARANTINE").job = d
          /\ Caught(w, "QUARANTINE").attempts = lane[w].attempts
      BY <1>2, <1>3, CaughtType
    <3>2. /\ Caught(w, "RETRY") \in LaneStates /\ Caught(w, "RETRY").pc = "caught"
          /\ Caught(w, "RETRY").job = d
          /\ Caught(w, "RETRY").attempts = lane[w].attempts
      BY <1>2, <1>3, CaughtType
    <3> DEFINE c == [lane[w] EXCEPT !.pc = "closing"]
               z == [lane[w] EXCEPT !.pc = "finalizing"]
    <3>3. /\ c \in LaneStates /\ c.pc = "closing" /\ c.job = d
          /\ c.attempts = lane[w].attempts /\ c.seen = lane[w].seen
      BY <1>2, <1>3, GotoType DEF WorkerPoints, Working
    <3>4. /\ z \in LaneStates /\ z.pc = "finalizing" /\ z.job = d
          /\ z.attempts = lane[w].attempts /\ z.seen = lane[w].seen
      BY <1>2, <1>3, GotoType DEF WorkerPoints, Working
    <3>5. \/ n \in {Caught(w, "QUARANTINE"), Caught(w, "RETRY")}
          \/ n = c /\ lane[w].seen.checkout = "EXPIRED"
          \/ n = z /\ lane[w].seen.checkout = "PAID"
      BY DEF Decision
    <3> HIDE DEF c, z, n
    <3> QED BY <3>1, <3>2, <3>3, <3>4, <3>5
  <2> HIDE DEF n
  <2>8. RoleFits(w, n)
    BY <2>7, RoleOf DEF RoleFits, WorkerPoints, Working
  <2>9. n.pc \in Informed => Knows(n, session'[n.job], evidence'[n.job])
    <3>1. SUFFICES ASSUME n.pc \in {"closing", "finalizing"} PROVE Knows(n, session'[d], evidence'[d])
      BY <2>7 DEF Informed
    <3>2. [claim |-> n.attempts, seen |-> n.seen] = o
      BY <2>7, <3>1 DEF o
    <3>3. n.seen = lane[w].seen
      BY <2>7, <3>1
    <3>4. \/ n.pc = "closing" /\ n.seen.checkout = "EXPIRED"
          \/ n.pc = "finalizing" /\ n.seen.checkout = "PAID"
      BY <2>7, <3>1, <3>3
    <3>5. /\ n.seen.checkout \in {"PAID", "EXPIRED"} => session'[d] = n.seen.checkout
          /\ n.seen.paid => session'[d] = "PAID"
      BY <1>1, <2>5, <2>6, <3>3 DEF Knows
    <3> QED BY <2>2, <3>2, <3>4, <3>5 DEF Knows
  <2>10. lane' \in [Lanes -> LaneStates] /\ LanesSound
    BY <1>3, <2>1, <2>3, <2>7, <2>8, <2>9, LaneMoves DEF n
  <2>11. TypeOK'
    BY <1>3, <1>4, <2>2, <2>10 DEF TypeOK, moneyVars, providerVars, boundVars
  <2> QED BY <2>3, <2>4, <2>10, <2>11 DEF Moves, Outcome
<1> QED BY <1>6, <1>7

\* Steps that settle a recovery of a deposit, with its proof.
LEMMA OneRowSettled ==
  ASSUME TypeOK, NEW d \in Deposits, NEW r \in RecoveryRows,
         recovery[d].status = "PROCESSING",
         recovery' = [recovery EXCEPT ![d] = r],
         RecoveryProves(d)'
  PROVE  /\ recovery' \in [Deposits -> RecoveryRows] /\ RecoveryMoves
         /\ \A q \in Deposits : q # d => SameClosed(q)
         /\ r.status # "CLOSED_UNPAID" => ClosesNone
         /\ recovery'[d] = r
<1>1. \A q \in Deposits : recovery'[q] = IF q = d THEN r ELSE recovery[q]
  BY DEF TypeOK
<1>2. recovery' \in [Deposits -> RecoveryRows]
  BY DEF TypeOK
<1>3. ASSUME NEW q \in Deposits
      PROVE  \/ recovery'[q] = recovery[q]
             \/ /\ recovery[q].status \notin Settled
                /\ recovery'[q].status \notin Settled \/ RecoveryProves(q)'
  <2>1. CASE q = d
    <3>1. recovery[d].status \notin Settled
      BY DEF Settled
    <3> QED BY <2>1, <3>1
  <2>2. CASE q # d
    BY <1>1, <2>2
  <2> QED BY <2>1, <2>2
<1>4. RecoveryMoves
  BY <1>3 DEF RecoveryMoves
<1> QED BY <1>1, <1>2, <1>4 DEF SameClosed, ClosesNone

\* The recovery settles or is retried as superseded.
LEMMA SupersedeMoves ==
  ASSUME IInv, NEW w \in WorkerLanes, Supersede(w)
  PROVE  Moves
<1>1. lane[w].pc \in Working
  BY DEF Supersede, Working
<1>2. PICK d \in Deposits : d = lane[w].job
  BY <1>1, WorkerAt
<1>3. /\ w \in Lanes /\ TypeOK /\ recovery[d] \in RecoveryRows
      /\ OwnsRecovery(w) => recovery[d].status = "PROCESSING"
  BY <1>1, <1>2, WorkerAt
<1>4. RowsOnly /\ UNCHANGED evidence /\ UNCHANGED batch /\ Continue(w)
  BY DEF Supersede, RowsOnly, providerVars
<1>5. CASE ~OwnsRecovery(w)
  BY <1>1, <1>4, <1>5, ReturnMoves DEF Supersede
<1>6. CASE OwnsRecovery(w) /\ ~Replays(d)
  <2>1. recovery' = [recovery EXCEPT ![d] = Returned(recovery[d], "RETRY")]
    BY <1>2, <1>6 DEF Supersede
  <2>2. Returned(recovery[d], "RETRY") \in RecoveryRows
        /\ Returned(recovery[d], "RETRY").status \notin Settled
    BY <1>3, ReturnedRecovery DEF Settled
  <2> QED BY <1>1, <1>2, <1>4, <1>6, <2>1, <2>2, ReturnMoves
<1>7. CASE OwnsRecovery(w) /\ Replays(d)
  <2> DEFINE r == Ended(recovery[d], "SUPERSEDED", 0)
  <2>1. recovery' = [recovery EXCEPT ![d] = r]
    BY <1>2, <1>7 DEF Supersede
  <2>2. r \in RecoveryRows /\ r.status = "SUPERSEDED" /\ r.evidence = 0
    BY <1>3, EndedRecovery DEF Settled
  <2> HIDE DEF r
  <2>3. recovery'[d] = r /\ credits'[d] = 1
    BY <1>3, <1>4, <1>7, <2>1 DEF TypeOK, Replays, RowsOnly, moneyVars
  <2>4. RecoveryProves(d)'
    BY <2>2, <2>3 DEF RecoveryProves
  <2>5. recovery' \in [Deposits -> RecoveryRows] /\ RecoveryMoves /\ ClosesNone
    BY <1>3, <1>7, <2>1, <2>2, <2>4, OneRowSettled
  <2>6. batch' \in Batches
    BY <1>3, <1>4 DEF TypeOK, Batches
  <2>7. /\ NextOf(w, batch[w]) \in LaneStates /\ RoleFits(w, NextOf(w, batch[w]))
        /\ NextOf(w, batch[w]).pc \notin Informed
    BY NextOfType DEF Informed
  <2>8. lane' = [lane EXCEPT ![w] = NextOf(w, batch[w])]
    BY <1>4 DEF Continue
  <2> QED BY <1>4, <2>5, <2>6, <2>7, <2>8, RowsMove
<1> QED BY <1>5, <1>6, <1>7

\* After a commit the lane goes on, or handles the loss of the answer.
LEMMA AfterCommit ==
  ASSUME IInv, Grows, NEW w \in WorkerLanes, lane[w].pc \in Working,
         MayLoseCommit(w, NextOf(w, batch[w]))
  PROVE  lane' \in [Lanes -> LaneStates] /\ LanesSound
<1>1. w \in Lanes /\ w \notin CheckoutLanes /\ Shape /\ TypeOK /\ LanesKnow /\ ReusesAttached
  BY RoleOf DEF IInv, Shape
<1>2. PICK n \in {NextOf(w, batch[w]), Caught(w, "RETRY")} : lane' = [lane EXCEPT ![w] = n]
  BY DEF MayLoseCommit
<1>3. n \in LaneStates /\ RoleFits(w, n) /\ n.pc \in {"idle", "claiming", "caught"}
  <2>1. CASE n = NextOf(w, batch[w])
    BY <2>1, NextOfType
  <2>2. CASE n = Caught(w, "RETRY")
    BY <1>1, <2>2, CaughtType, CaughtFits, RoleOf
  <2> QED BY <1>2, <2>1, <2>2
<1>4. n.pc \notin Informed
  BY <1>3 DEF Informed
<1> QED BY <1>1, <1>2, <1>3, <1>4, LaneMoves

LEMMA CloseUnpaidMoves ==
  ASSUME IInv, NEW w \in WorkerLanes, CloseUnpaid(w)
  PROVE  Moves
<1>1. lane[w].pc = "closing" /\ lane[w].pc \in Working \cap Informed
  BY DEF CloseUnpaid, Working, Informed
<1>2. PICK d \in Deposits : d = lane[w].job
  BY <1>1, WorkerAt
<1>3. /\ w \in Lanes /\ TypeOK /\ recovery[d] \in RecoveryRows
      /\ lane[w].attempts \in Nat
      /\ OwnsRecovery(w) => /\ recovery[d].status = "PROCESSING"
                            /\ recovery[d].attempts = lane[w].attempts
  BY <1>1, <1>2, WorkerAt
<1>4. UNCHANGED <<credits, available, inbox, evidence, providerVars, batch, boundVars>>
  BY DEF CloseUnpaid
<1>5. CASE ~OwnsRecovery(w)
  <2>1. RowsOnly /\ UNCHANGED evidence /\ UNCHANGED batch /\ Continue(w) /\ UNCHANGED recovery
    BY <1>4, <1>5 DEF CloseUnpaid, RowsOnly, providerVars, moneyVars
  <2> QED BY <1>1, <2>1, ReturnMoves
<1>6. CASE OwnsRecovery(w)
  <2>1. CreditAgrees(d)
    BY PerDeposit DEF IInv
  <2>2. Credited(d) <=> credits[d] = 1
    BY <2>1 DEF CreditAgrees, Credited
  <2>3. attempt' = IF Credited(d) THEN attempt ELSE [attempt EXCEPT ![d].status = "EXPIRED"]
    BY <1>2, <1>6 DEF CloseUnpaid
  <2>4. attempt' \in [Deposits -> AttemptRows] /\ Kept
        /\ \A q \in Deposits : attempt[q].session => attempt'[q].session
    <3>1. CASE Credited(d)
      BY <1>3, <1>4, <2>3, <3>1 DEF TypeOK, Kept, Follows
    <3>2. CASE ~Credited(d)
      <4> DEFINE a == [attempt[d] EXCEPT !.status = "EXPIRED"]
      <4>1. attempt[d] \in AttemptRows /\ attempt[d].status \notin CreditBacked
        BY <1>3, <2>1, <2>2, <3>2 DEF TypeOK, CreditAgrees
      <4>2. a \in AttemptRows /\ a.session = attempt[d].session /\ Follows(attempt[d], a)
        BY <4>1 DEF AttemptRows, Follows, CreditBacked, PreCredit
      <4>3. attempt' = [attempt EXCEPT ![d] = a]
        BY <2>3, <3>2
      <4> HIDE DEF a
      <4>4. \A q \in Deposits : attempt'[q] = IF q = d THEN a ELSE attempt[q]
        BY <1>3, <4>3 DEF TypeOK
      <4>5. attempt' \in [Deposits -> AttemptRows]
        BY <1>3, <4>2, <4>3 DEF TypeOK
      <4>6. \A q \in Deposits : Follows(attempt[q], attempt'[q])
        BY <4>2, <4>4 DEF Follows
      <4> QED BY <1>4, <4>2, <4>4, <4>5, <4>6 DEF Kept
    <3> QED BY <3>1, <3>2
  <2>5. Grows /\ Announces
    BY <1>4, <2>4 DEF Grows, Announces, providerVars
  <2>6. InboxMoves /\ LinkMoves
    BY <1>4, InboxStill, LinkStill DEF providerVars
  <2>7. lane' \in [Lanes -> LaneStates] /\ LanesSound
    <3>1. MayLoseCommit(w, NextOf(w, batch[w]))
      BY <1>6 DEF CloseUnpaid
    <3> QED BY <1>1, <2>5, <3>1, AfterCommit
  <2> DEFINE r == IF Credited(d) THEN Ended(recovery[d], "SUPERSEDED", 0)
                  ELSE Ended(recovery[d], "CLOSED_UNPAID", lane[w].attempts)
  <2>8. recovery' = [recovery EXCEPT ![d] = r]
    BY <1>2, <1>6 DEF CloseUnpaid
  <2>9. /\ r \in RecoveryRows
        /\ Credited(d) => r.status = "SUPERSEDED" /\ r.evidence = 0
        /\ ~Credited(d) => /\ r.status = "CLOSED_UNPAID"
                           /\ r.evidence = lane[w].attempts /\ r.attempts = lane[w].attempts
    <3>1. "SUPERSEDED" \in Settled /\ "CLOSED_UNPAID" \in Settled /\ 0 \in Nat
      BY DEF Settled
    <3>2. recovery[d] \in RecoveryRows /\ lane[w].attempts \in Nat
      BY <1>3
    <3> DEFINE s == Ended(recovery[d], "SUPERSEDED", 0)
               c == Ended(recovery[d], "CLOSED_UNPAID", lane[w].attempts)
    <3>3. s \in RecoveryRows /\ s.status = "SUPERSEDED" /\ s.evidence = 0
      BY ONLY <3>1, <3>2, EndedRecovery
    <3>4. /\ c \in RecoveryRows /\ c.status = "CLOSED_UNPAID"
          /\ c.evidence = lane[w].attempts /\ c.attempts = recovery[d].attempts
      BY ONLY <3>2 DEF Ended, RecoveryRows
    <3> QED BY <1>3, <1>6, <3>3, <3>4
  <2> HIDE DEF r
  <2>10. recovery'[d] = r
    BY <1>3, <2>8 DEF TypeOK
  <2>11. RecoveryProves(d)'
    <3>1. CASE Credited(d)
      BY <1>4, <2>2, <2>9, <2>10, <3>1 DEF RecoveryProves
    <3>2. CASE ~Credited(d)
      <4>1. credits'[d] = 0
        BY <1>4, <2>1, <2>2, <3>2 DEF CreditAgrees
      <4>2. Knows(lane[w], session[d], evidence[d])
        BY <1>1, <1>2 DEF IInv, LanesKnow
      <4>3. /\ session'[d] = "EXPIRED" /\ lane[w].seen.checkout = "EXPIRED"
            /\ [claim |-> lane[w].attempts, seen |-> lane[w].seen] \in evidence'[d]
        BY <1>1, <1>4, <4>2 DEF Knows, providerVars
      <4>4. attempt'[d].status = "EXPIRED"
        BY <1>3, <2>3, <3>2 DEF TypeOK, AttemptRows
      <4>5. Selected(d, "EXPIRED")'
        BY <2>9, <2>10, <3>2, <4>3 DEF Selected
      <4> QED BY <2>9, <2>10, <3>2, <4>1, <4>3, <4>4, <4>5 DEF RecoveryProves
    <3> QED BY <3>1, <3>2
  <2>12. /\ recovery' \in [Deposits -> RecoveryRows] /\ RecoveryMoves
         /\ \A q \in Deposits : q # d => SameClosed(q)
         /\ r.status # "CLOSED_UNPAID" => ClosesNone
    BY <1>3, <1>6, <2>8, <2>9, <2>11, OneRowSettled
  <2>13. Outcome
    <3>1. CASE Credited(d)
      BY <2>4, <2>9, <2>12, <3>1 DEF Outcome
    <3>2. CASE ~Credited(d)
      <4>1. Closes(d)
        BY <1>3, <1>6, <2>1, <2>2, <2>9, <2>10, <2>12, <3>2 DEF Closes, CreditAgrees
      <4> QED BY <2>4, <4>1 DEF Outcome
    <3> QED BY <3>1, <3>2
  <2>14. TypeOK'
    BY <1>3, <1>4, <2>4, <2>7, <2>12 DEF TypeOK, providerVars, boundVars
  <2> QED BY <2>5, <2>6, <2>7, <2>12, <2>13, <2>14 DEF Moves
<1> QED BY <1>5, <1>6

-----------------------------------------------------------------------------
(* finalizeDepositCredit, under the authority of a webhook or a recovery.  *)

LEMMA FinalizeMoves ==
  ASSUME IInv, NEW d \in Deposits, session[d] = "PAID", Finalizable(d), Finalize(d)
  PROVE  /\ attempt' \in [Deposits -> AttemptRows]
         /\ credits' \in [Deposits -> Nat]
         /\ available' \in Nat
         /\ \A q \in Deposits : attempt[q].session => attempt'[q].session
         /\ credits'[d] = 1
         /\ Kept \/ Funds(d)
<1>1. TypeOK
  BY DEF IInv, Shape
<1>2. CASE ~Creditable(d)
  <2>1. UNCHANGED moneyVars /\ credits[d] = 1
    BY <1>2 DEF Finalize, Finalizable, Replays
  <2>2. Kept
    BY <2>1, MoneyStill
  <2> QED BY <1>1, <2>1, <2>2 DEF TypeOK, moneyVars
<1>3. CASE Creditable(d)
  <2>1. /\ attempt' = [attempt EXCEPT ![d].status = "SUCCEEDED", ![d].ledger = TRUE]
        /\ credits' = [credits EXCEPT ![d] = credits[d] + 1]
        /\ available' = available + Credit[d]
        /\ credits[d] = 0
    BY <1>3 DEF Finalize, Creditable
  <2>2. credits' = [credits EXCEPT ![d] = 1]
    BY <2>1
  <2>3. Funds(d)
    BY <2>1, <2>2 DEF Funds
  <2>4. attempt' \in [Deposits -> AttemptRows]
        /\ \A q \in Deposits : attempt[q].session => attempt'[q].session
    BY <1>1, <2>1, ZenonT(30) DEF TypeOK, AttemptRows, CreditBacked
  <2>5. credits' \in [Deposits -> Nat] /\ credits'[d] = 1
    BY <1>1, <2>2 DEF TypeOK
  <2>6. available' \in Nat
    <3>1. Credit[d] \in Nat /\ available \in Nat
      BY <1>1, ConstantsAssumption DEF TypeOK
    <3> QED BY <2>1, <3>1
  <2> QED BY <2>3, <2>4, <2>5, <2>6
<1> QED BY <1>2, <1>3

LEMMA RecoveryCreditMoves ==
  ASSUME IInv, NEW w \in WorkerLanes, RecoveryCredit(w)
  PROVE  Moves
<1>1. lane[w].pc = "finalizing" /\ lane[w].pc \in Working \cap Informed
  BY DEF RecoveryCredit, Working, Informed
<1>2. PICK d \in Deposits : d = lane[w].job
  BY <1>1, WorkerAt
<1>3. /\ w \in Lanes /\ TypeOK /\ recovery[d] \in RecoveryRows
      /\ lane[w].attempts \in Nat
      /\ recovery[d].status = "PROCESSING"
      /\ recovery[d].attempts = lane[w].attempts
  BY <1>1, <1>2, WorkerAt DEF RecoveryCredit
<1>4. UNCHANGED <<inbox, evidence, providerVars, batch, boundVars>>
  BY DEF RecoveryCredit
<1>5. Knows(lane[w], session[d], evidence[d])
  BY <1>1, <1>2 DEF IInv, LanesKnow
<1>6. /\ session[d] = "PAID" /\ lane[w].seen.checkout = "PAID"
      /\ [claim |-> lane[w].attempts, seen |-> lane[w].seen] \in evidence[d]
  BY <1>1, <1>5 DEF Knows
<1>7. /\ attempt' \in [Deposits -> AttemptRows]
      /\ credits' \in [Deposits -> Nat]
      /\ available' \in Nat
      /\ \A q \in Deposits : attempt[q].session => attempt'[q].session
      /\ credits'[d] = 1
      /\ Kept \/ Funds(d)
  BY <1>2, <1>6, FinalizeMoves DEF RecoveryCredit
<1>8. Grows /\ Announces
  BY <1>4, <1>7 DEF Grows, Announces, providerVars
<1>9. InboxMoves /\ LinkMoves
  BY <1>4, InboxStill, LinkStill DEF providerVars
<1>10. lane' \in [Lanes -> LaneStates] /\ LanesSound
  BY <1>1, <1>8, AfterCommit DEF RecoveryCredit
<1> DEFINE r == Ended(recovery[d], "PROCESSED", lane[w].attempts)
<1>11. recovery' = [recovery EXCEPT ![d] = r]
  BY <1>2 DEF RecoveryCredit
<1>12. /\ r \in RecoveryRows /\ r.status = "PROCESSED"
       /\ r.evidence = lane[w].attempts /\ r.attempts = lane[w].attempts
  <2>1. "PROCESSED" \in Settled
    BY DEF Settled
  <2>2. /\ r \in RecoveryRows /\ r.status = "PROCESSED"
        /\ r.evidence = lane[w].attempts /\ r.attempts = recovery[d].attempts
    BY ONLY <1>3, <2>1, EndedRecovery
  <2> QED BY <1>3, <2>2
<1> HIDE DEF r
<1>13. recovery'[d] = r
  BY <1>3, <1>11 DEF TypeOK
<1>14. RecoveryProves(d)'
  <2>1. [claim |-> lane[w].attempts, seen |-> lane[w].seen] \in evidence'[d]
    BY <1>4, <1>6
  <2>2. Selected(d, "PAID")'
    BY <1>6, <1>12, <1>13, <2>1 DEF Selected
  <2> QED BY <1>7, <1>12, <1>13, <2>2 DEF RecoveryProves
<1>15. recovery' \in [Deposits -> RecoveryRows] /\ RecoveryMoves /\ ClosesNone
  BY <1>3, <1>11, <1>12, <1>14, OneRowSettled
<1>16. Outcome
  BY <1>7, <1>15 DEF Outcome
<1>17. TypeOK'
  BY <1>3, <1>4, <1>7, <1>10, <1>15 DEF TypeOK, providerVars, boundVars
<1> QED BY <1>8, <1>9, <1>10, <1>15, <1>16, <1>17 DEF Moves

-----------------------------------------------------------------------------
(* Webhook handlers.                                                       *)

\* What a handler past the idle state has at hand.
LEMMA HandlerAt ==
  ASSUME IInv, NEW l \in WebhookLanes, lane[l].pc # "idle"
  PROVE  /\ l \in Lanes /\ TypeOK
         /\ lane[l].job \in Events /\ lane[l].job.deposit \in Deposits
         /\ inbox[lane[l].job] \in InboxRows
         /\ lane[l].attempts \in Nat
<1>1. l \in Lanes /\ TypeOK /\ RoleFits(l, lane[l])
  BY RoleOf DEF IInv, Shape, RolesFit
<1>2. lane[l].job \in Events
  BY <1>1 DEF RoleFits
<1>3. lane[l] \in LaneStates
  BY <1>1 DEF TypeOK
<1> QED BY <1>1, <1>2, <1>3 DEF TypeOK, LaneStates, Events

\* Only the inbox and a handler's lane change.
InboxOnly ==
  UNCHANGED <<moneyVars, recovery, evidence, providerVars, batch, runtime, requests, faults>>

LEMMA InboxStep ==
  ASSUME IInv, InboxOnly, NEW l \in WebhookLanes, deliveries' \in Nat,
         inbox' \in [Events -> InboxRows], InboxMoves,
         \/ UNCHANGED lane
         \/ \E n \in LaneStates : RoleFits(l, n) /\ lane' = [lane EXCEPT ![l] = n]
  PROVE  Moves
<1>1. /\ Shape /\ LanesKnow /\ ReusesAttached /\ TypeOK
      /\ l \in Lanes /\ l \notin CheckoutLanes /\ l \notin WorkerLanes
  BY RoleOf DEF IInv, Shape
<1>2. Kept /\ Grows /\ Announces /\ LinkMoves /\ RecoveryMoves /\ ClosesNone
  BY MoneyStill, ProviderStill, LinkStill, RecoveryStill DEF InboxOnly, moneyVars, providerVars
<1>3. lane' \in [Lanes -> LaneStates] /\ LanesSound
  <2>1. CASE UNCHANGED lane
    BY <1>1, <1>2, <2>1, LanesStay DEF TypeOK
  <2>2. ASSUME NEW n \in LaneStates, RoleFits(l, n), lane' = [lane EXCEPT ![l] = n]
        PROVE  lane' \in [Lanes -> LaneStates] /\ LanesSound
    BY <1>1, <1>2, <2>2, LaneMoves
  <2> QED BY <2>1, <2>2
<1>4. TypeOK'
  BY <1>1, <1>3 DEF TypeOK, InboxOnly, moneyVars, providerVars
<1> QED BY <1>2, <1>3, <1>4 DEF Moves, Outcome

\* One row changes to r: it existed or was emitted, and it is not processed by
\* this step unless it announces a failure.
LEMMA OneEvent ==
  ASSUME TypeOK, NEW e \in Events, NEW r \in InboxRows,
         inbox' = [inbox EXCEPT ![e] = r],
         inbox[e].status # "ABSENT" \/ e \in sent,
         r.status = "PROCESSED" /\ e.kind \in SuccessKinds =>
           inbox[e].status = "PROCESSED" \/ credits'[e.deposit] = 1
  PROVE  inbox' \in [Events -> InboxRows] /\ InboxMoves
<1>1. \A f \in Events : inbox'[f] = IF f = e THEN r ELSE inbox[f]
  BY DEF TypeOK
<1>2. inbox' \in [Events -> InboxRows]
  BY DEF TypeOK
<1> QED BY <1>1, <1>2 DEF InboxMoves

LEMMA InboxRowOps ==
  ASSUME NEW row \in InboxRows
  PROVE  /\ Recovered(row) \in InboxRows
         /\ Recovered(row).status \in {row.status, "FAILED"}
         /\ Claimed(row) \in InboxRows /\ Claimed(row).status = "PROCESSING"
         /\ Processed(row) \in InboxRows
         /\ \A verdict : /\ Returned(row, verdict) \in InboxRows
                         /\ Returned(row, verdict).status \in {"FAILED", "QUARANTINED"}
<1>1. row.attempts + 1 \in Nat
  BY DEF InboxRows
<1>2. Claimed(row) \in InboxRows /\ Claimed(row).status = "PROCESSING"
  BY <1>1 DEF InboxRows, Claimed
<1>3. Recovered(row) \in InboxRows /\ Recovered(row).status \in {row.status, "FAILED"}
  BY DEF InboxRows, Recovered, Stale
<1>4. Processed(row) \in InboxRows
  BY DEF InboxRows, Processed
<1>5. \A verdict : /\ Returned(row, verdict) \in InboxRows
                   /\ Returned(row, verdict).status \in {"FAILED", "QUARANTINED"}
  BY DEF InboxRows, Returned
<1> QED BY <1>2, <1>3, <1>4, <1>5

\* A handler's lane at a point of its role.
LEMMA HandlerPoint ==
  ASSUME NEW l \in WebhookLanes, NEW pc \in WebhookPoints, NEW e \in Events, NEW k \in Nat
  PROVE  At(pc, e, k) \in LaneStates /\ RoleFits(l, At(pc, e, k))
<1>1. /\ pc \in CheckoutPoints \cup WebhookPoints \cup WorkerPoints \cup {"idle"}
      /\ e \in Deposits \cup Events \cup {None}
  OBVIOUS
<1>2. At(pc, e, k) \in LaneStates /\ At(pc, e, k).pc = pc /\ At(pc, e, k).job = e
  BY <1>1, AtType
<1> QED BY <1>2, RoleOf DEF RoleFits

LEMMA ReceiveMoves ==
  ASSUME IInv, NEW l \in WebhookLanes, NEW e \in Events, NEW v \in Envelopes, Receive(l, e, v)
  PROVE  Moves
<1>1. TypeOK /\ l \in Lanes /\ inbox[e] \in InboxRows /\ e \in sent
  BY RoleOf DEF IInv, Shape, Receive, TypeOK
<1>2. InboxOnly /\ deliveries' \in Nat
  BY <1>1 DEF Receive, InboxOnly, TypeOK
<1>3. inbox[e].attempts \in Nat /\ 0 \in Nat
  BY <1>1 DEF InboxRows
<1>4. Idle \in LaneStates /\ RoleFits(l, Idle)
  BY <1>1, LaneRests
<1>5. ASSUME NEW k \in Nat, Proceed(l, e, k)
      PROVE  \E n \in LaneStates : RoleFits(l, n) /\ lane' = [lane EXCEPT ![l] = n]
  <2>1. At("received", e, k) \in LaneStates /\ RoleFits(l, At("received", e, k))
    BY HandlerPoint DEF WebhookPoints
  <2> QED BY <1>4, <1>5, <2>1 DEF Proceed
<1>6. CASE ReceiveNew(l, e, v)
  <2> DEFINE r == [status |-> "PENDING", attempts |-> 0, due |-> TRUE, env |-> v]
  <2>1. inbox' = [inbox EXCEPT ![e] = r] /\ Proceed(l, e, 0)
    BY <1>6 DEF ReceiveNew
  <2>2. r \in InboxRows /\ r.status = "PENDING"
    BY DEF InboxRows
  <2> HIDE DEF r
  <2>3. inbox' \in [Events -> InboxRows] /\ InboxMoves
    BY <1>1, <2>1, <2>2, OneEvent
  <2>4. \E n \in LaneStates : RoleFits(l, n) /\ lane' = [lane EXCEPT ![l] = n]
    BY <1>3, <1>5, <2>1
  <2> QED BY <1>2, <2>3, <2>4, InboxStep
<1>7. CASE ReceiveDuplicate(l, e, v)
  <2>1. UNCHANGED inbox
    BY <1>7 DEF ReceiveDuplicate
  <2>2. inbox' \in [Events -> InboxRows] /\ InboxMoves
    BY <1>1, <2>1, InboxStill DEF TypeOK
  <2>3. \/ UNCHANGED lane \/ Proceed(l, e, inbox[e].attempts)
        \/ lane' = [lane EXCEPT ![l] = At("replaying", e, inbox[e].attempts)]
    BY <1>7 DEF ReceiveDuplicate
  <2>4. /\ At("replaying", e, inbox[e].attempts) \in LaneStates
        /\ RoleFits(l, At("replaying", e, inbox[e].attempts))
    BY <1>3, HandlerPoint DEF WebhookPoints
  <2>5. UNCHANGED lane \/ \E n \in LaneStates : RoleFits(l, n) /\ lane' = [lane EXCEPT ![l] = n]
    BY <1>3, <1>5, <2>3, <2>4
  <2> QED BY <1>2, <2>2, <2>5, InboxStep
<1>8. CASE ReceiveConflict(l, e, v)
  <2> DEFINE r == [inbox[e] EXCEPT !.status = "QUARANTINED", !.due = FALSE]
  <2>1. inbox' = [inbox EXCEPT ![e] = r] /\ UNCHANGED lane
    BY <1>1, <1>8 DEF ReceiveConflict, TypeOK, InboxRows
  <2>2. r \in InboxRows /\ r.status = "QUARANTINED"
    BY <1>1 DEF InboxRows
  <2> HIDE DEF r
  <2>3. inbox' \in [Events -> InboxRows] /\ InboxMoves
    BY <1>1, <2>1, <2>2, OneEvent
  <2> QED BY <1>2, <2>1, <2>3, InboxStep
<1> QED BY <1>6, <1>7, <1>8 DEF Receive

\* An event some lane works on, and that has a row, was emitted.
LEMMA RowSent ==
  ASSUME IInv, NEW e \in Events
  PROVE  inbox[e].status # "ABSENT" => e \in sent
  BY DEF IInv, InboxSent

LEMMA WebhookRecoverMoves ==
  ASSUME IInv, NEW l \in WebhookLanes, WebhookRecover(l)
  PROVE  Moves
<1>1. lane[l].pc = "received"
  BY DEF WebhookRecover
<1>2. PICK e \in Events : e = lane[l].job
  BY <1>1, HandlerAt
<1>3. TypeOK /\ l \in Lanes /\ inbox[e] \in InboxRows /\ deliveries' \in Nat
  BY <1>1, <1>2, HandlerAt DEF WebhookRecover, boundVars, TypeOK
<1>4. InboxOnly
  BY DEF WebhookRecover, InboxOnly, boundVars
<1> DEFINE r == Recovered(inbox[e])
           n == [lane[l] EXCEPT !.pc = "claiming"]
<1>5. inbox' = [inbox EXCEPT ![e] = r]
  BY <1>2 DEF WebhookRecover
<1>6. r \in InboxRows /\ r.status \in {inbox[e].status, "FAILED"}
  BY <1>3, InboxRowOps
<1>7. r.status # inbox[e].status => inbox[e].status = "PROCESSING"
  BY <1>3 DEF Recovered, Stale
<1>8. n \in LaneStates /\ n.pc = "claiming" /\ n.job = e /\ lane' = [lane EXCEPT ![l] = n]
  BY <1>2, <1>3, GotoType DEF WebhookRecover, Goto, WebhookPoints
<1> HIDE DEF r, n
<1>9. RoleFits(l, n)
  BY <1>8, RoleOf DEF RoleFits, WebhookPoints
<1>10. inbox' \in [Events -> InboxRows] /\ InboxMoves
  <2>1. CASE inbox[e].status # "ABSENT"
    BY <1>3, <1>5, <1>6, <2>1, OneEvent
  <2>2. CASE inbox[e].status = "ABSENT"
    <3>1. \A f \in Events : inbox'[f] = IF f = e THEN r ELSE inbox[f]
      BY <1>3, <1>5 DEF TypeOK
    <3>2. inbox' \in [Events -> InboxRows]
      BY <1>3, <1>5, <1>6 DEF TypeOK
    <3>3. r.status = "ABSENT"
      BY <1>7, <2>2
    <3> QED BY <2>2, <3>1, <3>2, <3>3 DEF InboxMoves
  <2> QED BY <2>1, <2>2
<1> QED BY <1>3, <1>4, <1>8, <1>9, <1>10, InboxStep

LEMMA WebhookClaimMoves ==
  ASSUME IInv, NEW l \in WebhookLanes, WebhookClaim(l)
  PROVE  Moves
<1>1. lane[l].pc = "claiming"
  BY DEF WebhookClaim
<1>2. PICK e \in Events : e = lane[l].job
  BY <1>1, HandlerAt
<1>3. TypeOK /\ l \in Lanes /\ inbox[e] \in InboxRows /\ lane[l].attempts + 1 \in Nat /\ deliveries' \in Nat
  BY <1>1, <1>2, HandlerAt DEF WebhookClaim, boundVars, TypeOK
<1>4. InboxOnly
  BY DEF WebhookClaim, InboxOnly, boundVars
<1>5. CASE Claimable(inbox[e]) /\ inbox[e].attempts = lane[l].attempts
  <2> DEFINE r == Claimed(inbox[e])
             n == At("leased", e, lane[l].attempts + 1)
  <2>1. inbox' = [inbox EXCEPT ![e] = r] /\ lane' = [lane EXCEPT ![l] = n]
    BY <1>2, <1>5 DEF WebhookClaim
  <2>2. r \in InboxRows /\ r.status = "PROCESSING"
    BY <1>3, InboxRowOps
  <2>3. n \in LaneStates /\ RoleFits(l, n)
    BY <1>3, HandlerPoint DEF WebhookPoints
  <2>4. inbox[e].status # "ABSENT"
    BY <1>5 DEF Claimable
  <2> HIDE DEF r, n
  <2>5. inbox' \in [Events -> InboxRows] /\ InboxMoves
    BY <1>3, <2>1, <2>2, <2>4, OneEvent
  <2> QED BY <1>3, <1>4, <2>1, <2>3, <2>5, InboxStep
<1>6. CASE ~(Claimable(inbox[e]) /\ inbox[e].attempts = lane[l].attempts)
  <2>1. UNCHANGED inbox /\ lane' = [lane EXCEPT ![l] = Idle]
    BY <1>2, <1>6 DEF WebhookClaim, Rest
  <2>2. inbox' \in [Events -> InboxRows] /\ InboxMoves
    BY <1>3, <2>1, InboxStill DEF TypeOK
  <2> QED BY <1>3, <1>4, <2>1, <2>2, LaneRests, InboxStep
<1> QED BY <1>5, <1>6

LEMMA WebhookHandleErrorMoves ==
  ASSUME IInv, NEW l \in WebhookLanes, WebhookHandleError(l)
  PROVE  Moves
<1>1. lane[l].pc = "caught"
  BY DEF WebhookHandleError
<1>2. PICK e \in Events : e = lane[l].job
  BY <1>1, HandlerAt
<1>3. TypeOK /\ l \in Lanes /\ inbox[e] \in InboxRows /\ deliveries' \in Nat
  BY <1>1, <1>2, HandlerAt DEF WebhookHandleError, boundVars, TypeOK
<1>4. InboxOnly /\ lane' = [lane EXCEPT ![l] = Idle]
  BY DEF WebhookHandleError, InboxOnly, boundVars, Rest
<1> DEFINE r == Returned(inbox[e], lane[l].verdict)
<1>5. UNCHANGED inbox \/ (OwnsEvent(l) /\ inbox' = [inbox EXCEPT ![e] = r])
  BY <1>2 DEF WebhookHandleError
<1>6. r \in InboxRows /\ r.status \in {"FAILED", "QUARANTINED"}
  BY <1>3, InboxRowOps
<1>7. OwnsEvent(l) => inbox[e].status # "ABSENT"
  BY <1>2 DEF OwnsEvent, OwnedBy
<1> HIDE DEF r
<1>8. inbox' \in [Events -> InboxRows] /\ InboxMoves
  <2>1. CASE UNCHANGED inbox
    BY <1>3, <2>1, InboxStill DEF TypeOK
  <2>2. CASE OwnsEvent(l) /\ inbox' = [inbox EXCEPT ![e] = r]
    BY <1>3, <1>6, <1>7, <2>2, OneEvent
  <2> QED BY <1>5, <2>1, <2>2
<1> QED BY <1>3, <1>4, <1>8, LaneRests, InboxStep

LEMMA ElapseEventMoves ==
  ASSUME IInv, NEW e \in Events, ElapseEvent(e)
  PROVE  Moves
<1> DEFINE r == [inbox[e] EXCEPT !.due = TRUE]
<1>1. Shape /\ LanesKnow /\ ReusesAttached /\ TypeOK /\ inbox[e] \in InboxRows
  BY DEF IInv, Shape, TypeOK
<1>2. /\ UNCHANGED <<moneyVars, recovery, evidence, providerVars, lane, batch, boundVars>>
      /\ inbox[e].status \in {"PENDING", "FAILED", "PROCESSING"}
      /\ inbox' = [inbox EXCEPT ![e] = r]
  BY DEF ElapseEvent
<1>3. r \in InboxRows /\ r.status = inbox[e].status
  BY <1>1 DEF InboxRows
<1> HIDE DEF r
<1>4. inbox' \in [Events -> InboxRows] /\ InboxMoves
  BY <1>1, <1>2, <1>3, OneEvent
<1>5. Kept /\ Grows /\ Announces /\ LinkMoves /\ RecoveryMoves /\ ClosesNone
  BY <1>2, MoneyStill, ProviderStill, LinkStill, RecoveryStill DEF moneyVars, providerVars
<1>6. LanesSound
  BY <1>1, <1>2, <1>5, LanesStay
<1>7. TypeOK'
  BY <1>1, <1>2, <1>4 DEF TypeOK, moneyVars, providerVars, boundVars
<1> QED BY <1>4, <1>5, <1>6, <1>7 DEF Moves, Outcome

\* The lane after a handler's commit.
LEMMA HandlerCommits ==
  ASSUME IInv, Grows, NEW l \in WebhookLanes, lane[l].pc # "idle", MayLoseCommit(l, Idle)
  PROVE  lane' \in [Lanes -> LaneStates] /\ LanesSound
<1>1. /\ l \in Lanes /\ l \notin CheckoutLanes /\ l \notin WorkerLanes
      /\ Shape /\ TypeOK /\ LanesKnow /\ ReusesAttached
  BY RoleOf DEF IInv, Shape
<1>2. PICK n \in {Idle, Caught(l, "RETRY")} : lane' = [lane EXCEPT ![l] = n]
  BY DEF MayLoseCommit
<1>3. n \in LaneStates /\ RoleFits(l, n)
  <2>1. CASE n = Idle
    BY <1>1, <2>1, LaneRests
  <2>2. CASE n = Caught(l, "RETRY")
    BY <1>1, <2>2, CaughtType, CaughtFits
  <2> QED BY <1>2, <2>1, <2>2
<1> QED BY <1>1, <1>2, <1>3, LaneMoves

\* An event that shows a payment proves that the provider has it.
LEMMA ShownPaid ==
  ASSUME IInv, NEW e \in Events, ShowsPaid(e), inbox[e].status # "ABSENT"
  PROVE  session[e.deposit] = "PAID"
<1>1. e \in sent
  BY RowSent
<1> QED BY <1>1 DEF IInv, AnnouncedPaid, ShowsPaid, PaidKinds

LEMMA WebhookCreditMoves ==
  ASSUME IInv, NEW l \in WebhookLanes, WebhookCredit(l)
  PROVE  Moves
<1>1. lane[l].pc # "idle"
  BY DEF WebhookCredit
<1>2. PICK e \in Events : e = lane[l].job
  BY <1>1, HandlerAt
<1>3. PICK d \in Deposits : d = e.deposit
  BY DEF Events
<1>4. TypeOK /\ inbox[e] \in InboxRows /\ inbox[e].status # "ABSENT"
  BY <1>1, <1>2, HandlerAt DEF WebhookCredit, OwnsEvent, OwnedBy
<1>5. UNCHANGED <<recovery, evidence, providerVars, batch, boundVars>>
  BY DEF WebhookCredit
<1>6. session[d] = "PAID"
  BY <1>2, <1>3, <1>4, ShownPaid DEF WebhookCredit
<1>7. /\ attempt' \in [Deposits -> AttemptRows]
      /\ credits' \in [Deposits -> Nat]
      /\ available' \in Nat
      /\ \A q \in Deposits : attempt[q].session => attempt'[q].session
      /\ credits'[d] = 1
      /\ Kept \/ Funds(d)
  BY <1>2, <1>3, <1>6, FinalizeMoves DEF WebhookCredit
<1>8. Grows /\ Announces
  BY <1>5, <1>7 DEF Grows, Announces, providerVars
<1>9. LinkMoves /\ RecoveryMoves /\ ClosesNone
  BY <1>5, LinkStill, RecoveryStill DEF providerVars
<1>10. lane' \in [Lanes -> LaneStates] /\ LanesSound
  BY <1>1, <1>8, HandlerCommits DEF WebhookCredit
<1>11. inbox' = [inbox EXCEPT ![e] = Processed(inbox[e])]
  BY <1>2 DEF WebhookCredit
<1>12. Processed(inbox[e]) \in InboxRows
  BY <1>4, InboxRowOps
<1>13. inbox' \in [Events -> InboxRows] /\ InboxMoves
  BY <1>3, <1>4, <1>7, <1>11, <1>12, OneEvent
<1>14. Outcome
  BY <1>7, <1>9 DEF Outcome
<1>15. TypeOK'
  BY <1>4, <1>5, <1>7, <1>10, <1>13 DEF TypeOK, providerVars, boundVars
<1> QED BY <1>8, <1>9, <1>10, <1>13, <1>14, <1>15 DEF Moves

LEMMA ReplayProcessedMoves ==
  ASSUME IInv, NEW l \in WebhookLanes, ReplayProcessed(l)
  PROVE  Moves
<1>1. lane[l].pc # "idle"
  BY DEF ReplayProcessed
<1>2. PICK e \in Events : e = lane[l].job
  BY <1>1, HandlerAt
<1>3. PICK d \in Deposits : d = e.deposit
  BY DEF Events
<1>4. /\ TypeOK /\ inbox[e] \in InboxRows /\ l \in Lanes /\ l \notin CheckoutLanes
      /\ l \notin WorkerLanes /\ Shape /\ LanesKnow /\ ReusesAttached
  BY <1>1, <1>2, HandlerAt, RoleOf DEF IInv
<1>5. UNCHANGED <<recovery, evidence, providerVars, batch, boundVars>>
      /\ lane' = [lane EXCEPT ![l] = Idle]
  BY DEF ReplayProcessed, Rest
<1>6. \/ UNCHANGED moneyVars
      \/ /\ inbox[e].status = "PROCESSED" /\ ShowsPaid(e)
         /\ Finalizable(d) /\ Finalize(d)
  BY <1>2, <1>3 DEF ReplayProcessed
<1>7. /\ attempt' \in [Deposits -> AttemptRows]
      /\ credits' \in [Deposits -> Nat]
      /\ available' \in Nat
      /\ \A q \in Deposits : attempt[q].session => attempt'[q].session
      /\ Kept \/ Funds(d)
  <2>1. CASE UNCHANGED moneyVars
    BY <1>4, <2>1, MoneyStill DEF moneyVars, TypeOK
  <2>2. CASE /\ inbox[e].status = "PROCESSED" /\ ShowsPaid(e)
             /\ Finalizable(d) /\ Finalize(d)
    <3>1. session[d] = "PAID"
      BY <1>3, <2>2, ShownPaid
    <3> QED BY <2>2, <3>1, FinalizeMoves
  <2> QED BY <1>6, <2>1, <2>2
<1>8. Grows /\ Announces
  BY <1>5, <1>7 DEF Grows, Announces, providerVars
<1>9. LinkMoves /\ RecoveryMoves /\ ClosesNone
  BY <1>5, LinkStill, RecoveryStill DEF providerVars
<1>10. lane' \in [Lanes -> LaneStates] /\ LanesSound
  BY <1>4, <1>5, <1>8, LaneRests, LaneMoves
<1> DEFINE r == [inbox[e] EXCEPT !.status = "QUARANTINED"]
<1>11. \/ UNCHANGED inbox
       \/ inbox[e].status = "PROCESSED" /\ inbox' = [inbox EXCEPT ![e] = r]
  BY <1>2 DEF ReplayProcessed
<1>12. r \in InboxRows /\ r.status = "QUARANTINED"
  BY <1>4 DEF InboxRows
<1> HIDE DEF r
<1>13. inbox' \in [Events -> InboxRows] /\ InboxMoves
  <2>1. CASE UNCHANGED inbox
    BY <1>4, <2>1, InboxStill DEF TypeOK
  <2>2. CASE inbox[e].status = "PROCESSED" /\ inbox' = [inbox EXCEPT ![e] = r]
    BY <1>4, <1>12, <2>2, OneEvent
  <2> QED BY <1>11, <2>1, <2>2
<1>14. Outcome
  BY <1>7, <1>9 DEF Outcome
<1>15. TypeOK'
  BY <1>4, <1>5, <1>7, <1>10, <1>13 DEF TypeOK, providerVars, boundVars
<1> QED BY <1>8, <1>9, <1>10, <1>13, <1>14, <1>15 DEF Moves

-----------------------------------------------------------------------------
(* Steps on the attempt of a deposit that credit nothing.                  *)

LEMMA OneAttempt ==
  ASSUME TypeOK, NEW d \in Deposits, NEW a \in AttemptRows, Follows(attempt[d], a),
         attempt[d].session => a.session,
         attempt' = [attempt EXCEPT ![d] = a],
         UNCHANGED <<credits, available>>, UNCHANGED <<session, sent>>, UNCHANGED evidence
  PROVE  /\ attempt' \in [Deposits -> AttemptRows] /\ Kept /\ Grows /\ Announces
         /\ attempt'[d] = a
<1>1. \A q \in Deposits : attempt'[q] = IF q = d THEN a ELSE attempt[q]
  BY DEF TypeOK
<1>2. attempt' \in [Deposits -> AttemptRows]
  BY DEF TypeOK
<1>3. \A q \in Deposits : Follows(attempt[q], attempt'[q])
  BY <1>1 DEF Follows
<1> QED BY <1>1, <1>2, <1>3 DEF Kept, Grows, Announces

LEMMA WebhookMarkMoves ==
  ASSUME IInv, NEW l \in WebhookLanes, WebhookMark(l)
  PROVE  Moves
<1>1. lane[l].pc # "idle"
  BY DEF WebhookMark
<1>2. PICK e \in Events : e = lane[l].job
  BY <1>1, HandlerAt
<1>3. PICK d \in Deposits : d = e.deposit
  BY DEF Events
<1>4. TypeOK /\ inbox[e] \in InboxRows /\ inbox[e].status # "ABSENT" /\ attempt[d] \in AttemptRows
  BY <1>1, <1>2, HandlerAt DEF WebhookMark, OwnsEvent, OwnedBy, TypeOK
<1>5. UNCHANGED <<credits, available, recovery, evidence, providerVars, batch, boundVars>>
  BY DEF WebhookMark
<1> DEFINE a == Marked(attempt[d], e.kind)
<1>6. attempt' = [attempt EXCEPT ![d] = a]
  BY <1>2, <1>3 DEF WebhookMark
<1>7. a \in AttemptRows /\ Follows(attempt[d], a) /\ (attempt[d].session => a.session)
  BY <1>4 DEF Marked, FailureStatus, AttemptRows, Follows, CreditBacked, PreCredit
<1> HIDE DEF a
<1>8. attempt' \in [Deposits -> AttemptRows] /\ Kept /\ Grows /\ Announces
  BY <1>4, <1>5, <1>6, <1>7, OneAttempt DEF providerVars
<1>9. LinkMoves /\ RecoveryMoves /\ ClosesNone
  BY <1>5, LinkStill, RecoveryStill DEF providerVars
<1>10. lane' \in [Lanes -> LaneStates] /\ LanesSound
  BY <1>1, <1>8, HandlerCommits DEF WebhookMark
<1>11. inbox' = [inbox EXCEPT ![e] = Processed(inbox[e])] /\ e.kind \notin SuccessKinds
  BY <1>2 DEF WebhookMark, FailureKinds, SuccessKinds
<1>12. Processed(inbox[e]) \in InboxRows
  BY <1>4, InboxRowOps
<1>13. inbox' \in [Events -> InboxRows] /\ InboxMoves
  BY <1>4, <1>11, <1>12, OneEvent
<1>14. TypeOK'
  BY <1>4, <1>5, <1>8, <1>10, <1>13 DEF TypeOK, providerVars, boundVars
<1> QED BY <1>8, <1>9, <1>10, <1>13, <1>14 DEF Moves, Outcome

LEMMA DisputeProjectsMoves ==
  ASSUME IInv, NEW d \in Deposits, NEW status \in CreditBacked, DisputeProjects(d, status)
  PROVE  Moves
<1>1. Shape /\ TypeOK /\ LanesKnow /\ ReusesAttached /\ attempt[d] \in AttemptRows
  BY DEF IInv, Shape, TypeOK
<1>2. UNCHANGED <<credits, available, inbox, recovery, evidence, providerVars, lane, batch, boundVars>>
      /\ attempt[d].status \in CreditBacked
  BY DEF DisputeProjects
<1> DEFINE a == [attempt[d] EXCEPT !.status = status]
<1>3. attempt' = [attempt EXCEPT ![d] = a]
  BY DEF DisputeProjects
<1>4. a \in AttemptRows /\ Follows(attempt[d], a) /\ (attempt[d].session => a.session)
  BY <1>1, <1>2 DEF AttemptRows, Follows, CreditBacked
<1> HIDE DEF a
<1>5. attempt' \in [Deposits -> AttemptRows] /\ Kept /\ Grows /\ Announces
  BY <1>1, <1>2, <1>3, <1>4, OneAttempt DEF providerVars
<1>6. LinkMoves /\ RecoveryMoves /\ ClosesNone /\ InboxMoves
  BY <1>2, LinkStill, RecoveryStill, InboxStill DEF providerVars
<1>7. LanesSound
  BY <1>1, <1>2, <1>5, LanesStay
<1>8. TypeOK'
  BY <1>1, <1>2, <1>5 DEF TypeOK, providerVars, boundVars
<1> QED BY <1>5, <1>6, <1>7, <1>8 DEF Moves, Outcome

-----------------------------------------------------------------------------
(* Checkout requests.                                                      *)

\* What a request past the idle state has at hand.
LEMMA RequestAt ==
  ASSUME IInv, NEW l \in CheckoutLanes, lane[l].pc # "idle"
  PROVE  /\ l \in Lanes /\ l \notin WorkerLanes
         /\ Shape /\ TypeOK /\ LanesKnow /\ ReusesAttached
         /\ lane[l].job \in Deposits /\ attempt[lane[l].job] \in AttemptRows
<1>1. /\ l \in Lanes /\ l \notin WorkerLanes /\ Shape /\ TypeOK /\ LanesKnow /\ ReusesAttached
      /\ RoleFits(l, lane[l])
  BY RoleOf DEF IInv, Shape, RolesFit
<1>2. lane[l].job \in Deposits
  BY <1>1 DEF RoleFits
<1> QED BY <1>1, <1>2 DEF TypeOK

LEMMA CheckoutStartMoves ==
  ASSUME IInv, NEW l \in CheckoutLanes, NEW d \in Deposits, CheckoutStart(l, d)
  PROVE  Moves
<1>1. /\ l \in Lanes /\ l \notin WorkerLanes /\ l \notin WebhookLanes
      /\ Shape /\ TypeOK /\ LanesKnow /\ ReusesAttached /\ attempt[d] \in AttemptRows
  BY RoleOf DEF IInv, Shape, TypeOK
<1>2. UNCHANGED <<credits, available, inbox, recovery, evidence, providerVars, batch, runtime,
                  deliveries, faults>>
  BY DEF CheckoutStart
<1>3. requests' \in [Deposits -> Nat]
  <2>1. requests[d] + 1 \in Nat
    BY <1>1 DEF TypeOK
  <2> QED BY <1>1, <2>1 DEF TypeOK, CheckoutStart
<1> DEFINE a == Found(attempt[d])
<1>4. attempt' = [attempt EXCEPT ![d] = a]
  BY DEF CheckoutStart
<1>5. a \in AttemptRows /\ Follows(attempt[d], a) /\ (attempt[d].session => a.session)
  BY <1>1 DEF Found, AttemptRows, Follows, CreditBacked, PreCredit
<1>6. PICK n \in {At("opening", d, 0), At("reusing", d, 0), Idle} :
        /\ lane' = [lane EXCEPT ![l] = n]
        /\ n = At("reusing", d, 0) => Attached(a) \/ n \in {At("opening", d, 0), Idle}
  BY DEF CheckoutStart
<1> HIDE DEF a
<1>7. attempt' \in [Deposits -> AttemptRows] /\ Kept /\ Grows /\ Announces /\ attempt'[d] = a
  BY <1>1, <1>2, <1>4, <1>5, OneAttempt DEF providerVars
<1>8. LinkMoves /\ RecoveryMoves /\ ClosesNone /\ InboxMoves
  BY <1>2, LinkStill, RecoveryStill, InboxStill DEF providerVars
<1>9. /\ At("opening", d, 0) \in LaneStates /\ At("opening", d, 0).pc = "opening"
      /\ At("opening", d, 0).job = d
      /\ At("reusing", d, 0) \in LaneStates /\ At("reusing", d, 0).pc = "reusing"
      /\ At("reusing", d, 0).job = d
  BY AtType DEF CheckoutPoints
<1>10. Idle \in LaneStates /\ RoleFits(l, Idle) /\ Idle.pc = "idle"
  BY <1>1, LaneRests
<1>11. n \in LaneStates /\ RoleFits(l, n) /\ (n.pc = "reusing" => attempt'[n.job].session)
  <2>1. CASE n = Idle
    BY <1>10, <2>1
  <2>2. CASE n = At("opening", d, 0)
    BY <1>1, <1>9, <2>2 DEF RoleFits, CheckoutPoints
  <2>3. CASE n = At("reusing", d, 0)
    <3>1. Attached(a)
      BY <1>6, <1>9, <1>10, <2>3
    <3> QED BY <1>1, <1>7, <1>9, <2>3, <3>1 DEF RoleFits, CheckoutPoints, Attached
  <2> QED BY <1>6, <2>1, <2>2, <2>3
<1>12. lane' \in [Lanes -> LaneStates] /\ LanesSound
  BY <1>1, <1>6, <1>7, <1>11, LaneMoves
<1>13. TypeOK'
  BY <1>1, <1>2, <1>3, <1>7, <1>12 DEF TypeOK, providerVars
<1> QED BY <1>7, <1>8, <1>12, <1>13 DEF Moves, Outcome

\* Opening a session twice gives the first one again.
LEMMA OpenedSession ==
  ASSUME TypeOK, NEW d \in Deposits
  PROVE  /\ Opened(d) \in [Deposits -> SessionStatuses]
         /\ \A q \in Deposits : session[q] # "NONE" => Opened(d)[q] = session[q]
  BY DEF TypeOK, Opened, SessionStatuses

LEMMA OpenMoves ==
  ASSUME IInv, NEW l \in CheckoutLanes, OpenSession(l) \/ OpenSessionFails(l)
  PROVE  Moves
<1>1. lane[l].pc # "idle"
  BY DEF OpenSession, OpenSessionFails
<1>2. PICK d \in Deposits : d = lane[l].job
  BY <1>1, RequestAt
<1>3. l \in Lanes /\ l \notin WorkerLanes /\ Shape /\ TypeOK /\ LanesKnow /\ ReusesAttached
  BY <1>1, RequestAt
<1>4. /\ UNCHANGED <<moneyVars, inbox, recovery, evidence, flagged, linked, sent, batch,
                     runtime, requests, deliveries>>
      /\ session' \in {session, Opened(d)}
      /\ faults' \in Nat
  BY <1>2, <1>3 DEF OpenSession, OpenSessionFails, boundVars, Fault, TypeOK
<1>5. /\ session' \in [Deposits -> SessionStatuses]
      /\ \A q \in Deposits : session[q] # "NONE" => session'[q] = session[q]
  BY <1>3, <1>4, OpenedSession DEF TypeOK
<1>6. Grows /\ Announces
  BY <1>4, <1>5 DEF Grows, Announces, moneyVars
<1>7. Kept /\ InboxMoves /\ LinkMoves /\ RecoveryMoves /\ ClosesNone
  BY <1>4, MoneyStill, InboxStill, LinkStill, RecoveryStill
<1>8. PICK pc \in {"attaching", "failing"} : lane' = [lane EXCEPT ![l].pc = pc]
  BY DEF OpenSession, OpenSessionFails, Goto
<1> DEFINE n == [lane[l] EXCEPT !.pc = pc]
<1>9. n \in LaneStates /\ n.pc = pc /\ n.job = d /\ lane' = [lane EXCEPT ![l] = n]
  BY <1>2, <1>3, <1>8, GotoType DEF CheckoutPoints
<1> HIDE DEF n
<1>10. RoleFits(l, n)
  BY <1>9, RoleOf DEF RoleFits, CheckoutPoints
<1>11. lane' \in [Lanes -> LaneStates] /\ LanesSound
  BY <1>3, <1>6, <1>9, <1>10, LaneMoves
<1>12. TypeOK'
  BY <1>3, <1>4, <1>5, <1>11 DEF TypeOK, moneyVars
<1> QED BY <1>6, <1>7, <1>11, <1>12 DEF Moves, Outcome

\* The end of a request: it rests, may answer and may have changed its attempt.
LEMMA RequestEnds ==
  ASSUME IInv, NEW l \in CheckoutLanes, NEW d \in Deposits,
         NEW a \in AttemptRows, Follows(attempt[d], a), attempt[d].session => a.session,
         attempt' = [attempt EXCEPT ![d] = a],
         linked' \in {linked, linked \cup {d}}, linked' = linked \/ a.session,
         Rest(l),
         UNCHANGED <<credits, available, inbox, recovery, evidence, session, flagged, sent,
                     batch, boundVars>>
  PROVE  Moves
<1>1. l \in Lanes /\ l \notin WorkerLanes /\ Shape /\ TypeOK /\ LanesKnow /\ ReusesAttached
  BY RoleOf DEF IInv, Shape
<1>2. attempt' \in [Deposits -> AttemptRows] /\ Kept /\ Grows /\ Announces /\ attempt'[d] = a
  BY <1>1, OneAttempt
<1>3. RecoveryMoves /\ ClosesNone /\ InboxMoves
  BY RecoveryStill, InboxStill
<1>4. LinkMoves
  BY <1>2 DEF LinkMoves
<1>5. lane' \in [Lanes -> LaneStates] /\ LanesSound
  BY <1>1, <1>2, LaneRests, LaneMoves DEF Rest
<1>6. linked' \subseteq Deposits
  BY <1>1 DEF TypeOK
<1>7. TypeOK'
  BY <1>1, <1>2, <1>5, <1>6 DEF TypeOK, boundVars
<1> QED BY <1>2, <1>3, <1>4, <1>5, <1>7 DEF Moves, Outcome

LEMMA RequestMoves ==
  ASSUME IInv, NEW l \in CheckoutLanes, RecordFailure(l) \/ Attach(l) \/ Reuse(l)
  PROVE  Moves
<1>1. lane[l].pc # "idle"
  BY DEF RecordFailure, Attach, Reuse
<1>2. PICK d \in Deposits : d = lane[l].job
  BY <1>1, RequestAt
<1>3. TypeOK /\ ReusesAttached /\ attempt[d] \in AttemptRows
  BY <1>1, <1>2, RequestAt
<1>4. attempt = [attempt EXCEPT ![d] = attempt[d]] /\ Follows(attempt[d], attempt[d])
  BY <1>3 DEF TypeOK, Follows
<1>5. CASE RecordFailure(l)
  <2> DEFINE a == [attempt[d] EXCEPT !.status = "FAILED"]
  <2>1. /\ UNCHANGED <<credits, available, inbox, recovery, evidence, session, flagged, sent,
                       batch, boundVars>>
        /\ Rest(l) /\ linked' = linked
    BY <1>5 DEF RecordFailure, providerVars
  <2>2. CASE PreSession(attempt[d])
    <3>1. attempt' = [attempt EXCEPT ![d] = a]
      BY <1>2, <1>5, <2>2 DEF RecordFailure
    <3>2. a \in AttemptRows /\ Follows(attempt[d], a) /\ (attempt[d].session => a.session)
      BY <1>3, <2>2 DEF AttemptRows, Follows, CreditBacked, PreCredit, PreSession
    <3> HIDE DEF a
    <3> QED BY <2>1, <3>1, <3>2, RequestEnds
  <2>3. CASE ~PreSession(attempt[d])
    <3>1. attempt' = [attempt EXCEPT ![d] = attempt[d]]
      BY <1>2, <1>4, <1>5, <2>3 DEF RecordFailure
    <3> QED BY <1>3, <1>4, <2>1, <3>1, RequestEnds
  <2> QED BY <2>2, <2>3
<1>6. CASE Attach(l)
  <2> DEFINE a == WithSession(attempt[d])
  <2>1. /\ UNCHANGED <<credits, available, inbox, recovery, evidence, session, flagged, sent,
                       batch, boundVars>>
        /\ Rest(l) /\ linked' \in {linked, linked \cup {d}}
    BY <1>2, <1>6 DEF Attach, Answer
  <2>2. CASE PreSession(attempt[d])
    <3>1. attempt' = [attempt EXCEPT ![d] = a]
      BY <1>2, <1>6, <2>2 DEF Attach
    <3>2. a \in AttemptRows /\ Follows(attempt[d], a) /\ a.session
      BY <1>3, <2>2 DEF AttemptRows, Follows, CreditBacked, PreCredit, PreSession, WithSession
    <3> HIDE DEF a
    <3> QED BY <2>1, <3>1, <3>2, RequestEnds
  <2>3. CASE ~PreSession(attempt[d])
    <3>1. attempt' = [attempt EXCEPT ![d] = attempt[d]]
      BY <1>2, <1>4, <1>6, <2>3 DEF Attach
    <3>2. linked' = linked \/ attempt[d].session
      BY <1>2, <1>6, <2>3 DEF Attach, Attached
    <3> QED BY <1>3, <1>4, <2>1, <3>1, <3>2, RequestEnds
  <2> QED BY <2>2, <2>3
<1>7. CASE Reuse(l)
  <2>1. /\ UNCHANGED <<credits, available, inbox, recovery, evidence, session, flagged, sent,
                       batch, boundVars>>
        /\ Rest(l) /\ linked' \in {linked, linked \cup {d}}
        /\ attempt' = attempt /\ lane[l].pc = "reusing"
    BY <1>2, <1>7 DEF Reuse, Answer, moneyVars
  <2>2. attempt[d].session
    BY <1>2, <1>3, <2>1 DEF ReusesAttached
  <2> QED BY <1>3, <1>4, <2>1, <2>2, RequestEnds
<1> QED BY <1>5, <1>6, <1>7

-----------------------------------------------------------------------------
(* The provider.                                                           *)

LEMMA BecomesMoves ==
  ASSUME IInv, NEW d \in Deposits, NEW status \in SessionStatuses,
         NEW kind \in SuccessKinds \cup FailureKinds, Becomes(d, status, kind),
         session[d] \notin {"PAID", "EXPIRED"}, kind \in PaidKinds => status = "PAID"
  PROVE  Moves
<1>1. Shape /\ TypeOK /\ LanesKnow /\ ReusesAttached
  BY DEF IInv, Shape
<1>2. /\ UNCHANGED <<moneyVars, inbox, recovery, evidence, flagged, linked, lane, batch, boundVars>>
      /\ session' = [session EXCEPT ![d] = status]
      /\ sent' = sent \cup {[deposit |-> d, kind |-> kind]}
  BY DEF Becomes
<1>3. session' \in [Deposits -> SessionStatuses]
      /\ \A q \in Deposits : session'[q] = IF q = d THEN status ELSE session[q]
  BY <1>1, <1>2 DEF TypeOK
<1>4. [deposit |-> d, kind |-> kind] \in Events /\ sent' \subseteq Events
  BY <1>1, <1>2 DEF TypeOK, Events
<1>5. Grows
  BY <1>2, <1>3 DEF Grows, moneyVars
<1>6. Announces
  BY <1>2, <1>3 DEF Announces
<1>7. Kept /\ InboxMoves /\ LinkMoves /\ RecoveryMoves /\ ClosesNone
  BY <1>2, MoneyStill, InboxStill, LinkStill, RecoveryStill
<1>8. LanesSound
  BY <1>1, <1>2, <1>5, LanesStay
<1>9. TypeOK'
  BY <1>1, <1>2, <1>3, <1>4 DEF TypeOK, moneyVars, boundVars
<1> QED BY <1>5, <1>6, <1>7, <1>8, <1>9 DEF Moves, Outcome

LEMMA ProviderStep ==
  ASSUME IInv, NEW d \in Deposits, Pay(d) \/ Settle(d) \/ ExpireSession(d)
  PROVE  Moves
<1>1. session[d] \in {"OPEN", "PROCESSING"}
  BY DEF Pay, Settle, ExpireSession
<1>2. PICK status \in {"PAID", "PROCESSING", "DECLINED", "EXPIRED", "OPEN"} :
      \E kind \in SuccessKinds \cup FailureKinds :
        Becomes(d, status, kind) /\ (kind \in PaidKinds => status = "PAID")
  BY <1>1 DEF Pay, Settle, ExpireSession, SuccessKinds, FailureKinds, PaidKinds
<1>3. status \in SessionStatuses
  BY DEF SessionStatuses
<1> QED BY <1>1, <1>2, <1>3, BecomesMoves

-----------------------------------------------------------------------------
(* Every step has that shape.                                              *)

LEMMA StutterMoves == ASSUME IInv, UNCHANGED vars PROVE Moves
<1>1. Shape /\ TypeOK /\ LanesKnow /\ ReusesAttached
  BY DEF IInv, Shape
<1>2. Still /\ UNCHANGED lane
  BY DEF vars, Still, moneyVars
<1>3. LanesSound
  BY <1>1, <1>2, StillGrows, LanesStay
<1>4. TypeOK'
  BY <1>1 DEF vars, TypeOK
<1> QED BY <1>2, <1>3, <1>4, StillMoves

LEMMA NextMoves == ASSUME IInv, [Next]_vars PROVE Moves
<1>1. ASSUME NEW l \in CheckoutLanes,
             (\E d \in Deposits : CheckoutStart(l, d)) \/ Checkout(l) \/ OpenSessionFails(l)
      PROVE  Moves
  BY <1>1, CheckoutStartMoves, OpenMoves, RequestMoves DEF Checkout
<1>2. ASSUME NEW l \in WebhookLanes,
             \/ \E e \in Events, v \in Envelopes : Receive(l, e, v)
             \/ Handle(l) \/ WebhookFails(l)
      PROVE  Moves
  BY <1>2, ReceiveMoves, WebhookRecoverMoves, WebhookClaimMoves, WebhookCreditMoves,
     WebhookErrors, WebhookMarkMoves, WebhookHandleErrorMoves, ReplayProcessedMoves DEF Handle
<1>3. ASSUME NEW w \in WorkerLanes, Work(w) \/ RecoveryFails(w)
      PROVE  Moves
  BY <1>3, SeedSelectMoves, SeedCreateMoves, SweepMoves, SelectMoves, ClaimMoves, RereadMoves,
     SupersedeMoves, RetrieveSessionMoves, RetrievePaymentMoves, PersistEvidenceMoves,
     CloseUnpaidMoves, RecoveryCreditMoves, RecoveryErrors, RecoveryHandleErrorMoves DEF Work
<1>4. ASSUME NEW d \in Deposits,
             \/ Pay(d) \/ Settle(d) \/ ExpireSession(d) \/ Flag(d)
             \/ \E status \in CreditBacked : DisputeProjects(d, status)
             \/ ElapseRecovery(d)
      PROVE  Moves
  BY <1>4, ProviderStep, FlagMoves, DisputeProjectsMoves, ElapseRecoveryMoves
<1>5. ASSUME NEW e \in Events, ElapseEvent(e) PROVE Moves
  BY <1>5, ElapseEventMoves
<1>6. ASSUME NEW l \in Lanes, Crash(l) PROVE Moves
  BY <1>6, CrashMoves
<1>7. ASSUME NEW r \in Runtimes, Redeploy(r) PROVE Moves
  BY <1>7, RedeployMoves
<1>8. CASE UNCHANGED vars
  BY <1>8, StutterMoves
<1> QED BY <1>1, <1>2, <1>3, <1>4, <1>5, <1>6, <1>7, <1>8 DEF Next

LEMMA InitInv == Init => IInv
<1> SUFFICES ASSUME Init PROVE IInv
  OBVIOUS
<1>1. NoAttempt \in AttemptRows /\ NoAttempt.status = "NONE" /\ ~NoAttempt.ledger
  BY DEF NoAttempt, AttemptRows
<1>2. NoRow \in InboxRows /\ NoRow.status = "ABSENT"
  BY DEF NoRow, InboxRows, Envelopes
<1>3. NoRecovery \in RecoveryRows /\ NoRecovery.status = "ABSENT"
  BY DEF NoRecovery, RecoveryRows
<1>4. \A l \in Lanes : Idle \in LaneStates /\ RoleFits(l, Idle) /\ Idle.pc = "idle"
  BY LaneRests
<1>5. "NONE" \in SessionStatuses
  BY DEF SessionStatuses
<1>6. TypeOK
  BY <1>1, <1>2, <1>3, <1>4, <1>5 DEF Init, TypeOK
<1>7. \A l \in Lanes : lane[l] = Idle
  BY DEF Init
<1>8. RolesFit
  BY <1>4, <1>7 DEF RolesFit
<1>9. LanesKnow /\ ReusesAttached
  BY <1>4, <1>7, RoleOf DEF LanesKnow, ReusesAttached, Informed
<1>10. AnnouncedPaid /\ LinkAttached
  BY DEF Init, AnnouncedPaid, LinkAttached
<1>11. InboxSent /\ AuthoritiesProve
  BY <1>2, <1>3 DEF Init, InboxSent, AuthoritiesProve, EventProves, RecoveryProves
<1>12. CreditedOnce
  <2> DEFINE f == [d \in Deposits |-> credits[d] * Credit[d]]
  <2>1. \A d \in Deposits : f[d] = 0
    <3>1. \A d \in Deposits : Credit[d] \in Nat
      BY ConstantsAssumption
    <3> QED BY <3>1 DEF Init
  <2>2. IsFiniteSet(Deposits) /\ DOMAIN f = Deposits
    BY ConstantsAssumption
  <2> HIDE DEF f
  <2>3. SumFunctionOnSet(f, Deposits) = 0
    BY ONLY <2>1, <2>2, SumZero
  <2>4. available = SumFunction(f)
    BY <2>2, <2>3 DEF Init, SumFunction
  <2>5. \A d \in Deposits : CreditAgrees(d)
    BY <1>1 DEF Init, CreditAgrees, CreditBacked
  <2> QED BY <2>4, <2>5, PerDeposit DEF f
<1> QED BY <1>6, <1>8, <1>9, <1>10, <1>11, <1>12 DEF IInv, Shape

-----------------------------------------------------------------------------
(* The theorems.                                                           *)

\* The rows, the ledger, the provider's answers and what lanes remember of
\* them agree in every reachable state (all of DepositFunding's actions).
THEOREM Invariance == Spec => []IInv
<1>1. IInv /\ [Next]_vars => IInv'
  BY NextMoves, MovesInv
<1> QED BY <1>1, InitInv, PTL DEF Spec

\* Every variable keeps its type (billing.service.ts and
\* deposit-credit-recovery.processor.ts).
THEOREM TypeCorrect == Spec => []TypeOK
<1>1. IInv => TypeOK
  BY DEF IInv, Shape
<1> QED BY <1>1, Invariance, PTL

\* However webhooks, replays, recovery runs, crashes and lost answers
\* interleave, finalizeDepositCredit credits a paid deposit once, and the
\* balance is the sum of what was credited.
THEOREM CreditedAlwaysOnce == Spec => []CreditedOnce
<1>1. IInv => CreditedOnce
  BY DEF IInv
<1> QED BY <1>1, Invariance, PTL

\* createCheckoutSession hands out the URL of an attached session only.
THEOREM LinksAlwaysAttached == Spec => []LinkAttached
<1>1. IInv => LinkAttached
  BY DEF IInv
<1> QED BY <1>1, Invariance, PTL

\* Processed events and settled recoveries are right about the money and, for
\* recoveries, hold the evidence of the claim that settled them.
THEOREM AuthoritiesAlwaysProve == Spec => []AuthoritiesProve
<1>1. IInv => AuthoritiesProve
  BY DEF IInv
<1> QED BY <1>1, Invariance, PTL

-----------------------------------------------------------------------------
(* An unexpired claim is ended by its holder only.                         *)

\* A lane ends its own claim and moves on.
LEMMA HolderEnds ==
  ASSUME IInv, NEW w \in WorkerLanes, lane[w].pc \in Working, OwnsRecovery(w),
         NEW r, recovery' = [recovery EXCEPT ![lane[w].job] = r],
         lane'[w].pc # lane[w].pc
  PROVE  RecoveryLeaseStep
<1>1. TypeOK /\ lane[w].job \in Deposits
  BY WorkerAt
<1>2. \A d \in Deposits : d # lane[w].job => recovery'[d] = recovery[d]
  BY <1>1 DEF TypeOK
<1>3. HoldsRecovery(w, lane[w].job) /\ lane'[w] # lane[w]
  BY DEF HoldsRecovery
<1> QED BY <1>2, <1>3 DEF RecoveryLeaseStep

LEMMA ContinueLeaves ==
  ASSUME IInv, NEW w \in WorkerLanes, lane[w].pc \in Working, Continue(w)
  PROVE  lane'[w].pc # lane[w].pc
<1>1. w \in Lanes /\ TypeOK
  BY WorkerAt
<1>2. lane'[w] = NextOf(w, batch[w])
  BY <1>1 DEF Continue, TypeOK
<1> QED BY <1>2, NextOfType DEF Working

LEMMA CommitLeaves ==
  ASSUME IInv, NEW w \in WorkerLanes, lane[w].pc \in {"closing", "finalizing"},
         MayLoseCommit(w, NextOf(w, batch[w]))
  PROVE  lane'[w].pc # lane[w].pc
<1>1. w \in Lanes /\ TypeOK
  BY WorkerAt DEF Working
<1>2. lane'[w] \in {NextOf(w, batch[w]), Caught(w, "RETRY")}
  BY <1>1 DEF MayLoseCommit, TypeOK
<1>3. Caught(w, "RETRY").pc = "caught"
  BY <1>1, CaughtType
<1> QED BY <1>2, <1>3, NextOfType

LEMMA NextFenced == ASSUME IInv, [Next]_vars PROVE RecoveryLeaseStep
<1>0. TypeOK
  BY DEF IInv, Shape
<1>1. CASE UNCHANGED recovery
  BY <1>1 DEF RecoveryLeaseStep
<1>2. ASSUME NEW w \in WorkerLanes, SeedCreate(w) PROVE RecoveryLeaseStep
  <2>1. PICK c \in batch[w] :
          recovery' = IF recovery[c.deposit].status = "ABSENT"
                        THEN [recovery EXCEPT ![c.deposit] =
                                [NoRecovery EXCEPT !.status = "PENDING", !.due = TRUE]]
                        ELSE recovery
    BY <1>2 DEF SeedCreate
  <2>2. \A d \in Deposits : recovery[d].status = "PROCESSING" => recovery'[d] = recovery[d]
    BY <1>0, <2>1 DEF TypeOK
  <2> QED BY <2>2 DEF RecoveryLeaseStep
<1>3. ASSUME NEW w \in WorkerLanes, Sweep(w) PROVE RecoveryLeaseStep
  <2>1. \A d \in Deposits : ~recovery[d].due => recovery'[d] = recovery[d]
    BY <1>3 DEF Sweep, Recovered, Stale
  <2> QED BY <2>1 DEF RecoveryLeaseStep
<1>4. ASSUME NEW w \in WorkerLanes, Claim(w) PROVE RecoveryLeaseStep
  <2>1. PICK c \in batch[w] :
          \/ UNCHANGED recovery
          \/ /\ Claimable(recovery[c.deposit])
             /\ recovery' = [recovery EXCEPT ![c.deposit] = Claimed(@)]
    BY <1>4 DEF Claim
  <2>2. \A d \in Deposits : recovery[d].status = "PROCESSING" => recovery'[d] = recovery[d]
    BY <1>0, <2>1 DEF TypeOK, Claimable
  <2> QED BY <2>2 DEF RecoveryLeaseStep
<1>5. ASSUME NEW w \in WorkerLanes, Supersede(w) PROVE RecoveryLeaseStep
  <2>1. lane[w].pc \in Working /\ Continue(w)
    BY <1>5 DEF Supersede, Working
  <2>2. \/ UNCHANGED recovery
        \/ OwnsRecovery(w) /\ \E r : recovery' = [recovery EXCEPT ![lane[w].job] = r]
    BY <1>5 DEF Supersede
  <2> QED BY <1>1, <2>1, <2>2, HolderEnds, ContinueLeaves
<1>6. ASSUME NEW w \in WorkerLanes, RecoveryHandleError(w) PROVE RecoveryLeaseStep
  <2>1. lane[w].pc \in Working /\ Continue(w)
    BY <1>6 DEF RecoveryHandleError, Working
  <2>2. \/ UNCHANGED recovery
        \/ OwnsRecovery(w) /\ \E r : recovery' = [recovery EXCEPT ![lane[w].job] = r]
    BY <1>6 DEF RecoveryHandleError
  <2> QED BY <1>1, <2>1, <2>2, HolderEnds, ContinueLeaves
<1>7. ASSUME NEW w \in WorkerLanes, CloseUnpaid(w) \/ RecoveryCredit(w)
      PROVE  RecoveryLeaseStep
  <2>1. lane[w].pc \in Working /\ lane[w].pc \in {"closing", "finalizing"}
    BY <1>7 DEF CloseUnpaid, RecoveryCredit, Working
  <2>2. \/ UNCHANGED recovery
        \/ /\ OwnsRecovery(w) /\ MayLoseCommit(w, NextOf(w, batch[w]))
           /\ \E r : recovery' = [recovery EXCEPT ![lane[w].job] = r]
    BY <1>7 DEF CloseUnpaid, RecoveryCredit
  <2> QED BY <1>1, <2>1, <2>2, HolderEnds, CommitLeaves
<1>8. ASSUME NEW d \in Deposits, ElapseRecovery(d) PROVE RecoveryLeaseStep
  <2>1. \A q \in Deposits : recovery'[q].status = recovery[q].status
    BY <1>0, <1>8 DEF ElapseRecovery, TypeOK, RecoveryRows
  <2> QED BY <2>1 DEF RecoveryLeaseStep
<1>9. ASSUME NEW l \in CheckoutLanes,
             (\E d \in Deposits : CheckoutStart(l, d)) \/ Checkout(l) \/ OpenSessionFails(l)
      PROVE  UNCHANGED recovery
  BY <1>9 DEF CheckoutStart, Checkout, OpenSession, OpenSessionFails, RecordFailure, Attach, Reuse
<1>10. ASSUME NEW l \in WebhookLanes,
              \/ \E e \in Events, v \in Envelopes : Receive(l, e, v)
              \/ Handle(l) \/ WebhookFails(l)
       PROVE  UNCHANGED recovery
  BY <1>10 DEF Receive, Handle, WebhookFails, WebhookRecover, WebhookClaim, WebhookCredit,
     WebhookRefused, WebhookDeferred, WebhookMark, WebhookHandleError, ReplayProcessed
<1>11. ASSUME NEW w \in WorkerLanes,
              \/ SeedSelect(w) \/ Select(w) \/ Reread(w) \/ RetrieveSession(w)
              \/ RetrievePayment(w) \/ PersistEvidence(w) \/ RecoveryRefused(w) \/ RecoveryFails(w)
       PROVE  UNCHANGED recovery
  BY <1>11 DEF SeedSelect, Select, Reread, RetrieveSession, RetrievePayment, PersistEvidence,
     RecoveryRefused, RecoveryFails
<1>12. ASSUME NEW d \in Deposits,
              \/ Pay(d) \/ Settle(d) \/ ExpireSession(d) \/ Flag(d)
              \/ \E status \in CreditBacked : DisputeProjects(d, status)
       PROVE  UNCHANGED recovery
  BY <1>12 DEF Pay, Settle, ExpireSession, Becomes, Flag, DisputeProjects
<1>13. ASSUME \/ \E e \in Events : ElapseEvent(e)
              \/ \E l \in Lanes : Crash(l)
              \/ \E r \in Runtimes : Redeploy(r)
              \/ UNCHANGED vars
       PROVE  UNCHANGED recovery
  BY <1>13 DEF ElapseEvent, Crash, Redeploy, vars
<1>14. ASSUME NEW w \in WorkerLanes, Work(w) \/ RecoveryFails(w)
       PROVE  RecoveryLeaseStep
  BY <1>1, <1>2, <1>3, <1>4, <1>5, <1>6, <1>7, <1>11, <1>14 DEF Work
<1> QED BY <1>1, <1>8, <1>9, <1>10, <1>12, <1>13, <1>14 DEF Next

\* No worker lane, however stale, ends a claim of a recovery that another lane
\* holds and whose lease has not expired (the fences of
\* deposit-credit-recovery.processor.ts).
THEOREM RecoveryAlwaysFenced == Spec => RecoveryFenced
<1>1. IInv /\ [Next]_vars => [RecoveryLeaseStep]_vars
  BY NextFenced
<1> QED BY <1>1, Invariance, PTL DEF Spec, RecoveryFenced

-----------------------------------------------------------------------------
(* The contract.                                                           *)

Funding(d) == IF credits[d] > 0 THEN "FUNDED"
              ELSE IF recovery[d].status = "CLOSED_UNPAID" THEN "CLOSED" ELSE "OPEN"

LEMMA StepImplements ==
  ASSUME IInv, Moves, CreditedOnce'
  PROVE  [Contract!Next]_(Contract!cvars)
<1> DEFINE F == [d \in Deposits |-> Funding(d)]
           G == [d \in Deposits |-> Funding(d)']
<1>1. TypeOK /\ TypeOK' /\ Outcome
  BY DEF IInv, Moves, Shape
<1>2. \A d \in Deposits : credits[d] \in {0, 1} /\ credits'[d] \in {0, 1}
  BY DEF IInv, CreditedOnce
<1>3. \A d \in Deposits : recovery[d].status = "CLOSED_UNPAID" => session[d] = "EXPIRED"
  BY DEF IInv, AuthoritiesProve, RecoveryProves
<1>4. CASE Kept /\ ClosesNone
  <2>1. \A d \in Deposits : Funding(d)' = Funding(d)
    BY <1>4 DEF Kept, ClosesNone, SameClosed, Funding
  <2>2. G = F /\ available' = available
    BY <1>4, <2>1 DEF Kept
  <2> QED BY <2>2 DEF Contract!cvars, Funding
<1>5. ASSUME Kept, NEW d \in Deposits, Closes(d)
      PROVE  [Contract!Next]_(Contract!cvars)
  <2>1. \A q \in Deposits : q # d => Funding(q)' = Funding(q)
    BY <1>5 DEF Kept, Closes, SameClosed, Funding
  <2>2. Funding(d) = "OPEN" /\ Funding(d)' = "CLOSED"
    BY <1>5 DEF Kept, Closes, Funding
  <2>3. G = [F EXCEPT ![d] = "CLOSED"] /\ F[d] = "OPEN"
    BY <2>1, <2>2
  <2>4. available' = available
    BY <1>5 DEF Kept
  <2>5. Contract!Close(d)
    BY <2>3, <2>4 DEF Contract!Close, Funding
  <2> QED BY <2>5 DEF Contract!Next
<1>6. ASSUME ClosesNone, NEW d \in Deposits, Funds(d)
      PROVE  [Contract!Next]_(Contract!cvars)
  <2>1. \A q \in Deposits : q # d => credits'[q] = credits[q]
    BY <1>1, <1>6 DEF Funds, TypeOK
  <2>2. credits'[d] = 1 /\ credits[d] = 0 /\ available' = available + Credit[d]
    BY <1>1, <1>6 DEF Funds, TypeOK
  <2>3. recovery[d].status # "CLOSED_UNPAID"
    BY <1>3, <1>6 DEF Funds
  <2>4. \A q \in Deposits : q # d => Funding(q)' = Funding(q)
    BY <1>6, <2>1 DEF ClosesNone, SameClosed, Funding
  <2>5. Funding(d) = "OPEN" /\ Funding(d)' = "FUNDED"
    BY <2>2, <2>3 DEF Funding
  <2>6. G = [F EXCEPT ![d] = "FUNDED"] /\ F[d] = "OPEN"
    BY <2>4, <2>5
  <2>7. Contract!Fund(d)
    BY <2>2, <2>6 DEF Contract!Fund, Funding
  <2> QED BY <2>7 DEF Contract!Next
<1> QED BY <1>1, <1>4, <1>5, <1>6 DEF Outcome

LEMMA InitImplements == ASSUME Init PROVE Contract!Init
<1>1. \A d \in Deposits : credits[d] = 0 /\ recovery[d].status = "ABSENT"
  BY DEF Init, NoRecovery
<1> QED BY <1>1 DEF Init, Contract!Init

\* Webhooks, replays, recovery runs, crashes and lost answers together fund a
\* deposit once with its amount, or close it for good.
THEOREM ContractImplemented == Spec => ImplementsContract
<1>1. IInv /\ [Next]_vars => [Contract!Next]_(Contract!cvars)
  BY NextMoves, MovesInv, StepImplements DEF IInv
<1> QED BY <1>1, InitImplements, Invariance, PTL DEF Spec, ImplementsContract, Contract!Spec
=============================================================================
