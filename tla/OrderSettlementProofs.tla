----------------------- MODULE OrderSettlementProofs -----------------------
(***************************************************************************)
(* Proofs about OrderSettlement: the books of the publisher balance, the   *)
(* agreement of order, settlement, revenue and refund rows, what a release *)
(* and confirmed fraud may do, the evidence a verified delivery rests on,  *)
(* and the refinement of OrderContract.                                    *)
(***************************************************************************)
EXTENDS OrderSettlement, SumTheorems

-----------------------------------------------------------------------------
(* The inductive invariant *)

OrderRows == [channel : Channels, verifyMethod : Methods \cup {"NONE"},
              status : OrderStatuses, version : Nat,
              warranty : {"none", "open", "over"}]
SettlementRows == [status : SettlementStatuses, version : Nat,
                   policy : {"AUTO", "MANUAL"}]
Disputes == [status : OpenDispute \cup SafeDispute \cup {"REFUNDED"},
             prev : OrderStatuses \cup {"NONE"}]
Dates == [Marks -> SUBSET (Marks \cup {"evidence"})]
Balances == [withdrawable : Nat, debt : Nat, lifetime : Nat, withdrawn : Nat]
LaneRows == [job : Jobs, order : Orders \cup {None}, row : Rows \cup {0},
             status : OrderStatuses \cup SettlementStatuses \cup {"NONE"},
             version : Nat, flag : BOOLEAN]

\* How far the order has come, its dispute aside.
Stage(o) == IF order[o].status = "DISPUTED" THEN dispute[o].prev
            ELSE order[o].status

\* An order is disputed while, and only while, its dispute is open, unless a
\* refund came first.
DisputeAgrees(o) ==
  /\ order[o].status = "DISPUTED" => dispute[o].status \in OpenDispute
  /\ dispute[o].status \in OpenDispute =>
       /\ order[o].status \in {"DISPUTED", "REFUNDED"}
       /\ dispute[o].prev \in {"PUBLISHED", "VERIFIED", "DELIVERED", "COMPLETED"}

\* One active settlement, of a publisher order between acceptance and refund,
\* released when the order has come to its end.
SettlementAgrees(o) ==
  /\ \A m, n \in Active(o) : m = n
  /\ Stage(o) \in {"PUBLISHED", "VERIFIED", "REFUNDED"} => Active(o) = {}
  /\ Publisher(o) => /\ Released(o) <=> Stage(o) = "COMPLETED"
                     /\ revenue[o] = "NONE"
  /\ ~Publisher(o) => /\ Active(o) = {}
                      /\ Stage(o) # "DELIVERED"
                      /\ revenue[o] = "RECOGNIZED" <=> Stage(o) = "COMPLETED"
  /\ order[o].status # "REFUNDED" => refund[o] = NoRefund

\* Confirmed fraud holds the order and has a case, which ends in the refund.
FraudAgrees(o) ==
  /\ finding[o] \subseteq holds[o]
  /\ handoff[o] = "ABSENT" <=> finding[o] = {}
  /\ handoff[o] = "APPROVED" => order[o].status = "REFUNDED"
  /\ finding[o] # {} =>
       /\ order[o].status # "COMPLETED"
       /\ order[o].status = "REFUNDED" => handoff[o] = "APPROVED"

\* The latest evidence is older than the removal, and no recheck that started
\* before that evidence started after the removal.
RemovalLast(t) ==
  /\ "evidence" \notin t["removal"]
  /\ \A l \in SweepLanes : "evidence" \in t[l] => "removal" \in t[l]

\* While a removal is not resolved every row that could undo it becomes the
\* latest.
RemovalAgrees(o) == "LINK_REMOVED" \in holds[o] => RemovalLast(later[o])

EvidenceAgrees(o) ==
  /\ delivery[o].state = "VERIFIED" => "LINK_REMOVED" \notin holds[o]
  /\ delivery[o].state = "VERIFIED" /\ order[o].verifyMethod = "AUTO" =>
       evidence[o] # "missing"
  /\ RemovalAgrees(o)

OrderInv(o) ==
  /\ DisputeAgrees(o) /\ SettlementAgrees(o)
  /\ FraudAgrees(o) /\ EvidenceAgrees(o)

\* What a lane has read is the past of the row or delivery: at the version that
\* was read nothing of it has changed.
ReadPast(l) ==
  /\ lane[l].job \in RowJobs \cup OrderJobs \cup FetchJobs \cup {"recheck"} =>
       lane[l].order \in Orders
  /\ lane[l].job \in RowJobs =>
       /\ lane[l].row \in Rows
       /\ lane[l].status \in Unreleased \cup {"CANCELLED"}
       /\ lane[l].job # "cancel" => lane[l].status \in Unreleased
       /\ Row(l).status # "ABSENT"
       /\ lane[l].version <= Row(l).version
       /\ lane[l].version = Row(l).version => lane[l].status = Row(l).status
  /\ lane[l].job \in FetchJobs =>
       /\ lane[l].version <= delivery[At(l)].version
       /\ lane[l].version = delivery[At(l)].version =>
            (lane[l].flag <=> delivery[At(l)].state = "REJECTED")

IInv ==
  /\ TypeOK
  /\ \A o \in Orders : OrderInv(o)
  /\ \A l \in Lanes : ReadPast(l)
  /\ BooksBalance

-----------------------------------------------------------------------------
(* Operators *)

\* The smaller of two amounts.
LEMMA MinOfTwo ==
  ASSUME NEW a \in Nat, NEW b \in Nat
  PROVE  /\ Min({a, b}) \in Nat
         /\ Min({a, b}) <= a /\ Min({a, b}) <= b
         /\ Min({a, b}) = a \/ Min({a, b}) = b
<1>1. \E x \in {a, b} : \A y \in {a, b} : x =< y
  OBVIOUS
<1>2. Min({a, b}) \in {a, b} /\ \A y \in {a, b} : Min({a, b}) =< y
  BY <1>1 DEF Min
<1> QED
  BY <1>2

\* What a publisher earns with an order is a natural number.
LEMMA NetNat == ASSUME NEW o \in Orders
                PROVE  Net(o) \in Nat /\ Net(o) <= Gross[o] /\ Net(o) = Gross[o] - Fee[o]
                       /\ Gross[o] \in Nat /\ Fee[o] \in Nat
  BY ConstantsAssumption DEF Net

\* Earnings go to the withdrawable balance and, first, to the debt.
LEMMA CreditedAdds ==
  ASSUME NEW b, b.withdrawable \in Nat, b.debt \in Nat, b.lifetime \in Int,
         b.withdrawn \in Nat,
         b = [withdrawable |-> b.withdrawable, debt |-> b.debt,
              lifetime |-> b.lifetime, withdrawn |-> b.withdrawn],
         NEW amount \in Nat, NEW c, c = Credited(b, amount)
  PROVE  /\ c = [withdrawable |-> c.withdrawable, debt |-> c.debt,
                 lifetime |-> c.lifetime, withdrawn |-> c.withdrawn]
         /\ c.withdrawable \in Nat /\ c.debt \in Nat
         /\ c.lifetime = b.lifetime + amount
         /\ c.withdrawn = b.withdrawn
         /\ c.withdrawable - c.debt = b.withdrawable - b.debt + amount
<1> DEFINE m == Min({b.debt, amount})
<1>1. m \in Nat /\ m <= b.debt /\ m <= amount
  BY MinOfTwo
<1>2. c = [withdrawable |-> b.withdrawable + amount - m, debt |-> b.debt - m,
           lifetime |-> b.lifetime + amount, withdrawn |-> b.withdrawn]
  BY DEF Credited
<1> HIDE DEF m
<1> QED
  BY <1>1, <1>2

\* A clawback takes what is withdrawable and leaves the rest as debt.
LEMMA ClawedBackTakes ==
  ASSUME NEW b, b.withdrawable \in Nat, b.debt \in Nat, b.lifetime \in Int,
         b.withdrawn \in Nat,
         b = [withdrawable |-> b.withdrawable, debt |-> b.debt,
              lifetime |-> b.lifetime, withdrawn |-> b.withdrawn],
         NEW amount \in Nat, NEW c, c = ClawedBack(b, amount)
  PROVE  /\ c = [withdrawable |-> c.withdrawable, debt |-> c.debt,
                 lifetime |-> c.lifetime, withdrawn |-> c.withdrawn]
         /\ c.withdrawable \in Nat /\ c.debt \in Nat
         /\ c.lifetime = b.lifetime - amount
         /\ c.withdrawn = b.withdrawn
         /\ c.withdrawable - c.debt = b.withdrawable - b.debt - amount
<1> DEFINE m == Min({b.withdrawable, amount})
<1>1. m \in Nat /\ m <= b.withdrawable /\ m <= amount
  BY MinOfTwo
<1>2. c = [withdrawable |-> b.withdrawable - m, debt |-> b.debt + amount - m,
           lifetime |-> b.lifetime - amount, withdrawn |-> b.withdrawn]
  BY DEF ClawedBack
<1> HIDE DEF m
<1> QED
  BY <1>1, <1>2

-----------------------------------------------------------------------------
(* Frames *)

\* Nothing of the order changes but the dates of its rechecks.
SameRows(p) ==
  /\ order'[p] = order[p] /\ settlement'[p] = settlement[p]
  /\ dispute'[p] = dispute[p] /\ handoff'[p] = handoff[p]
  /\ holds'[p] = holds[p] /\ finding'[p] = finding[p]
  /\ delivery'[p] = delivery[p] /\ evidence'[p] = evidence[p]
  /\ refund'[p] = refund[p] /\ revenue'[p] = revenue[p]

Untouched(p) == SameRows(p) /\ later'[p] = later[p]

\* Nothing of the order's money changes.
KeepsMoney(p) ==
  /\ Released(p)' <=> Released(p)
  /\ order'[p].channel = order[p].channel
  /\ order'[p].status = "REFUNDED" <=> order[p].status = "REFUNDED"
  /\ revenue'[p] = revenue[p] /\ refund'[p] = refund[p]

\* A step that neither earns nor refunds.
Quiet ==
  /\ \A p \in Orders : KeepsMoney(p)
  /\ balance'.lifetime = balance.lifetime

LEMMA SameRowsKeep ==
  ASSUME NEW p, SameRows(p), OrderInv(p), RemovalAgrees(p)'
  PROVE  OrderInv(p)' /\ Earned(p)' = Earned(p) /\ KeepsMoney(p)
<1>1. /\ Active(p)' = Active(p) /\ Released(p)' = Released(p)
      /\ Publisher(p)' = Publisher(p) /\ Stage(p)' = Stage(p)
  BY DEF SameRows, Active, Released, Publisher, Stage
<1>2. Earned(p)' = Earned(p)
  BY <1>1 DEF Earned, SameRows
<1>3. DisputeAgrees(p)' /\ EvidenceAgrees(p)'
  BY DEF SameRows, OrderInv, DisputeAgrees, EvidenceAgrees, RemovalAgrees
<1>4. SettlementAgrees(p)'
  BY <1>1 DEF SameRows, OrderInv, SettlementAgrees
<1>5. FraudAgrees(p)'
  BY DEF SameRows, OrderInv, FraudAgrees
<1>6. KeepsMoney(p)
  BY <1>1 DEF KeepsMoney, SameRows
<1> QED
  BY <1>2, <1>3, <1>4, <1>5, <1>6 DEF OrderInv

LEMMA UntouchedKeeps ==
  ASSUME NEW p, Untouched(p), OrderInv(p)
  PROVE  OrderInv(p)' /\ Earned(p)' = Earned(p) /\ KeepsMoney(p)
<1>1. SameRows(p) /\ RemovalAgrees(p)'
  BY DEF Untouched, SameRows, OrderInv, EvidenceAgrees, RemovalAgrees
<1> QED
  BY <1>1, SameRowsKeep

\* A settlement row changes with its version, and is created once.
RowMoves(r, s) ==
  s = r \/ (s.version > r.version /\ s.status # "ABSENT") \/ r.status = "ABSENT"

\* So does a delivery.
DeliveryMoves(d, e) == e = d \/ e.version > d.version

\* Lanes that stay or come to rest keep a true picture of the past.
LEMMA LanesKeep ==
  ASSUME TypeOK, \A l \in Lanes : ReadPast(l),
         settlement' \in [Orders -> [Rows -> SettlementRows]],
         delivery' \in [Orders -> [state : {"VERIFIED", "REJECTED"}, version : Nat]],
         \A o \in Orders, n \in Rows : RowMoves(settlement[o][n], settlement'[o][n]),
         \A o \in Orders : DeliveryMoves(delivery[o], delivery'[o]),
         \A l \in Lanes : lane'[l] = lane[l] \/ lane'[l] = Idle
  PROVE  \A l \in Lanes : ReadPast(l)'
<1> SUFFICES ASSUME NEW l \in Lanes PROVE ReadPast(l)'
  OBVIOUS
<1>1. CASE lane'[l] = Idle
  BY <1>1 DEF ReadPast, Idle, RowJobs, OrderJobs, FetchJobs
<1>2. CASE lane'[l] = lane[l]
  <2> DEFINE o == lane[l].order
             n == lane[l].row
  <2>1. lane[l].job \in RowJobs \cup OrderJobs \cup FetchJobs => o \in Orders
    BY DEF ReadPast
  <2>2. ASSUME lane[l].job \in RowJobs
        PROVE  /\ n \in Rows
               /\ lane[l].status \in Unreleased \cup {"CANCELLED"}
               /\ lane[l].job # "cancel" => lane[l].status \in Unreleased
               /\ settlement'[o][n].status # "ABSENT"
               /\ lane[l].version <= settlement'[o][n].version
               /\ lane[l].version = settlement'[o][n].version =>
                    lane[l].status = settlement'[o][n].status
    <3>1. o \in Orders /\ n \in Rows
      BY <2>1, <2>2 DEF ReadPast
    <3>2. /\ settlement[o][n] \in SettlementRows
          /\ settlement'[o][n] \in SettlementRows
          /\ lane[l].version \in Nat
      BY <3>1 DEF TypeOK, SettlementRows
    <3>3. /\ lane[l].status \in Unreleased \cup {"CANCELLED"}
          /\ lane[l].job # "cancel" => lane[l].status \in Unreleased
          /\ settlement[o][n].status # "ABSENT"
          /\ lane[l].version <= settlement[o][n].version
          /\ lane[l].version = settlement[o][n].version =>
               lane[l].status = settlement[o][n].status
      BY <2>2 DEF ReadPast, Row, At
    <3>4. RowMoves(settlement[o][n], settlement'[o][n])
      BY <3>1
    <3> HIDE DEF o, n
    <3>5. CASE settlement'[o][n] = settlement[o][n]
      BY <3>1, <3>3, <3>5
    <3>6. CASE /\ settlement'[o][n].version > settlement[o][n].version
               /\ settlement'[o][n].status # "ABSENT"
      BY <3>1, <3>2, <3>3, <3>6 DEF SettlementRows
    <3> QED
      BY <3>3, <3>4, <3>5, <3>6 DEF RowMoves
  <2>3. ASSUME lane[l].job \in FetchJobs
        PROVE  /\ lane[l].version <= delivery'[o].version
               /\ lane[l].version = delivery'[o].version =>
                    (lane[l].flag <=> delivery'[o].state = "REJECTED")
    <3>1. o \in Orders
      BY <2>1, <2>3
    <3>2. delivery[o].version \in Nat /\ delivery'[o].version \in Nat
          /\ lane[l].version \in Nat
      BY <3>1 DEF TypeOK
    <3>3. /\ lane[l].version <= delivery[o].version
          /\ lane[l].version = delivery[o].version =>
               (lane[l].flag <=> delivery[o].state = "REJECTED")
      BY <2>3 DEF ReadPast, At
    <3>4. DeliveryMoves(delivery[o], delivery'[o])
      BY <3>1
    <3> HIDE DEF o
    <3> QED
      BY <3>2, <3>3, <3>4 DEF DeliveryMoves
  <2> QED
    BY <1>2, <2>1, <2>2, <2>3 DEF ReadPast, Row, At
<1> QED
  BY <1>1, <1>2

\* The publisher's share of an order is a natural number.
LEMMA EarnedNat ==
  ASSUME NEW o \in Orders, refund[o].comp \in Nat
  PROVE  Earned(o) \in Nat
  BY NetNat DEF Earned

\* The books follow when one order earns or loses.
LEMMA BooksFollow ==
  ASSUME BooksBalance, NEW o \in Orders,
         \A p \in Orders : Earned(p) \in Nat /\ Earned(p)' \in Nat,
         \A p \in Orders : p # o => Earned(p)' = Earned(p),
         balance'.lifetime = balance.lifetime + Earned(o)' - Earned(o),
         balance'.withdrawable + balance'.withdrawn - balance'.debt
           = balance'.lifetime
  PROVE  BooksBalance' /\ balance'.lifetime \in Nat
<1> DEFINE f == [p \in Orders |-> Earned(p)]
           g == [p \in Orders |-> Earned(p)']
<1>1. IsFiniteSet(Orders)
  BY ConstantsAssumption
<1>2. balance.lifetime = SumFunctionOnSet(f, Orders)
  BY DEF BooksBalance, SumFunction
<1>3. /\ \A p \in Orders : f[p] \in Int /\ g[p] \in Int
      /\ \A p \in Orders : p # o => g[p] = f[p]
      /\ \A p \in Orders : g[p] \in Nat
      /\ f[o] = Earned(o) /\ g[o] = Earned(o)'
  OBVIOUS
<1>4. SumFunctionOnSet(g, Orders) = SumFunctionOnSet(f, Orders) + g[o] - f[o]
  <2>1. \A p \in Orders : f[p] \in Int /\ g[p] \in Int
    BY <1>3
  <2>2. \A p \in Orders : p # o => g[p] = f[p]
    BY <1>3
  <2> HIDE DEF f, g
  <2> QED BY ONLY <1>1, <2>1, <2>2, o \in Orders, SumChange
<1>5. balance'.lifetime = SumFunctionOnSet(g, Orders)
  BY <1>2, <1>3, <1>4
<1>6. SumFunctionOnSet(g, Orders) \in Nat
  <2> HIDE DEF f, g
  <2> QED BY <1>1, <1>3, SumNat
<1>7. SumFunction([p \in Orders |-> Earned(p)]') = SumFunctionOnSet(g, Orders)
  BY DEF SumFunction
<1> QED
  BY <1>5, <1>6, <1>7 DEF BooksBalance

\* Nothing earned and nothing booked: the books stay.
LEMMA BooksStay ==
  ASSUME BooksBalance, balance' = balance,
         \A p \in Orders : Earned(p)' = Earned(p)
  PROVE  BooksBalance'
<1>1. [p \in Orders |-> Earned(p)]' = [p \in Orders |-> Earned(p)]
  OBVIOUS
<1> QED
  BY <1>1 DEF BooksBalance

\* The initial states satisfy the invariant.
LEMMA InitIInv == Init => IInv
<1> SUFFICES ASSUME Init PROVE IInv
  OBVIOUS
<1>1. PICK channel \in [Orders -> Channels], method \in [Orders -> Methods] :
        order = [o \in Orders |->
                   [channel |-> channel[o], verifyMethod |-> method[o],
                    status |-> "VERIFIED", version |-> 0, warranty |-> "none"]]
  BY DEF Init
<1>2. TypeOK
  <2>1. order \in [Orders -> OrderRows]
    BY <1>1 DEF OrderRows, OrderStatuses
  <2>2. settlement \in [Orders -> [Rows -> SettlementRows]]
    BY DEF Init, NoSettlement, SettlementRows, SettlementStatuses
  <2>3. dispute \in [Orders -> Disputes]
    BY DEF Init, Disputes, SafeDispute
  <2>4. lane \in [Lanes -> LaneRows]
    BY DEF Init, Idle, LaneRows, Jobs
  <2>5. refund \in [Orders -> [amount : Nat, comp : Nat, fee : Nat]]
        /\ balance \in Balances
    BY DEF Init, NoRefund, NoBalance, Balances
  <2>6. evidence \in [Orders -> Evidences]
    BY DEF Init, Evidences
  <2>7. later \in [Orders -> Dates]
    BY DEF Init, Dates
  <2> QED
    BY <2>1, <2>2, <2>3, <2>4, <2>5, <2>6, <2>7
    DEF Init, TypeOK, Dates, OrderRows, SettlementRows, Disputes, LaneRows, Balances
<1>3. ASSUME NEW o \in Orders PROVE OrderInv(o) /\ Earned(o) = 0
  <2>1. \A n \in Rows : settlement[o][n].status = "ABSENT"
    BY DEF Init, NoSettlement
  <2>2. Active(o) = {} /\ ~Released(o)
    BY <2>1 DEF Active, Released
  <2>3. /\ order[o].status = "VERIFIED" /\ dispute[o].status = "NONE"
        /\ revenue[o] = "NONE" /\ refund[o] = NoRefund
        /\ delivery[o].state = "VERIFIED" /\ handoff[o] = "ABSENT"
        /\ finding[o] = {} /\ holds[o] = {}
        /\ order[o].verifyMethod = "AUTO" => evidence[o] = "fresh"
    BY <1>1 DEF Init
  <2>4. DisputeAgrees(o) /\ FraudAgrees(o) /\ EvidenceAgrees(o)
    BY <2>3 DEF DisputeAgrees, FraudAgrees, EvidenceAgrees, RemovalAgrees, OpenDispute
  <2>5. SettlementAgrees(o)
    BY <2>2, <2>3 DEF SettlementAgrees, Stage
  <2>6. Earned(o) = 0
    BY <2>2, <2>3 DEF Earned, NoRefund
  <2> QED
    BY <2>4, <2>5, <2>6 DEF OrderInv
<1>4. \A l \in Lanes : ReadPast(l)
  BY DEF Init, Idle, ReadPast, RowJobs, OrderJobs, FetchJobs
<1>5. BooksBalance
  <2> DEFINE f == [o \in Orders |-> Earned(o)]
  <2>1. IsFiniteSet(Orders) /\ \A o \in Orders : f[o] = 0
    BY ConstantsAssumption, <1>3
  <2>2. SumFunctionOnSet(f, Orders) = 0
    <3> HIDE DEF f
    <3> QED BY <2>1, SumZero
  <2> QED
    BY <2>2 DEF BooksBalance, SumFunction, Init, NoBalance
<1> QED
  BY <1>2, <1>3, <1>4, <1>5 DEF IInv

-----------------------------------------------------------------------------
(* Reads: only the lane changes *)

\* What happens to the dates of the rechecks when one starts, ends or leaves a row.
LEMMA DatesKeep ==
  ASSUME NEW t \in Dates, NEW l \in Lanes, NEW x
  PROVE  /\ MarkedNow(t, x) \in Dates \/ x \notin Marks
         /\ Unmarked(t, x) \in Dates /\ Recorded(t, x) \in Dates
         /\ l \in SweepLanes /\ RemovalLast(t) => RemovalLast(MarkedNow(t, l))
         /\ RemovalLast(t) => RemovalLast(Unmarked(t, l))
         /\ RemovalLast(MarkedNow(t, "removal"))
<1>1. l # "removal" /\ l # "evidence" /\ "removal" \in Marks
  BY ConstantsAssumption DEF Marks
<1>2. \A k \in SweepLanes : k # "removal" /\ k # "evidence" /\ k \in Marks
  BY ConstantsAssumption DEF Lanes, Marks
<1>3. MarkedNow(t, x) \in Dates \/ x \notin Marks
  BY DEF MarkedNow, Dates
<1>4. Unmarked(t, x) \in Dates
  BY DEF Unmarked, Dates
<1>5. Recorded(t, x) \in Dates
  BY DEF Recorded, Dates
<1>6. ASSUME l \in SweepLanes, RemovalLast(t) PROVE RemovalLast(MarkedNow(t, l))
  BY <1>1, <1>2, <1>6 DEF MarkedNow, RemovalLast
<1>7. ASSUME RemovalLast(t) PROVE RemovalLast(Unmarked(t, l))
  BY <1>1, <1>2, <1>7 DEF Unmarked, RemovalLast
<1>8. RemovalLast(MarkedNow(t, "removal"))
  BY <1>1, <1>2 DEF MarkedNow, RemovalLast
<1> QED
  BY <1>3, <1>4, <1>5, <1>6, <1>7, <1>8

\* Only a lane and dates of rechecks change.
LEMMA LaneAndDatesKeep ==
  ASSUME IInv, UNCHANGED <<orderVars, holds, finding, delivery, evidence, moneyVars,
                           reuse>>,
         later' \in [Orders -> Dates], \A p \in Orders : RemovalAgrees(p)',
         NEW l \in Lanes, NEW r \in LaneRows, lane' = [lane EXCEPT ![l] = r],
         ReadPast(l)'
  PROVE  IInv' /\ Quiet
<1>1. /\ order' = order /\ dispute' = dispute /\ handoff' = handoff
      /\ holds' = holds /\ finding' = finding /\ delivery' = delivery
      /\ evidence' = evidence /\ settlement' = settlement /\ refund' = refund
      /\ revenue' = revenue /\ balance' = balance /\ reuse' = reuse
  BY DEF orderVars, moneyVars
<1>2. lane \in [Lanes -> LaneRows]
  BY DEF IInv, TypeOK, LaneRows
<1>3. TypeOK'
  <2>1. lane' \in [Lanes -> LaneRows]
    BY <1>2
  <2> QED BY <2>1, <1>1 DEF IInv, TypeOK, LaneRows, Dates
<1>4. ASSUME NEW p \in Orders
      PROVE  OrderInv(p)' /\ Earned(p)' = Earned(p) /\ KeepsMoney(p)
  BY <1>1, SameRowsKeep DEF IInv, SameRows
<1>5. ASSUME NEW k \in Lanes PROVE ReadPast(k)'
  <2>1. CASE k = l
    BY <2>1
  <2>2. CASE k # l
    <3>1. lane'[k] = lane[k]
      BY <1>2, <2>2
    <3>2. ReadPast(k)
      BY DEF IInv
    <3> QED BY <1>1, <3>1, <3>2 DEF ReadPast, Row, At
  <2> QED BY <2>1, <2>2
<1>6. BooksBalance'
  BY <1>1, <1>4, BooksStay DEF IInv
<1>7. Quiet
  BY <1>1, <1>4 DEF Quiet
<1> QED
  BY <1>3, <1>4, <1>5, <1>6, <1>7 DEF IInv

\* Only a lane changes.
LEMMA LaneOnlyKeeps ==
  ASSUME IInv, UNCHANGED <<orderVars, deliveryVars, moneyVars, reuse>>,
         NEW l \in Lanes, NEW r \in LaneRows, lane' = [lane EXCEPT ![l] = r],
         ReadPast(l)'
  PROVE  IInv' /\ Quiet
<1>1. /\ UNCHANGED <<orderVars, holds, finding, delivery, evidence, moneyVars, reuse>>
      /\ later' = later
  BY DEF deliveryVars
<1>2. later' \in [Orders -> Dates]
  BY <1>1 DEF IInv, TypeOK, Dates
<1>3. \A p \in Orders : RemovalAgrees(p)'
  BY <1>1 DEF IInv, OrderInv, EvidenceAgrees, RemovalAgrees
<1> QED
  BY <1>1, <1>2, <1>3, LaneAndDatesKeep

\* A request or sweep has read a settlement row.
LEMMA ReadKeeps ==
  ASSUME IInv, NEW l \in Lanes, NEW job \in RowJobs, NEW o \in Orders,
         NEW n \in Rows, NEW statuses \in SUBSET (Unreleased \cup {"CANCELLED"}),
         job # "cancel" => statuses \subseteq Unreleased,
         Read(l, job, o, n, statuses)
  PROVE  IInv' /\ Quiet
<1> DEFINE r == [Idle EXCEPT !.job = job, !.order = o, !.row = n,
                    !.status = settlement[o][n].status,
                    !.version = settlement[o][n].version]
<1>1. /\ settlement[o][n].status \in Unreleased \cup {"CANCELLED"}
      /\ job # "cancel" => settlement[o][n].status \in Unreleased
      /\ settlement[o][n].version \in Nat
  BY DEF Read, IInv, TypeOK
<1>2. /\ r.job = job /\ r.order = o /\ r.row = n
      /\ r.status = settlement[o][n].status
      /\ r.version = settlement[o][n].version
  BY DEF Idle
<1>3. r \in LaneRows
  BY <1>1 DEF Idle, LaneRows, Jobs, SettlementStatuses
<1>4. lane' = [lane EXCEPT ![l] = r]
      /\ UNCHANGED <<orderVars, deliveryVars, moneyVars, reuse>>
  BY DEF Read
<1>5. lane'[l] = r /\ settlement' = settlement
  BY <1>4 DEF IInv, TypeOK, moneyVars
<1> HIDE DEF r
<1>6. ReadPast(l)'
  BY <1>1, <1>2, <1>5
  DEF ReadPast, Row, At, RowJobs, FetchJobs, Unreleased, Reviewable
<1> QED
  BY <1>3, <1>4, <1>6, LaneOnlyKeeps

LEMMA RowReadsKeep ==
  ASSUME IInv, NEW l \in Lanes, NEW o \in Orders, NEW n \in Rows,
         \/ ReadCustomerApprove(l, o, n) \/ ReadAdminApprove(l, o, n)
         \/ ReadForceApprove(l, o, n) \/ ReadCancel(l, o, n)
         \/ ReadReturn(l, o, n) \/ SelectApprove(l, o, n)
         \/ SelectRelease(l, o, n)
  PROVE  IInv' /\ Quiet
<1>1. /\ Reviewable \in SUBSET (Unreleased \cup {"CANCELLED"})
      /\ {"CUSTOMER_APPROVED"} \in SUBSET (Unreleased \cup {"CANCELLED"})
      /\ Unreleased \in SUBSET (Unreleased \cup {"CANCELLED"})
      /\ Unreleased \cup {"CANCELLED"} \in SUBSET (Unreleased \cup {"CANCELLED"})
  BY DEF Unreleased
<1>2. PICK job \in RowJobs, statuses \in SUBSET (Unreleased \cup {"CANCELLED"}) :
        /\ job # "cancel" => statuses \subseteq Unreleased
        /\ Read(l, job, o, n, statuses)
  BY <1>1 DEF Unreleased, ReadCustomerApprove, ReadAdminApprove, ReadForceApprove, ReadCancel,
       ReadReturn, SelectApprove, SelectRelease, RowJobs
<1> QED
  BY <1>2, ReadKeeps

\* A request or sweep has read an order.
LEMMA OrderReadsKeep ==
  ASSUME IInv, NEW l \in Lanes, NEW o \in Orders,
         ReadCreate(l, o) \/ ReadDispute(l, o) \/ SelectAccept(l, o)
  PROVE  IInv' /\ Quiet
<1>1. PICK job \in OrderJobs, status \in OrderStatuses :
        /\ lane' = [lane EXCEPT ![l] =
             [Idle EXCEPT !.job = job, !.order = o, !.status = status,
                          !.version = order[o].version]]
        /\ UNCHANGED <<orderVars, deliveryVars, moneyVars, reuse>>
  <2>1. order[o].status \in OrderStatuses
    BY DEF IInv, TypeOK
  <2>2. "VERIFIED" \in OrderStatuses /\ "DELIVERED" \in OrderStatuses
    BY DEF OrderStatuses
  <2> QED
    BY <2>1, <2>2 DEF ReadCreate, ReadDispute, SelectAccept, OrderJobs
<1> DEFINE r == [Idle EXCEPT !.job = job, !.order = o, !.status = status,
                             !.version = order[o].version]
<1>2. r.job = job /\ r.order = o
  BY DEF Idle
<1>3. r \in LaneRows
  BY DEF Idle, LaneRows, Jobs, IInv, TypeOK
<1>4. lane'[l] = r
  BY <1>1 DEF IInv, TypeOK
<1> HIDE DEF r
<1>5. ReadPast(l)'
  BY <1>2, <1>4 DEF ReadPast, RowJobs, OrderJobs, FetchJobs
<1>6. lane' = [lane EXCEPT ![l] = r]
  BY <1>1 DEF r
<1> QED
  BY <1>1, <1>3, <1>5, <1>6, LaneOnlyKeeps

\* A recheck starts, its page has answered, or a request or sweep gives up.
LEMMA StartRecheckKeeps ==
  ASSUME IInv, NEW l \in SweepLanes, NEW o \in Orders, StartRecheck(l, o)
  PROVE  IInv' /\ Quiet
<1> DEFINE r == [Idle EXCEPT !.job = "recheck", !.order = o]
<1>1. /\ lane' = [lane EXCEPT ![l] = r]
      /\ later' = [later EXCEPT ![o] = MarkedNow(later[o], l)]
      /\ UNCHANGED <<orderVars, holds, finding, delivery, evidence, moneyVars, reuse>>
  BY DEF StartRecheck
<1>2. r \in LaneRows /\ r.job = "recheck" /\ r.order = o
  BY DEF Idle, LaneRows, Jobs
<1>3. l \in Lanes /\ l \in Marks /\ later \in [Orders -> Dates]
  BY DEF Lanes, Marks, IInv, TypeOK, Dates
<1>4. lane'[l] = r
  BY <1>1, <1>3 DEF IInv, TypeOK
<1> HIDE DEF r
<1>5. ReadPast(l)'
  BY <1>2, <1>4 DEF ReadPast, RowJobs, OrderJobs, FetchJobs
<1>6. /\ MarkedNow(later[o], l) \in Dates
      /\ RemovalLast(later[o]) => RemovalLast(MarkedNow(later[o], l))
  BY <1>3, DatesKeep
<1>7. /\ later' \in [Orders -> Dates] /\ later'[o] = MarkedNow(later[o], l)
      /\ \A p \in Orders : p # o => later'[p] = later[p]
  BY <1>1, <1>3, <1>6
<1>8. \A p \in Orders : RemovalAgrees(p)'
  BY <1>1, <1>6, <1>7 DEF IInv, OrderInv, EvidenceAgrees, RemovalAgrees
<1> QED
  BY <1>1, <1>2, <1>3, <1>5, <1>7, <1>8, LaneAndDatesKeep

LEMMA ReadRecheckKeeps ==
  ASSUME IInv, NEW l \in Lanes, ReadRecheck(l)
  PROVE  IInv' /\ Quiet
<1>1. PICK o \in Orders : o = At(l)
  BY DEF ReadRecheck, Job, IInv, ReadPast, At
<1> DEFINE r == [lane[l] EXCEPT !.job = "fetch", !.version = delivery[o].version,
                    !.flag = delivery[o].state = "REJECTED"]
<1>2. /\ lane' = [lane EXCEPT ![l] = r]
      /\ UNCHANGED <<orderVars, deliveryVars, moneyVars, reuse>>
  BY <1>1 DEF ReadRecheck
<1>3. delivery[o].version \in Nat /\ lane[l] \in LaneRows /\ lane[l].order = o
  BY <1>1 DEF IInv, TypeOK, LaneRows, At
<1>4. (delivery[o].state = "REJECTED") \in BOOLEAN
  OBVIOUS
<1>5. r \in LaneRows
  BY <1>3, <1>4 DEF LaneRows, Jobs, FetchJobs
<1>6. /\ r.job = "fetch" /\ r.order = o /\ r.version = delivery[o].version
      /\ r.flag = (delivery[o].state = "REJECTED")
  BY <1>3 DEF LaneRows
<1>7. lane'[l] = r /\ delivery' = delivery
  BY <1>2 DEF IInv, TypeOK, deliveryVars
<1> HIDE DEF r
<1>8. ReadPast(l)'
  <2>1. lane'[l].version <= delivery'[o].version
    BY <1>3, <1>6, <1>7
  <2> QED
    BY <1>6, <1>7, <2>1 DEF ReadPast, At, RowJobs, FetchJobs
<1> QED
  BY <1>2, <1>5, <1>8, LaneOnlyKeeps

LEMMA FetchKeeps ==
  ASSUME IInv, NEW l \in Lanes, FetchPresent(l) \/ FetchRemoved(l)
  PROVE  IInv' /\ Quiet
<1>1. UNCHANGED <<orderVars, deliveryVars, moneyVars, reuse>>
  BY DEF FetchPresent, FetchRemoved
<1>2. lane[l] \in LaneRows /\ ReadPast(l)
  BY DEF IInv, TypeOK, LaneRows
<1>3. PICK job \in FetchJobs : /\ Job(l, "fetch")
                              /\ lane' = [lane EXCEPT ![l].job = job]
  BY DEF FetchPresent, FetchRemoved, FetchJobs
<1> DEFINE r == [lane[l] EXCEPT !.job = job]
<1>4. r \in LaneRows /\ r.job = job /\ r.order = lane[l].order
      /\ r.version = lane[l].version /\ r.flag = lane[l].flag
  BY <1>2 DEF LaneRows, Jobs
<1>5. lane' = [lane EXCEPT ![l] = r] /\ lane'[l] = r
  BY <1>3 DEF IInv, TypeOK
<1>6. delivery' = delivery
  BY <1>1 DEF deliveryVars
<1> HIDE DEF r
<1>7. ReadPast(l)'
  BY <1>2, <1>3, <1>4, <1>5, <1>6 DEF ReadPast, At, Job, RowJobs, FetchJobs
<1> QED
  BY <1>1, <1>4, <1>5, <1>7, LaneOnlyKeeps

LEMMA AbandonKeeps ==
  ASSUME IInv, NEW l \in Lanes, Abandon(l)
  PROVE  IInv' /\ Quiet
<1>1. /\ lane' = [lane EXCEPT ![l] = Idle]
      /\ later' = [o \in Orders |-> Unmarked(later[o], l)]
      /\ UNCHANGED <<orderVars, holds, finding, delivery, evidence, moneyVars, reuse>>
  BY DEF Abandon, Rest
<1>2. Idle \in LaneRows
  BY DEF Idle, LaneRows, Jobs
<1>3. lane'[l] = Idle
  BY <1>1 DEF IInv, TypeOK
<1>4. ReadPast(l)'
  BY <1>3 DEF ReadPast, Idle, RowJobs, OrderJobs, FetchJobs
<1>5. \A p \in Orders : later[p] \in Dates
  BY DEF IInv, TypeOK, Dates
<1>6. \A p \in Orders : /\ Unmarked(later[p], l) \in Dates
                        /\ RemovalLast(later[p]) => RemovalLast(Unmarked(later[p], l))
  BY <1>5, DatesKeep
<1>7. later' \in [Orders -> Dates]
  BY <1>1, <1>6
<1>8. \A p \in Orders : RemovalAgrees(p)'
  BY <1>1, <1>6 DEF IInv, OrderInv, EvidenceAgrees, RemovalAgrees
<1> QED
  BY <1>1, <1>2, <1>4, <1>7, <1>8, LaneAndDatesKeep

-----------------------------------------------------------------------------
(* Steps of one order *)

\* A lane that comes to rest leaves the others as they are.
LEMMA RestLanes ==
  ASSUME TypeOK, NEW l \in Lanes, Rest(l)
  PROVE  /\ lane' \in [Lanes -> LaneRows]
         /\ \A k \in Lanes : lane'[k] = lane[k] \/ lane'[k] = Idle
<1>1. lane \in [Lanes -> LaneRows] /\ Idle \in LaneRows
  BY DEF TypeOK, LaneRows, Idle, Jobs
<1> QED
  BY <1>1 DEF Rest

\* A step of one order keeps the invariant when it keeps the order's part, the
\* books and the types.
LEMMA OneOrderKeeps ==
  ASSUME IInv, TypeOK', NEW o \in Orders, OrderInv(o)',
         \A p \in Orders : p # o => Untouched(p),
         \A n \in Rows : RowMoves(settlement[o][n], settlement'[o][n]),
         DeliveryMoves(delivery[o], delivery'[o]),
         \A l \in Lanes : lane'[l] = lane[l] \/ lane'[l] = Idle,
         BooksBalance'
  PROVE  IInv'
<1>1. \A p \in Orders : OrderInv(p)'
  BY UntouchedKeeps DEF IInv
<1>2. \A l \in Lanes : ReadPast(l)'
  <2>1. \A p \in Orders, n \in Rows : RowMoves(settlement[p][n], settlement'[p][n])
    BY DEF Untouched, SameRows, RowMoves
  <2>2. \A p \in Orders : DeliveryMoves(delivery[p], delivery'[p])
    BY DEF Untouched, SameRows, DeliveryMoves
  <2>3. /\ settlement' \in [Orders -> [Rows -> SettlementRows]]
        /\ delivery' \in [Orders -> [state : {"VERIFIED", "REJECTED"}, version : Nat]]
    BY DEF TypeOK, SettlementRows
  <2> QED
    BY <2>1, <2>2, <2>3, LanesKeep DEF IInv
<1> QED
  BY <1>1, <1>2 DEF IInv

\* settlement.updateMany changes one row and its version.
LEMMA SettledRow ==
  ASSUME TypeOK, NEW l \in Lanes, At(l) \in Orders, lane[l].row \in Rows,
         NEW status \in SettlementStatuses \ {"ABSENT"}, NEW steps \in Nat \ {0},
         Settled(l, status, steps)
  PROVE  LET o == At(l)
             n == lane[l].row
         IN  /\ settlement' \in [Orders -> [Rows -> SettlementRows]]
             /\ \A p \in Orders : p # o => settlement'[p] = settlement[p]
             /\ \A m \in Rows : m # n => settlement'[o][m] = settlement[o][m]
             /\ settlement'[o][n].status = status
             /\ \A m \in Rows : RowMoves(settlement[o][m], settlement'[o][m])
<1> DEFINE o == At(l)
           n == lane[l].row
           r == settlement[o][n]
           s == [r EXCEPT !.status = status, !.version = r.version + steps]
<1>1. settlement \in [Orders -> [Rows -> SettlementRows]]
  BY DEF TypeOK, SettlementRows
<1>2. r \in SettlementRows
  BY <1>1
<1>3. s \in SettlementRows /\ s.status = status /\ s.version > r.version
  <2>1. r.version \in Nat /\ r.version + steps \in Nat
        /\ r.version + steps > r.version
    <3> HIDE DEF r
    <3> QED BY <1>2 DEF SettlementRows
  <2>2. s.status = status /\ s.version = r.version + steps
    BY <1>2 DEF SettlementRows
  <2>3. s \in SettlementRows
    <3> HIDE DEF r
    <3> QED BY <1>2, <2>1 DEF SettlementRows
  <2> QED BY <2>1, <2>2, <2>3
<1>4. settlement' = [settlement EXCEPT ![o] = [settlement[o] EXCEPT ![n] = s]]
  BY DEF Settled
<1> HIDE DEF o, n, s
<1>5. o \in Orders /\ n \in Rows
  BY DEF o, n
<1>6. settlement'[o][n] = s /\ \A m \in Rows : m # n => settlement'[o][m] = settlement[o][m]
  BY <1>1, <1>4, <1>5
<1>7. /\ settlement' \in [Orders -> [Rows -> SettlementRows]]
      /\ \A p \in Orders : p # o => settlement'[p] = settlement[p]
  BY <1>1, <1>3, <1>4, <1>5
<1>8. \A m \in Rows : RowMoves(settlement[o][m], settlement'[o][m])
  <2>1. RowMoves(settlement[o][n], settlement'[o][n])
    BY <1>3, <1>6 DEF RowMoves, o, n
  <2> QED
    BY <2>1, <1>6 DEF RowMoves
<1> QED
  BY <1>3, <1>6, <1>7, <1>8 DEF o, n

\* Only settlement rows of one order change, none becoming or ceasing to be
\* released.
LEMMA SettlementOnlyKeeps ==
  ASSUME IInv, NEW o \in Orders, NEW l \in Lanes, Rest(l), OnlySettlement,
         settlement' \in [Orders -> [Rows -> SettlementRows]],
         \A p \in Orders : p # o => settlement'[p] = settlement[p],
         \A n \in Rows : RowMoves(settlement[o][n], settlement'[o][n]),
         Released(o)' <=> Released(o),
         \A m, n \in Active(o)' : m = n,
         Active(o)' # {} => Active(o) # {} \/ order[o].status = "DELIVERED"
  PROVE  IInv' /\ Quiet
<1>1. /\ order' = order /\ dispute' = dispute /\ handoff' = handoff
      /\ holds' = holds /\ finding' = finding /\ delivery' = delivery
      /\ evidence' = evidence /\ later' = later /\ refund' = refund
      /\ revenue' = revenue /\ balance' = balance /\ reuse' = reuse
  BY DEF OnlySettlement, orderVars, deliveryVars
<1>2. TypeOK
  BY DEF IInv
<1>3. /\ lane' \in [Lanes -> LaneRows]
      /\ \A k \in Lanes : lane'[k] = lane[k] \/ lane'[k] = Idle
  BY <1>2, RestLanes
<1>4. TypeOK'
  BY <1>1, <1>2, <1>3 DEF TypeOK, LaneRows, SettlementRows
<1>5. \A p \in Orders : p # o => Untouched(p)
  BY <1>1 DEF Untouched, SameRows
<1>6. Publisher(o)' = Publisher(o) /\ Stage(o)' = Stage(o)
  BY <1>1 DEF Publisher, Stage
<1>7. OrderInv(o)
  BY DEF IInv
<1>8. SettlementAgrees(o)'
  BY <1>1, <1>6, <1>7 DEF OrderInv, SettlementAgrees, Stage
<1>9. OrderInv(o)'
  BY <1>1, <1>7, <1>8
  DEF OrderInv, DisputeAgrees, FraudAgrees, EvidenceAgrees, RemovalAgrees
<1>10. ASSUME NEW p \in Orders PROVE Earned(p)' = Earned(p)
  <2>1. Released(p)' <=> Released(p)
    BY <1>5 DEF Released, Untouched, SameRows
  <2> QED BY <1>1, <2>1 DEF Earned
<1>11. BooksBalance'
  BY <1>1, <1>10, BooksStay DEF IInv
<1>12. DeliveryMoves(delivery[o], delivery'[o])
  BY <1>1 DEF DeliveryMoves
<1>13. Quiet
  BY <1>1 DEF Quiet, KeepsMoney, Released
<1> QED
  BY <1>3, <1>4, <1>5, <1>9, <1>11, <1>12, <1>13, OneOrderKeeps

\* Approvals and the return to review move an unreleased row.
LEMMA ApprovalsKeep ==
  ASSUME IInv, NEW l \in Lanes,
         Approve(l) \/ AutoApprove(l) \/ ReturnToReview(l)
  PROVE  IInv' /\ Quiet
<1>1. PICK status \in {"CUSTOMER_APPROVED", "UNDER_REVIEW"} :
        /\ lane[l].job \in RowJobs \ {"cancel"} /\ Same(l)
        /\ Settled(l, status, 1) /\ Rest(l) /\ OnlySettlement
  BY DEF Approve, AutoApprove, ReturnToReview, Job, RowJobs
<1>2. PICK o \in Orders, n \in Rows :
        /\ o = At(l) /\ n = lane[l].row /\ TypeOK
        /\ settlement[o][n].status \in Unreleased
  BY <1>1 DEF IInv, ReadPast, Same, Row, At
<1>3. status \in Unreleased /\ status \in SettlementStatuses \ {"ABSENT"}
  BY DEF Unreleased, Reviewable, SettlementStatuses
<1>4. /\ settlement' \in [Orders -> [Rows -> SettlementRows]]
      /\ \A p \in Orders : p # o => settlement'[p] = settlement[p]
      /\ \A m \in Rows : m # n => settlement'[o][m] = settlement[o][m]
      /\ settlement'[o][n].status = status
      /\ \A m \in Rows : RowMoves(settlement[o][m], settlement'[o][m])
  BY <1>1, <1>2, <1>3, SettledRow
<1>5. Active(o)' = Active(o)
  BY <1>2, <1>3, <1>4 DEF Active, Unreleased, Reviewable
<1>6. Released(o)' <=> Released(o)
  BY <1>2, <1>3, <1>4 DEF Released, Unreleased, Reviewable
<1>7. \A k, m \in Active(o)' : k = m
  BY <1>2, <1>5 DEF IInv, OrderInv, SettlementAgrees
<1> QED
  BY <1>1, <1>2, <1>4, <1>5, <1>6, <1>7, SettlementOnlyKeeps

\* A cancellation that compares the version alone still meets the status it read.
LEMMA CancelSettlementKeeps ==
  ASSUME IInv, NEW l \in Lanes, CancelSettlement(l)
  PROVE  IInv' /\ Quiet
<1>1. /\ lane[l].job \in RowJobs /\ Row(l).version = lane[l].version
      /\ Settled(l, "CANCELLED", 1) /\ Rest(l) /\ OnlySettlement
  BY DEF CancelSettlement, Job, RowJobs
<1>2. PICK o \in Orders, n \in Rows :
        /\ o = At(l) /\ n = lane[l].row /\ TypeOK
        /\ settlement[o][n].status \in Unreleased \cup {"CANCELLED"}
  BY <1>1, SMTT(30) DEF IInv, ReadPast, Row, At
<1>3. "CANCELLED" \in SettlementStatuses \ {"ABSENT"}
  BY DEF SettlementStatuses
<1>4. /\ settlement' \in [Orders -> [Rows -> SettlementRows]]
      /\ \A p \in Orders : p # o => settlement'[p] = settlement[p]
      /\ \A m \in Rows : m # n => settlement'[o][m] = settlement[o][m]
      /\ settlement'[o][n].status = "CANCELLED"
      /\ \A m \in Rows : RowMoves(settlement[o][m], settlement'[o][m])
  BY <1>1, <1>2, <1>3, SettledRow
<1>5. Active(o)' \subseteq Active(o)
  BY <1>2, <1>4 DEF Active
<1>6. Released(o)' <=> Released(o)
  BY <1>2, <1>4 DEF Released, Unreleased, Reviewable
<1>7. \A k, m \in Active(o)' : k = m
  BY <1>2, <1>5 DEF IInv, OrderInv, SettlementAgrees
<1> QED
  BY <1>1, <1>2, <1>4, <1>5, <1>6, <1>7, SettlementOnlyKeeps

\* A new settlement row is the only active one.
LEMMA NewSettlementRow ==
  ASSUME TypeOK, NEW o \in Orders, NewSettlement(o)
  PROVE  /\ settlement' \in [Orders -> [Rows -> SettlementRows]]
         /\ \A p \in Orders : p # o => settlement'[p] = settlement[p]
         /\ \A m \in Rows : RowMoves(settlement[o][m], settlement'[o][m])
         /\ \A k, m \in Active(o)' : k = m
         /\ ~Released(o) /\ ~Released(o)'
<1>1. PICK n \in Rows, policy \in Policies(o) :
        /\ settlement[o][n].status = "ABSENT"
        /\ settlement' = [settlement EXCEPT ![o][n] =
             [status |-> "PENDING", version |-> 0, policy |-> policy]]
  BY DEF NewSettlement
<1> DEFINE s == [status |-> "PENDING", version |-> 0, policy |-> policy]
<1>2. settlement \in [Orders -> [Rows -> SettlementRows]]
  BY DEF TypeOK, SettlementRows
<1>3. s \in SettlementRows /\ s.status = "PENDING"
  BY DEF SettlementRows, SettlementStatuses, Unreleased, Reviewable, Policies
<1>4. settlement' = [settlement EXCEPT ![o] = [settlement[o] EXCEPT ![n] = s]]
  BY <1>1
<1> HIDE DEF s
<1>5. /\ settlement' \in [Orders -> [Rows -> SettlementRows]]
      /\ \A p \in Orders : p # o => settlement'[p] = settlement[p]
      /\ \A m \in Rows : m # n => settlement'[o][m] = settlement[o][m]
      /\ settlement'[o][n] = s
  BY <1>2, <1>3, <1>4
<1>6. \A m \in Rows : RowMoves(settlement[o][m], settlement'[o][m])
  BY <1>1, <1>5 DEF RowMoves
<1>7. \A m \in Rows : settlement[o][m].status \in {"ABSENT", "CANCELLED"}
  BY DEF NewSettlement, Active
<1>8. \A k, m \in Active(o)' : k = m
  BY <1>5, <1>7 DEF Active
<1>9. ~Released(o) /\ ~Released(o)'
  BY <1>3, <1>5, <1>7 DEF Released
<1> QED
  BY <1>5, <1>6, <1>8, <1>9

LEMMA CreateSettlementKeeps ==
  ASSUME IInv, NEW l \in Lanes, CreateSettlement(l)
  PROVE  IInv' /\ Quiet
<1>1. PICK o \in Orders : o = At(l) /\ TypeOK
  BY DEF CreateSettlement, Job, IInv, ReadPast, At, OrderJobs
<1>2. /\ NewSettlement(o) /\ order[o].status = "DELIVERED" /\ Rest(l)
      /\ OnlySettlement
  BY <1>1 DEF CreateSettlement, Eligible
<1> QED
  BY <1>1, <1>2, NewSettlementRow, SettlementOnlyKeeps

-----------------------------------------------------------------------------
(* Releases and acceptance *)

\* One order earns: a release to its publisher, or a platform order completes.
Earns(o) ==
  /\ \A p \in Orders : p # o => KeepsMoney(p)
  /\ order'[o].channel = order[o].channel
  /\ order[o].status # "REFUNDED" /\ order'[o].status # "REFUNDED"
  /\ refund'[o] = refund[o]
  /\ finding[o] = {}
  /\ \/ /\ Publisher(o)
        /\ ~Released(o) /\ Released(o)'
        /\ revenue'[o] = revenue[o]
        /\ balance'.lifetime = balance.lifetime + Net(o)
        /\ Eligible(o)
        /\ \E n \in Active(o) : settlement[o][n].status = "CUSTOMER_APPROVED"
     \/ /\ ~Publisher(o)
        /\ ~Released(o) /\ ~Released(o)'
        /\ revenue[o] # "RECOGNIZED" /\ revenue'[o] = "RECOGNIZED"
        /\ balance'.lifetime = balance.lifetime

\* An order row is replaced by one of the same channel.
LEMMA OrderRow ==
  ASSUME TypeOK, NEW o \in Orders, NEW r \in OrderRows,
         order' = [order EXCEPT ![o] = r]
  PROVE  /\ order' \in [Orders -> OrderRows]
         /\ order'[o] = r
         /\ \A p \in Orders : p # o => order'[p] = order[p]
<1>1. order \in [Orders -> OrderRows]
  BY DEF TypeOK, OrderRows
<1> QED
  BY <1>1

\* Moved changes the status and the version of an order.
LEMMA MovedRow ==
  ASSUME TypeOK, NEW o \in Orders, NEW status \in OrderStatuses,
         order' = Moved(o, status)
  PROVE  /\ order' \in [Orders -> OrderRows]
         /\ order'[o].status = status
         /\ order'[o].channel = order[o].channel
         /\ order'[o].verifyMethod = order[o].verifyMethod
         /\ \A p \in Orders : p # o => order'[p] = order[p]
<1> DEFINE r == [order[o] EXCEPT !.status = status, !.version = order[o].version + 1]
<1>1. order[o] \in OrderRows
  BY DEF TypeOK, OrderRows
<1>2. r \in OrderRows /\ r.status = status /\ r.channel = order[o].channel
      /\ r.verifyMethod = order[o].verifyMethod
  <2>1. order[o].version + 1 \in Nat
    BY <1>1 DEF OrderRows
  <2> QED BY <1>1, <2>1 DEF OrderRows
<1>3. order' = [order EXCEPT ![o] = r]
  BY DEF Moved
<1> HIDE DEF r
<1> QED
  BY <1>2, <1>3, OrderRow

\* What a balance is made of.
LEMMA BalanceFields ==
  ASSUME TypeOK
  PROVE  /\ balance.withdrawable \in Nat /\ balance.debt \in Nat
         /\ balance.lifetime \in Nat /\ balance.withdrawn \in Nat
         /\ balance = [withdrawable |-> balance.withdrawable, debt |-> balance.debt,
                       lifetime |-> balance.lifetime, withdrawn |-> balance.withdrawn]
<1>1. balance \in Balances
  BY DEF TypeOK, Balances
<1> QED
  BY <1>1 DEF Balances

\* Both sides of the books move by the same amount.
LEMMA BooksArithmetic ==
  ASSUME NEW w \in Int, NEW d \in Int, NEW t \in Int, NEW e \in Int,
         NEW x \in Int, NEW y \in Int, NEW amount \in Int,
         w + t - d = e, x - y = w - d + amount
  PROVE  x + t - y = e + amount
  OBVIOUS

\* A release completes a delivered publisher order and books its earning.
LEMMA ReleaseKeeps ==
  ASSUME IInv, NEW l \in Lanes, NEW o \in Orders, NEW n \in Rows,
         o = At(l), n = lane[l].row,
         Eligible(o), settlement[o][n].status = "CUSTOMER_APPROVED",
         NEW steps \in Nat \ {0}, Settled(l, "RELEASED", steps), Rest(l),
         order' \in [Orders -> OrderRows], order'[o].status = "COMPLETED",
         order'[o].channel = order[o].channel,
         order'[o].verifyMethod = order[o].verifyMethod,
         \A p \in Orders : p # o => order'[p] = order[p],
         balance' = Credited(balance, Net(o)),
         UNCHANGED <<dispute, handoff, deliveryVars, refund, revenue, reuse>>
  PROVE  IInv' /\ Earns(o)
<1>1. /\ dispute' = dispute /\ handoff' = handoff
      /\ holds' = holds /\ finding' = finding /\ delivery' = delivery
      /\ evidence' = evidence /\ later' = later /\ refund' = refund
      /\ revenue' = revenue /\ reuse' = reuse
  BY DEF deliveryVars
<1>2. TypeOK /\ OrderInv(o)
  BY DEF IInv
<1>3. /\ lane' \in [Lanes -> LaneRows]
      /\ \A k \in Lanes : lane'[k] = lane[k] \/ lane'[k] = Idle
  BY <1>2, RestLanes
<1>4. "RELEASED" \in SettlementStatuses \ {"ABSENT"}
  BY DEF SettlementStatuses
<1>5. /\ settlement' \in [Orders -> [Rows -> SettlementRows]]
      /\ \A p \in Orders : p # o => settlement'[p] = settlement[p]
      /\ \A m \in Rows : m # n => settlement'[o][m] = settlement[o][m]
      /\ settlement'[o][n].status = "RELEASED"
      /\ \A m \in Rows : RowMoves(settlement[o][m], settlement'[o][m])
  BY <1>2, <1>4, SettledRow
<1>6. /\ order[o].status = "DELIVERED" /\ dispute[o].status \in SafeDispute
      /\ handoff[o] = "ABSENT" /\ finding[o] = {} /\ Stage(o) = "DELIVERED"
  BY <1>2 DEF Eligible, Unblocked, OrderInv, FraudAgrees, Stage
<1>7. Publisher(o) /\ ~Released(o) /\ n \in Active(o)
  BY <1>2, <1>6 DEF OrderInv, SettlementAgrees, Active
<1>8. /\ Active(o)' = Active(o) /\ Released(o)' /\ Publisher(o)'
      /\ Stage(o)' = "COMPLETED"
  BY <1>5, <1>7 DEF Active, Released, Publisher, Stage
<1>9. \A p \in Orders : p # o => Untouched(p)
  BY <1>1, <1>5 DEF Untouched, SameRows
<1>10. OrderInv(o)'
  <2>1. DisputeAgrees(o)'
    BY <1>1, <1>6 DEF DisputeAgrees, SafeDispute, OpenDispute
  <2>2. SettlementAgrees(o)'
    BY <1>1, <1>2, <1>6, <1>8 DEF OrderInv, SettlementAgrees
  <2>3. FraudAgrees(o)' /\ EvidenceAgrees(o)'
    BY <1>1, <1>2, <1>6 DEF OrderInv, FraudAgrees, EvidenceAgrees, RemovalAgrees
  <2> QED BY <2>1, <2>2, <2>3 DEF OrderInv
<1>11. /\ balance'.withdrawable \in Nat /\ balance'.debt \in Nat
       /\ balance'.withdrawn = balance.withdrawn
       /\ balance'.lifetime = balance.lifetime + Net(o)
       /\ balance'.withdrawable - balance'.debt
            = balance.withdrawable - balance.debt + Net(o)
       /\ balance' = [withdrawable |-> balance'.withdrawable, debt |-> balance'.debt,
                      lifetime |-> balance'.lifetime, withdrawn |-> balance'.withdrawn]
  BY <1>2, NetNat, BalanceFields, CreditedAdds
<1>12. \A p \in Orders : p # o => Earned(p)' = Earned(p) /\ KeepsMoney(p)
  BY <1>9, UntouchedKeeps DEF IInv
<1>13. \A p \in Orders : Earned(p) \in Nat /\ Earned(p)' \in Nat
  <2>1. \A p \in Orders : refund[p].comp \in Nat /\ refund'[p].comp \in Nat
    BY <1>1, <1>2 DEF TypeOK
  <2> QED BY <2>1, NetNat DEF Earned
<1>14. Earned(o)' = Earned(o) + Net(o)
  BY <1>1, <1>2, <1>7, <1>8, NetNat DEF Earned, TypeOK
<1>15. BooksBalance' /\ balance'.lifetime \in Nat
  <2>1. balance'.lifetime = balance.lifetime + Earned(o)' - Earned(o)
    BY <1>2, <1>11, <1>13, <1>14, NetNat, BalanceFields
  <2>2. balance'.withdrawable + balance'.withdrawn - balance'.debt = balance'.lifetime
    <3>1. balance.withdrawable + balance.withdrawn - balance.debt = balance.lifetime
      BY DEF IInv, BooksBalance
    <3>2. /\ Net(o) \in Nat /\ balance.withdrawable \in Nat /\ balance.debt \in Nat
          /\ balance.lifetime \in Nat /\ balance.withdrawn \in Nat
      BY <1>2, NetNat, BalanceFields
    <3>3. /\ balance'.withdrawable \in Nat /\ balance'.debt \in Nat
          /\ balance'.withdrawn = balance.withdrawn
          /\ balance'.lifetime = balance.lifetime + Net(o)
          /\ balance'.withdrawable - balance'.debt
               = balance.withdrawable - balance.debt + Net(o)
      BY <1>11
    <3>4. balance'.withdrawable + balance.withdrawn - balance'.debt
            = balance.lifetime + Net(o)
      <4>1. PICK amount \in Int : amount = Net(o)
        BY <3>2
      <4>2. balance'.withdrawable - balance'.debt
              = balance.withdrawable - balance.debt + amount
        BY <3>3, <4>1
      <4>3. /\ balance'.withdrawable \in Int /\ balance'.debt \in Int
            /\ balance.withdrawable \in Int /\ balance.debt \in Int
            /\ balance.lifetime \in Int /\ balance.withdrawn \in Int
        BY <3>2, <3>3
      <4>4. balance'.withdrawable + balance.withdrawn - balance'.debt
              = balance.lifetime + amount
        <5>1. PICK w \in Int, d \in Int, t \in Int, e \in Int, x \in Int, y \in Int :
                /\ w = balance.withdrawable /\ d = balance.debt
                /\ t = balance.withdrawn /\ e = balance.lifetime
                /\ x = balance'.withdrawable /\ y = balance'.debt
          BY <4>3, Zenon
        <5>2. w + t - d = e /\ x - y = w - d + amount
          BY <3>1, <4>2, <5>1
        <5>3. x + t - y = e + amount
          BY ONLY w \in Int, d \in Int, t \in Int, e \in Int, x \in Int,
                  y \in Int, amount \in Int, <5>2, SMT
        <5> QED BY <5>1, <5>3
      <4> QED BY <4>1, <4>4
    <3> QED BY <3>3, <3>4
  <2> QED BY <1>12, <1>13, <2>1, <2>2, BooksFollow DEF IInv
<1>16. TypeOK'
  <2>1. balance' \in Balances
    BY <1>2, <1>11, <1>15, BalanceFields DEF Balances
  <2> QED
    BY <1>1, <1>2, <1>3, <1>5, <2>1
    DEF TypeOK, OrderRows, LaneRows, SettlementRows, Balances
<1>17. DeliveryMoves(delivery[o], delivery'[o])
  BY <1>1 DEF DeliveryMoves
<1>18. IInv'
  BY <1>3, <1>5, <1>9, <1>10, <1>15, <1>16, <1>17, OneOrderKeeps
<1>19. Earns(o)
  BY <1>1, <1>6, <1>7, <1>8, <1>11, <1>12 DEF Earns
<1> QED
  BY <1>18, <1>19

LEMMA ReleasesKeep ==
  ASSUME IInv, NEW l \in Lanes, AdminRelease(l) \/ AutoRelease(l)
  PROVE  IInv' /\ \E o \in Orders : Earns(o)
<1>1. TypeOK /\ ReadPast(l)
  BY DEF IInv
<1>2. PICK o \in Orders, n \in Rows : o = At(l) /\ n = lane[l].row
  BY <1>1 DEF AdminRelease, AutoRelease, Job, ReadPast, At, RowJobs
<1>3. PICK steps \in Nat \ {0} :
        /\ Eligible(o) /\ settlement[o][n].status = "CUSTOMER_APPROVED"
        /\ Settled(l, "RELEASED", steps) /\ Rest(l)
        /\ balance' = Credited(balance, Net(o))
        /\ UNCHANGED <<dispute, handoff, deliveryVars, refund, revenue, reuse>>
  BY <1>2 DEF AdminRelease, AutoRelease, Row
<1>4. /\ order' \in [Orders -> OrderRows] /\ order'[o].status = "COMPLETED"
      /\ order'[o].channel = order[o].channel
      /\ order'[o].verifyMethod = order[o].verifyMethod
      /\ \A p \in Orders : p # o => order'[p] = order[p]
  <2>1. CASE AutoRelease(l)
    <3>1. order' = Moved(o, "COMPLETED") /\ "COMPLETED" \in OrderStatuses
      BY <1>2, <2>1 DEF AutoRelease, OrderStatuses
    <3> QED BY <3>1, <1>1, MovedRow
  <2>2. CASE AdminRelease(l)
    <3>1. PICK w \in {"none", "open", "over"} :
            order' = [order EXCEPT ![o].status = "COMPLETED",
                              ![o].version = @ + 1, ![o].warranty = w]
      BY <1>2, <2>2 DEF AdminRelease, Warranties
    <3> DEFINE r == [order[o] EXCEPT !.status = "COMPLETED",
                       !.version = order[o].version + 1, !.warranty = w]
    <3>2. order[o] \in OrderRows
      BY <1>1 DEF TypeOK, OrderRows
    <3>3. r \in OrderRows /\ r.status = "COMPLETED" /\ r.channel = order[o].channel
          /\ r.verifyMethod = order[o].verifyMethod
      <4>1. order[o].version + 1 \in Nat
        BY <3>2 DEF OrderRows
      <4> QED BY <3>2, <4>1 DEF OrderRows, OrderStatuses
    <3>4. order' = [order EXCEPT ![o] = r]
      BY <3>1
    <3> HIDE DEF r
    <3> QED BY <1>1, <3>3, <3>4, OrderRow
  <2> QED BY <2>1, <2>2
<1>5. IInv' /\ Earns(o)
  BY <1>2, <1>3, <1>4, ReleaseKeeps
<1> QED
  BY <1>5

\* Acceptance opens the settlement of a publisher order and completes a platform
\* order.
LEMMA AcceptKeeps ==
  ASSUME IInv, NEW o \in Orders, Accept(o),
         lane' \in [Lanes -> LaneRows],
         \A k \in Lanes : lane'[k] = lane[k] \/ lane'[k] = Idle,
         UNCHANGED <<dispute, handoff, deliveryVars, refund, balance, reuse>>
  PROVE  IInv' /\ (Quiet \/ Earns(o))
<1>1. /\ dispute' = dispute /\ handoff' = handoff
      /\ holds' = holds /\ finding' = finding /\ delivery' = delivery
      /\ evidence' = evidence /\ later' = later /\ refund' = refund
      /\ balance' = balance /\ reuse' = reuse
  BY DEF deliveryVars
<1>2. TypeOK /\ OrderInv(o)
  BY DEF IInv
<1>3. /\ order[o].status = "VERIFIED" /\ dispute[o].status \in SafeDispute
      /\ handoff[o] = "ABSENT" /\ finding[o] = {} /\ Stage(o) = "VERIFIED"
      /\ Active(o) = {}
  BY <1>2 DEF Accept, Unblocked, OrderInv, FraudAgrees, SettlementAgrees, Stage
<1>4. ~Released(o)
  BY <1>3 DEF Active, Released
<1>5. DeliveryMoves(delivery[o], delivery'[o])
  BY <1>1 DEF DeliveryMoves
<1>6. CASE Publisher(o)
  <2>1. order' = Moved(o, "DELIVERED") /\ NewSettlement(o) /\ revenue' = revenue
    BY <1>6 DEF Accept
  <2>2. /\ order' \in [Orders -> OrderRows] /\ order'[o].status = "DELIVERED"
        /\ order'[o].channel = order[o].channel
        /\ order'[o].verifyMethod = order[o].verifyMethod
        /\ \A p \in Orders : p # o => order'[p] = order[p]
    BY <1>2, <2>1, MovedRow DEF OrderStatuses
  <2>3. /\ settlement' \in [Orders -> [Rows -> SettlementRows]]
        /\ \A p \in Orders : p # o => settlement'[p] = settlement[p]
        /\ \A m \in Rows : RowMoves(settlement[o][m], settlement'[o][m])
        /\ \A k, m \in Active(o)' : k = m
        /\ ~Released(o)'
    BY <1>2, <2>1, NewSettlementRow
  <2>4. TypeOK'
    BY <1>1, <1>2, <2>1, <2>2, <2>3
    DEF TypeOK, OrderRows, LaneRows, SettlementRows
  <2>5. \A p \in Orders : p # o => Untouched(p)
    BY <1>1, <2>1, <2>2, <2>3 DEF Untouched, SameRows
  <2>6. Publisher(o)' /\ Stage(o)' = "DELIVERED"
    BY <1>6, <2>2 DEF Publisher, Stage
  <2>7. DisputeAgrees(o)' /\ FraudAgrees(o)' /\ EvidenceAgrees(o)'
    BY <1>1, <1>2, <1>3, <2>2
    DEF OrderInv, DisputeAgrees, FraudAgrees, EvidenceAgrees, RemovalAgrees,
        SafeDispute, OpenDispute
  <2>8. SettlementAgrees(o)'
    BY <1>1, <1>2, <1>3, <1>6, <2>1, <2>3, <2>6 DEF OrderInv, SettlementAgrees
  <2>9. KeepsMoney(o) /\ Earned(o)' = Earned(o)
    BY <1>1, <1>3, <1>4, <2>1, <2>2, <2>3 DEF KeepsMoney, Earned
  <2>10. \A p \in Orders : KeepsMoney(p) /\ Earned(p)' = Earned(p)
    BY <2>5, <2>9, UntouchedKeeps DEF IInv
  <2>11. BooksBalance'
    BY <1>1, <2>10, BooksStay DEF IInv
  <2>12. IInv'
    BY <1>5, <2>3, <2>4, <2>5, <2>7, <2>8, <2>11, OneOrderKeeps DEF OrderInv
  <2> QED BY <1>1, <2>10, <2>12 DEF Quiet
<1>7. CASE ~Publisher(o)
  <2>1. /\ order' = [order EXCEPT ![o].status = "COMPLETED",
             ![o].version = @ + 2,
             ![o].warranty = IF o \in Warranted THEN "open" ELSE "none"]
        /\ revenue' = [revenue EXCEPT ![o] = "RECOGNIZED"]
        /\ settlement' = settlement
    BY <1>7 DEF Accept
  <2>2. /\ order' \in [Orders -> OrderRows] /\ order'[o].status = "COMPLETED"
        /\ order'[o].channel = order[o].channel
        /\ order'[o].verifyMethod = order[o].verifyMethod
        /\ \A p \in Orders : p # o => order'[p] = order[p]
    <3> DEFINE w == IF o \in Warranted THEN "open" ELSE "none"
               r == [order[o] EXCEPT !.status = "COMPLETED",
                       !.version = order[o].version + 2, !.warranty = w]
    <3>1. order[o] \in OrderRows
      BY <1>2 DEF TypeOK, OrderRows
    <3>2. order[o].version + 2 \in Nat /\ w \in {"none", "open", "over"}
      BY <3>1 DEF OrderRows
    <3>3. r \in OrderRows /\ r.status = "COMPLETED" /\ r.channel = order[o].channel
          /\ r.verifyMethod = order[o].verifyMethod
      <4> HIDE DEF w
      <4> QED BY <3>1, <3>2 DEF OrderRows, OrderStatuses
    <3>4. order' = [order EXCEPT ![o] = r]
      BY <2>1
    <3> HIDE DEF r
    <3> QED BY <1>2, <3>3, <3>4, OrderRow
  <2>3. /\ revenue' \in [Orders -> {"NONE", "RECOGNIZED", "REVERSED"}]
        /\ revenue'[o] = "RECOGNIZED"
        /\ \A p \in Orders : p # o => revenue'[p] = revenue[p]
    BY <1>2, <2>1 DEF TypeOK
  <2>4. TypeOK'
    BY <1>1, <1>2, <2>1, <2>2, <2>3 DEF TypeOK, OrderRows, LaneRows
  <2>5. \A p \in Orders : p # o => Untouched(p)
    BY <1>1, <2>1, <2>2, <2>3 DEF Untouched, SameRows
  <2>6. ~Publisher(o)' /\ Stage(o)' = "COMPLETED" /\ Active(o)' = {} /\ ~Released(o)'
    BY <1>3, <1>4, <1>7, <2>1, <2>2 DEF Publisher, Stage, Active, Released
  <2>7. DisputeAgrees(o)' /\ FraudAgrees(o)' /\ EvidenceAgrees(o)'
    BY <1>1, <1>2, <1>3, <2>2
    DEF OrderInv, DisputeAgrees, FraudAgrees, EvidenceAgrees, RemovalAgrees,
        SafeDispute, OpenDispute
  <2>8. SettlementAgrees(o)'
    BY <1>1, <1>2, <1>3, <2>2, <2>3, <2>6 DEF OrderInv, SettlementAgrees
  <2>9. Earned(o)' = Earned(o)
    BY <1>1, <1>4, <2>6 DEF Earned
  <2>10. \A p \in Orders : Earned(p)' = Earned(p) /\ (p # o => KeepsMoney(p))
    BY <2>5, <2>9, UntouchedKeeps DEF IInv
  <2>11. BooksBalance'
    BY <1>1, <2>10, BooksStay DEF IInv
  <2>12. \A m \in Rows : RowMoves(settlement[o][m], settlement'[o][m])
    BY <2>1 DEF RowMoves
  <2>13. IInv'
    BY <1>5, <2>4, <2>5, <2>7, <2>8, <2>11, <2>12, OneOrderKeeps DEF OrderInv
  <2>14. revenue[o] # "RECOGNIZED"
    BY <1>2, <1>3, <1>7 DEF OrderInv, SettlementAgrees
  <2>15. Earns(o)
    BY <1>1, <1>3, <1>4, <1>7, <2>2, <2>3, <2>6, <2>10, <2>14 DEF Earns
  <2> QED BY <2>13, <2>15
<1> QED
  BY <1>6, <1>7

LEMMA AcceptsKeep ==
  ASSUME IInv,
         \/ \E l \in Lanes : AutoAccept(l)
         \/ \E o \in Orders : ConfirmDelivery(o)
  PROVE  IInv' /\ (Quiet \/ \E o \in Orders : Earns(o))
<1>1. TypeOK
  BY DEF IInv
<1>2. ASSUME NEW l \in Lanes, AutoAccept(l)
      PROVE  IInv' /\ (Quiet \/ \E o \in Orders : Earns(o))
  <2>1. PICK o \in Orders : o = At(l)
    BY <1>2 DEF AutoAccept, Job, IInv, ReadPast, At, OrderJobs
  <2>2. /\ Accept(o) /\ Rest(l)
        /\ UNCHANGED <<dispute, handoff, deliveryVars, refund, balance, reuse>>
    BY <1>2, <2>1 DEF AutoAccept
  <2> QED BY <1>1, <2>2, RestLanes, AcceptKeeps
<1>3. ASSUME NEW o \in Orders, ConfirmDelivery(o)
      PROVE  IInv' /\ (Quiet \/ \E p \in Orders : Earns(p))
  <2>1. /\ Accept(o) /\ lane' = lane
        /\ UNCHANGED <<dispute, handoff, deliveryVars, refund, balance, reuse>>
    BY <1>3 DEF ConfirmDelivery
  <2>2. lane' \in [Lanes -> LaneRows]
    BY <1>1, <2>1 DEF TypeOK, LaneRows
  <2> QED BY <2>1, <2>2, AcceptKeeps
<1> QED
  BY <1>2, <1>3

-----------------------------------------------------------------------------
(* Refunds *)

\* One order is refunded, with the compensation staff decided on.
Refunds(o) ==
  /\ \A p \in Orders : p # o => KeepsMoney(p)
  /\ order'[o].channel = order[o].channel
  /\ order[o].status # "REFUNDED" /\ order'[o].status = "REFUNDED"
  /\ ~Released(o)'
  /\ \E offset \in BOOLEAN : \E comp \in Compensations(o, offset) :
       /\ finding[o] # {} => comp = 0
       /\ refund'[o] = RefundOf(o, comp, offset)
       /\ balance'.lifetime =
            balance.lifetime - (IF Released(o) THEN Net(o) ELSE 0) + comp

\* A compensation and the refund it leaves never exceed what the order paid,
\* unless the platform bears the compensation.
LEMMA RefundOfBounds ==
  ASSUME NEW o \in Orders, NEW offset \in BOOLEAN, NEW comp \in Compensations(o, offset)
  PROVE  /\ comp \in Nat /\ comp <= Gross[o]
         /\ ~Publisher(o) => comp = 0
         /\ RefundOf(o, comp, offset) \in [amount : Nat, comp : Nat, fee : Nat]
         /\ RefundOf(o, comp, offset).comp = comp
         /\ RefundOf(o, comp, offset).amount <= Gross[o]
         /\ \/ RefundOf(o, comp, offset).amount = Gross[o]
            \/ RefundOf(o, comp, offset).amount + comp <= Gross[o]
<1>1. /\ Net(o) \in Nat /\ Net(o) <= Gross[o] /\ Net(o) = Gross[o] - Fee[o]
      /\ Gross[o] \in Nat /\ Fee[o] \in Nat
  BY NetNat
<1>2. /\ comp \in Nat /\ comp <= Gross[o]
      /\ ~Publisher(o) => comp = 0
      /\ offset => comp <= Net(o)
  BY <1>1 DEF Compensations
<1> DEFINE fee == IF offset /\ comp > 0 THEN Fee[o] ELSE 0
           amount == IF offset THEN Gross[o] - comp - fee ELSE Gross[o]
<1>3. RefundOf(o, comp, offset) = [amount |-> amount, comp |-> comp, fee |-> fee]
  BY DEF RefundOf
<1>4. fee \in Nat
  BY <1>1
<1>5. amount \in Nat /\ amount <= Gross[o]
  BY <1>1, <1>2
<1>6. amount = Gross[o] \/ amount + comp <= Gross[o]
  BY <1>1, <1>2, <1>4
<1> HIDE DEF amount, fee
<1> QED
  BY <1>2, <1>3, <1>4, <1>5, <1>6

\* The books after a clawback and a compensation.
LEMMA RefundBalance ==
  ASSUME TypeOK, NEW back \in Nat, NEW comp \in Nat,
         balance' = Credited(ClawedBack(balance, back), comp)
  PROVE  /\ balance'.withdrawable \in Nat /\ balance'.debt \in Nat
         /\ balance'.withdrawn = balance.withdrawn
         /\ balance'.lifetime = balance.lifetime - back + comp
         /\ balance'.withdrawable - balance'.debt
              = balance.withdrawable - balance.debt + (comp - back)
         /\ balance' = [withdrawable |-> balance'.withdrawable,
                        debt |-> balance'.debt, lifetime |-> balance'.lifetime,
                        withdrawn |-> balance'.withdrawn]
<1> DEFINE c == ClawedBack(balance, back)
<1>1. /\ balance.withdrawable \in Nat /\ balance.debt \in Nat
      /\ balance.lifetime \in Nat /\ balance.withdrawn \in Nat
  BY BalanceFields
<1>2. /\ c = [withdrawable |-> c.withdrawable, debt |-> c.debt,
              lifetime |-> c.lifetime, withdrawn |-> c.withdrawn]
      /\ c.withdrawable \in Nat /\ c.debt \in Nat
      /\ c.lifetime = balance.lifetime - back
      /\ c.withdrawn = balance.withdrawn
      /\ c.withdrawable - c.debt = balance.withdrawable - balance.debt - back
  BY <1>1, BalanceFields, ClawedBackTakes
<1> HIDE DEF c
<1>3. c.lifetime \in Int /\ c.withdrawn \in Nat
  BY <1>1, <1>2
<1>4. balance' = Credited(c, comp)
  BY DEF c
<1>5. /\ balance' = [withdrawable |-> balance'.withdrawable,
                     debt |-> balance'.debt, lifetime |-> balance'.lifetime,
                     withdrawn |-> balance'.withdrawn]
      /\ balance'.withdrawable \in Nat /\ balance'.debt \in Nat
      /\ balance'.lifetime = c.lifetime + comp
      /\ balance'.withdrawn = c.withdrawn
      /\ balance'.withdrawable - balance'.debt = c.withdrawable - c.debt + comp
  BY <1>2, <1>3, <1>4, CreditedAdds
<1>6. /\ balance'.lifetime = balance.lifetime - back + comp
      /\ balance'.withdrawn = balance.withdrawn
  BY <1>1, <1>2, <1>5
<1>7. balance'.withdrawable - balance'.debt
        = balance.withdrawable - balance.debt + (comp - back)
  <2> DEFINE x == c.withdrawable - c.debt
             y == balance.withdrawable - balance.debt
  <2>1. x \in Int /\ y \in Int /\ x = y - back
    BY <1>1, <1>2
  <2>2. x + comp = y + (comp - back)
    <3> HIDE DEF x, y
    <3> QED BY <2>1
  <2> QED BY <2>2, <1>5
<1> QED
  BY <1>5, <1>6, <1>7

\* A refund cancels the settlement, takes a release back, reverses revenue and
\* pays the compensation.
LEMMA RefundKeeps ==
  ASSUME IInv, NEW o \in Orders, NEW offset \in BOOLEAN,
         NEW comp \in Compensations(o, offset), Refund(o, comp, offset),
         lane' = lane,
         dispute' \in [Orders -> Disputes],
         \A p \in Orders : p # o => dispute'[p] = dispute[p],
         dispute'[o].prev = dispute[o].prev,
         dispute'[o].status \in OpenDispute => dispute[o].status \in OpenDispute,
         handoff' \in [Orders -> {"ABSENT", "ESCALATED", "PENDING_FINANCE",
                                  "APPROVED"}],
         \A p \in Orders : p # o => handoff'[p] = handoff[p],
         handoff'[o] = "ABSENT" <=> handoff[o] = "ABSENT",
         finding[o] # {} => handoff'[o] = "APPROVED" /\ comp = 0
  PROVE  IInv' /\ Refunds(o)
<1>1. /\ holds' = holds /\ finding' = finding /\ delivery' = delivery
      /\ evidence' = evidence /\ later' = later /\ reuse' = reuse
      /\ order[o].status # "REFUNDED" /\ order' = Moved(o, "REFUNDED")
  BY DEF Refund, deliveryVars
<1>2. TypeOK /\ OrderInv(o)
  BY DEF IInv
<1>3. /\ order' \in [Orders -> OrderRows] /\ order'[o].status = "REFUNDED"
      /\ order'[o].channel = order[o].channel
      /\ order'[o].verifyMethod = order[o].verifyMethod
      /\ \A p \in Orders : p # o => order'[p] = order[p]
  BY <1>1, <1>2, MovedRow DEF OrderStatuses
<1>4. /\ settlement' \in [Orders -> [Rows -> SettlementRows]]
      /\ \A p \in Orders : p # o => settlement'[p] = settlement[p]
      /\ \A m \in Rows : RowMoves(settlement[o][m], settlement'[o][m])
      /\ Active(o)' = {} /\ ~Released(o)'
  <2> DEFINE C(m) == IF m \in Active(o) THEN Cancelled(settlement[o][m])
                     ELSE settlement[o][m]
  <2>1. settlement \in [Orders -> [Rows -> SettlementRows]]
    BY <1>2 DEF TypeOK, SettlementRows
  <2>2. settlement' = [settlement EXCEPT ![o] = [m \in Rows |-> C(m)]]
    BY DEF Refund
  <2>3. ASSUME NEW m \in Rows
        PROVE  /\ C(m) \in SettlementRows /\ RowMoves(settlement[o][m], C(m))
               /\ C(m).status \in {"ABSENT", "CANCELLED"}
    <3>1. settlement[o][m] \in SettlementRows /\ settlement[o][m].version \in Nat
          /\ settlement[o][m].version + 1 \in Nat
          /\ settlement[o][m].version + 1 > settlement[o][m].version
      BY <2>1 DEF SettlementRows
    <3>2. CASE m \in Active(o)
      <4>1. C(m) = Cancelled(settlement[o][m])
        BY <3>2
      <4>2. /\ Cancelled(settlement[o][m]) \in SettlementRows
            /\ Cancelled(settlement[o][m]).status = "CANCELLED"
            /\ Cancelled(settlement[o][m]).version = settlement[o][m].version + 1
        BY <3>1 DEF Cancelled, SettlementRows, SettlementStatuses
      <4> QED BY <3>1, <4>1, <4>2 DEF RowMoves
    <3>3. CASE m \notin Active(o)
      BY <3>1, <3>3 DEF RowMoves, Active
    <3> QED BY <3>2, <3>3
  <2> HIDE DEF C
  <2>4. /\ settlement' \in [Orders -> [Rows -> SettlementRows]]
        /\ \A p \in Orders : p # o => settlement'[p] = settlement[p]
        /\ \A m \in Rows : settlement'[o][m] = C(m)
    BY <2>1, <2>2, <2>3
  <2> QED
    BY <2>3, <2>4 DEF Active, Released
<1>5. /\ refund' = [refund EXCEPT ![o] = RefundOf(o, comp, offset)]
      /\ revenue' = Reversed(o)
  BY DEF Refund
<1>6. /\ refund' \in [Orders -> [amount : Nat, comp : Nat, fee : Nat]]
      /\ refund'[o] = RefundOf(o, comp, offset) /\ refund'[o].comp = comp
      /\ comp \in Nat
      /\ \A p \in Orders : p # o => refund'[p] = refund[p]
  BY <1>2, <1>5, RefundOfBounds DEF TypeOK
<1>7. /\ revenue' \in [Orders -> {"NONE", "RECOGNIZED", "REVERSED"}]
      /\ revenue'[o] = IF revenue[o] = "RECOGNIZED" THEN "REVERSED" ELSE revenue[o]
      /\ \A p \in Orders : p # o => revenue'[p] = revenue[p]
  BY <1>2, <1>5 DEF TypeOK, Reversed
<1>8. \A p \in Orders : p # o => Untouched(p)
  BY <1>1, <1>3, <1>4, <1>6, <1>7 DEF Untouched, SameRows
<1>9. Publisher(o)' = Publisher(o) /\ Stage(o)' = "REFUNDED"
  BY <1>3 DEF Publisher, Stage
<1>10. OrderInv(o)'
  <2>1. DisputeAgrees(o)'
    BY <1>2, <1>3 DEF OrderInv, DisputeAgrees
  <2>2. SettlementAgrees(o)'
    BY <1>2, <1>3, <1>4, <1>7, <1>9 DEF OrderInv, SettlementAgrees
  <2>3. FraudAgrees(o)' /\ EvidenceAgrees(o)'
    BY <1>1, <1>2, <1>3 DEF OrderInv, FraudAgrees, EvidenceAgrees, RemovalAgrees
  <2> QED BY <2>1, <2>2, <2>3 DEF OrderInv
<1> DEFINE back == IF Released(o) THEN Net(o) ELSE 0
<1>11. back \in Nat
  BY NetNat
<1>12. /\ balance'.withdrawable \in Nat /\ balance'.debt \in Nat
       /\ balance'.withdrawn = balance.withdrawn
       /\ balance'.lifetime = balance.lifetime - back + comp
       /\ balance'.withdrawable - balance'.debt
            = balance.withdrawable - balance.debt + (comp - back)
       /\ balance' = [withdrawable |-> balance'.withdrawable,
                      debt |-> balance'.debt, lifetime |-> balance'.lifetime,
                      withdrawn |-> balance'.withdrawn]
  <2>1. balance' = Credited(ClawedBack(balance, back), comp)
    BY DEF Refund
  <2> HIDE DEF back
  <2> QED BY <1>2, <1>6, <1>11, <2>1, RefundBalance
<1>13. Earned(o) = back /\ Earned(o)' = comp
  <2>1. refund[o].comp = 0
    BY <1>1, <1>2 DEF OrderInv, SettlementAgrees, NoRefund
  <2> QED BY <1>4, <1>6, <1>11, <2>1 DEF Earned
<1>14. \A p \in Orders : p # o => Earned(p)' = Earned(p) /\ KeepsMoney(p)
  BY <1>8, UntouchedKeeps DEF IInv
<1>15. \A p \in Orders : Earned(p) \in Nat /\ Earned(p)' \in Nat
  <2>1. \A p \in Orders : refund[p].comp \in Nat /\ refund'[p].comp \in Nat
    BY <1>2, <1>6 DEF TypeOK
  <2> QED BY <2>1, NetNat DEF Earned
<1>16. BooksBalance' /\ balance'.lifetime \in Nat
  <2> HIDE DEF back
  <2>1. /\ balance.withdrawable \in Nat /\ balance.debt \in Nat
        /\ balance.lifetime \in Nat /\ balance.withdrawn \in Nat
    BY <1>2, BalanceFields
  <2>2. balance'.lifetime = balance.lifetime + Earned(o)' - Earned(o)
    BY <1>6, <1>11, <1>12, <1>13, <2>1
  <2>3. balance'.withdrawable + balance'.withdrawn - balance'.debt = balance'.lifetime
    <3>1. balance.withdrawable + balance.withdrawn - balance.debt = balance.lifetime
      BY DEF IInv, BooksBalance
    <3>2. PICK amount \in Int : amount = comp - back
      BY <1>6, <1>11
    <3>3. balance'.withdrawable + balance.withdrawn - balance'.debt
            = balance.lifetime + amount
      <4>1. /\ balance'.withdrawable \in Nat /\ balance'.debt \in Nat
            /\ balance'.withdrawable - balance'.debt
                 = balance.withdrawable - balance.debt + amount
        BY <1>12, <3>2
      <4> QED BY <2>1, <3>1, <4>1, BooksArithmetic, SMTT(30)
    <3>4. balance'.lifetime = balance.lifetime + amount
      BY <1>6, <1>11, <1>12, <2>1, <3>2
    <3> QED BY <1>12, <3>3, <3>4
  <2> QED BY <1>14, <1>15, <2>2, <2>3, BooksFollow DEF IInv
<1>17. TypeOK'
  <2>1. balance' \in Balances
    BY <1>2, <1>12, <1>16, BalanceFields DEF Balances
  <2> QED
    BY <1>1, <1>2, <1>3, <1>4, <1>6, <1>7, <2>1
    DEF TypeOK, OrderRows, SettlementRows, Disputes, Balances
<1>18. IInv'
  <2>1. DeliveryMoves(delivery[o], delivery'[o])
    BY <1>1 DEF DeliveryMoves
  <2> QED BY <1>4, <1>8, <1>10, <1>16, <1>17, <2>1, OneOrderKeeps
<1>19. Refunds(o)
  BY <1>1, <1>3, <1>4, <1>6, <1>12, <1>14 DEF Refunds
<1> QED
  BY <1>18, <1>19

\* The three ways to a refund.
LEMMA RefundsKeep ==
  ASSUME IInv, NEW o \in Orders,
         ForceCancel(o) \/ FinanceApprove(o) \/ RefundDispute(o)
  PROVE  IInv' /\ Refunds(o)
<1>1. TypeOK /\ OrderInv(o)
  BY DEF IInv
<1>2. dispute \in [Orders -> Disputes]
  BY <1>1 DEF TypeOK, Disputes
<1>3. CASE ForceCancel(o)
  <2>1. PICK comp \in Compensations(o, TRUE) : Refund(o, comp, TRUE)
    BY <1>3 DEF ForceCancel
  <2>2. finding[o] = {} /\ dispute' = dispute /\ handoff' = handoff /\ lane' = lane
    BY <1>3 DEF ForceCancel
  <2>3. handoff' \in [Orders -> {"ABSENT", "ESCALATED", "PENDING_FINANCE",
                                 "APPROVED"}]
    BY <1>1, <2>2 DEF TypeOK
  <2> QED BY <1>2, <2>1, <2>2, <2>3, RefundKeeps
<1>4. CASE FinanceApprove(o)
  <2>1. 0 \in Compensations(o, TRUE)
    BY NetNat DEF Compensations
  <2>2. /\ Refund(o, 0, TRUE) /\ handoff[o] = "PENDING_FINANCE"
        /\ handoff' = [handoff EXCEPT ![o] = "APPROVED"]
        /\ dispute' = dispute /\ lane' = lane
    BY <1>4 DEF FinanceApprove
  <2>3. /\ handoff' \in [Orders -> {"ABSENT", "ESCALATED", "PENDING_FINANCE",
                                    "APPROVED"}]
        /\ handoff'[o] = "APPROVED"
        /\ \A p \in Orders : p # o => handoff'[p] = handoff[p]
    BY <1>1, <2>2 DEF TypeOK
  <2> QED BY <1>2, <2>1, <2>2, <2>3, RefundKeeps
<1>5. CASE RefundDispute(o)
  <2>1. PICK comp \in Compensations(o, FALSE) : Refund(o, comp, FALSE)
    BY <1>5 DEF RefundDispute
  <2>2. /\ finding[o] = {} /\ handoff' = handoff /\ lane' = lane
        /\ dispute' = [dispute EXCEPT ![o].status = "REFUNDED"]
    BY <1>5 DEF RefundDispute
  <2>3. handoff' \in [Orders -> {"ABSENT", "ESCALATED", "PENDING_FINANCE",
                                 "APPROVED"}]
    BY <1>1, <2>2 DEF TypeOK
  <2>4. /\ dispute' \in [Orders -> Disputes]
        /\ dispute'[o].prev = dispute[o].prev
        /\ dispute'[o].status = "REFUNDED"
        /\ \A p \in Orders : p # o => dispute'[p] = dispute[p]
    BY <1>2, <2>2 DEF Disputes
  <2>5. dispute'[o].status \notin OpenDispute
    BY <2>4 DEF OpenDispute
  <2> QED BY <2>1, <2>2, <2>3, <2>4, <2>5, RefundKeeps
<1> QED
  BY <1>3, <1>4, <1>5

-----------------------------------------------------------------------------
(* Disputes, fraud decisions, deliveries *)

\* A step that leaves the money rows alone and the order at its stage, or moves it
\* between verification and the time before.
LEMMA StageKeeps ==
  ASSUME IInv, NEW o \in Orders, TypeOK',
         settlement' = settlement, refund' = refund, revenue' = revenue,
         balance' = balance,
         order'[o].channel = order[o].channel,
         \/ Stage(o)' = Stage(o)
         \/ {Stage(o), Stage(o)'} \subseteq {"PUBLISHED", "VERIFIED"},
         DisputeAgrees(o)', FraudAgrees(o)', EvidenceAgrees(o)',
         DeliveryMoves(delivery[o], delivery'[o]),
         \A p \in Orders : p # o => Untouched(p),
         \A l \in Lanes : lane'[l] = lane[l] \/ lane'[l] = Idle
  PROVE  IInv' /\ Quiet
<1>1. OrderInv(o)
  BY DEF IInv
<1>2. order'[o].status = "REFUNDED" <=> order[o].status = "REFUNDED"
  BY <1>1 DEF Stage, OrderInv, DisputeAgrees
<1>3. /\ Active(o)' = Active(o) /\ Publisher(o)' = Publisher(o)
      /\ \A p \in Orders : Released(p)' = Released(p)
  BY DEF Active, Publisher, Released
<1>4. SettlementAgrees(o)'
  BY <1>1, <1>2, <1>3 DEF OrderInv, SettlementAgrees
<1>5. \A p \in Orders : Earned(p)' = Earned(p)
  BY <1>3 DEF Earned
<1>6. BooksBalance'
  BY <1>5, BooksStay DEF IInv
<1>7. \A n \in Rows : RowMoves(settlement[o][n], settlement'[o][n])
  BY DEF RowMoves
<1>8. IInv'
  BY <1>4, <1>6, <1>7, OneOrderKeeps DEF OrderInv
<1>9. KeepsMoney(o)
  BY <1>2, <1>3 DEF KeepsMoney
<1>10. Quiet
  BY <1>9, UntouchedKeeps DEF Quiet, IInv
<1> QED
  BY <1>8, <1>10

\* The steps of an order dispute.
LEMMA DisputesKeep ==
  ASSUME IInv, NEW o \in Orders,
         MarkUnderReview(o) \/ RestoreDispute(o)
         \/ \E l \in Lanes : o = At(l) /\ OpenOrderDispute(l)
  PROVE  IInv' /\ Quiet
<1>1. TypeOK /\ OrderInv(o)
  BY DEF IInv
<1>2. /\ dispute \in [Orders -> Disputes] /\ order \in [Orders -> OrderRows]
      /\ lane \in [Lanes -> LaneRows]
  BY <1>1 DEF TypeOK, Disputes, OrderRows, LaneRows
<1>3. CASE MarkUnderReview(o)
  <2>1. /\ order' = order /\ handoff' = handoff /\ holds' = holds
        /\ finding' = finding /\ delivery' = delivery
        /\ evidence' = evidence /\ later' = later
        /\ settlement' = settlement /\ refund' = refund /\ revenue' = revenue
        /\ balance' = balance /\ lane' = lane /\ reuse' = reuse
        /\ dispute[o].status = "OPEN"
        /\ dispute' = [dispute EXCEPT ![o].status = "UNDER_REVIEW"]
    BY <1>3 DEF MarkUnderReview, deliveryVars, moneyVars
  <2>2. /\ dispute' \in [Orders -> Disputes]
        /\ dispute'[o].status = "UNDER_REVIEW" /\ dispute'[o].prev = dispute[o].prev
        /\ \A p \in Orders : p # o => dispute'[p] = dispute[p]
    BY <1>2, <2>1 DEF Disputes, OpenDispute
  <2>3. TypeOK'
    BY <1>1, <2>1, <2>2 DEF TypeOK, Disputes
  <2>4. /\ Stage(o)' = Stage(o) /\ DisputeAgrees(o)' /\ FraudAgrees(o)'
        /\ EvidenceAgrees(o)'
    BY <1>1, <2>1, <2>2
    DEF Stage, OrderInv, DisputeAgrees, FraudAgrees, EvidenceAgrees, RemovalAgrees,
        OpenDispute
  <2>5. /\ \A p \in Orders : p # o => Untouched(p)
        /\ DeliveryMoves(delivery[o], delivery'[o])
    BY <2>1, <2>2 DEF Untouched, SameRows, DeliveryMoves
  <2> QED BY <2>1, <2>3, <2>4, <2>5, StageKeeps
<1>4. CASE RestoreDispute(o)
  <2>1. /\ handoff' = handoff /\ holds' = holds
        /\ finding' = finding /\ delivery' = delivery
        /\ evidence' = evidence /\ later' = later
        /\ settlement' = settlement /\ refund' = refund /\ revenue' = revenue
        /\ balance' = balance /\ lane' = lane /\ reuse' = reuse
        /\ dispute[o].status \in OpenDispute
        /\ FraudAllows(o, Stage(o)) /\ order' = Moved(o, Stage(o))
    BY <1>4 DEF RestoreDispute, deliveryVars, moneyVars, Stage
  <2>2. dispute' = [dispute EXCEPT ![o].status = "RESTORED"]
    BY <1>4 DEF RestoreDispute
  <2>3. /\ dispute' \in [Orders -> Disputes]
        /\ dispute'[o].status = "RESTORED" /\ dispute'[o].prev = dispute[o].prev
        /\ \A p \in Orders : p # o => dispute'[p] = dispute[p]
    BY <1>2, <2>2 DEF Disputes, SafeDispute
  <2>4. PICK to \in {"PUBLISHED", "VERIFIED", "DELIVERED", "COMPLETED", "REFUNDED"} :
          to = Stage(o)
    BY <1>1, <2>1 DEF OrderInv, DisputeAgrees, Stage
  <2>5. /\ order' \in [Orders -> OrderRows] /\ order'[o].status = to
        /\ order'[o].channel = order[o].channel
        /\ order'[o].verifyMethod = order[o].verifyMethod
        /\ \A p \in Orders : p # o => order'[p] = order[p]
    BY <1>1, <2>1, <2>4, MovedRow DEF OrderStatuses
  <2>6. TypeOK'
    BY <1>1, <2>1, <2>3, <2>5 DEF TypeOK, Disputes, OrderRows
  <2>7. Stage(o)' = Stage(o) /\ DisputeAgrees(o)' /\ EvidenceAgrees(o)'
    BY <1>1, <2>1, <2>3, <2>4, <2>5
    DEF Stage, OrderInv, DisputeAgrees, EvidenceAgrees, RemovalAgrees, OpenDispute
  <2>8. FraudAgrees(o)'
    BY <1>1, <2>1, <2>4, <2>5
    DEF Stage, OrderInv, DisputeAgrees, FraudAgrees, FraudAllows
  <2>9. /\ \A p \in Orders : p # o => Untouched(p)
        /\ DeliveryMoves(delivery[o], delivery'[o])
    BY <2>1, <2>3, <2>5 DEF Untouched, SameRows, DeliveryMoves
  <2> QED BY <2>1, <2>5, <2>6, <2>7, <2>8, <2>9, StageKeeps
<1>5. ASSUME NEW l \in Lanes, o = At(l), OpenOrderDispute(l)
      PROVE  IInv' /\ Quiet
  <2>1. /\ handoff' = handoff /\ holds' = holds
        /\ finding' = finding /\ delivery' = delivery
        /\ evidence' = evidence /\ later' = later
        /\ settlement' = settlement /\ refund' = refund /\ revenue' = revenue
        /\ balance' = balance /\ reuse' = reuse /\ Rest(l)
        /\ order' = Moved(o, "DISPUTED")
        /\ dispute' = [dispute EXCEPT ![o] =
             [status |-> "OPEN", prev |-> order[o].status]]
        /\ order[o].status \in {"PUBLISHED", "VERIFIED", "DELIVERED", "COMPLETED"}
    BY <1>5 DEF OpenOrderDispute, deliveryVars, moneyVars, Disputable
  <2>2. /\ order' \in [Orders -> OrderRows] /\ order'[o].status = "DISPUTED"
        /\ order'[o].channel = order[o].channel
        /\ order'[o].verifyMethod = order[o].verifyMethod
        /\ \A p \in Orders : p # o => order'[p] = order[p]
    BY <1>1, <2>1, MovedRow DEF OrderStatuses
  <2>3. /\ dispute' \in [Orders -> Disputes]
        /\ dispute'[o].status = "OPEN" /\ dispute'[o].prev = order[o].status
        /\ \A p \in Orders : p # o => dispute'[p] = dispute[p]
    <3>1. [status |-> "OPEN", prev |-> order[o].status] \in Disputes
      BY <2>1 DEF Disputes, OpenDispute, OrderStatuses
    <3> QED BY <1>2, <2>1, <3>1
  <2>4. /\ lane' \in [Lanes -> LaneRows]
        /\ \A k \in Lanes : lane'[k] = lane[k] \/ lane'[k] = Idle
    BY <1>1, <2>1, RestLanes
  <2>5. TypeOK'
    BY <1>1, <2>1, <2>2, <2>3, <2>4 DEF TypeOK, Disputes, OrderRows, LaneRows
  <2>6. Stage(o)' = Stage(o) /\ DisputeAgrees(o)' /\ EvidenceAgrees(o)'
    BY <1>1, <2>1, <2>2, <2>3
    DEF Stage, OrderInv, DisputeAgrees, EvidenceAgrees, RemovalAgrees, OpenDispute
  <2>7. FraudAgrees(o)'
    BY <1>1, <2>1, <2>2 DEF OrderInv, FraudAgrees
  <2>8. /\ \A p \in Orders : p # o => Untouched(p)
        /\ DeliveryMoves(delivery[o], delivery'[o])
    BY <2>1, <2>2, <2>3 DEF Untouched, SameRows, DeliveryMoves
  <2> QED BY <2>1, <2>2, <2>4, <2>5, <2>6, <2>7, <2>8, StageKeeps
<1> QED
  BY <1>3, <1>4, <1>5

\* Decisions on fraud signals.
LEMMA FraudDecisionsKeep ==
  ASSUME IInv, NEW o \in Orders,
         ReviewHandoff(o) \/ \E h \in Signals : ClearHold(o, h) \/ ConfirmFraud(o, h)
  PROVE  IInv' /\ Quiet
<1>1. TypeOK /\ OrderInv(o)
  BY DEF IInv
<1>2. CASE ReviewHandoff(o)
  <2>1. /\ order' = order /\ dispute' = dispute /\ holds' = holds
        /\ finding' = finding /\ delivery' = delivery
        /\ evidence' = evidence /\ later' = later
        /\ settlement' = settlement /\ refund' = refund /\ revenue' = revenue
        /\ balance' = balance /\ lane' = lane /\ reuse' = reuse
        /\ handoff[o] = "ESCALATED"
        /\ handoff' = [handoff EXCEPT ![o] = "PENDING_FINANCE"]
    BY <1>2 DEF ReviewHandoff, deliveryVars, moneyVars
  <2>2. /\ handoff' \in [Orders -> {"ABSENT", "ESCALATED", "PENDING_FINANCE",
                                    "APPROVED"}]
        /\ handoff'[o] = "PENDING_FINANCE"
        /\ \A p \in Orders : p # o => handoff'[p] = handoff[p]
    BY <1>1, <2>1 DEF TypeOK
  <2>3. TypeOK'
    BY <1>1, <2>1, <2>2 DEF TypeOK
  <2>4. /\ Stage(o)' = Stage(o) /\ DisputeAgrees(o)' /\ FraudAgrees(o)'
        /\ EvidenceAgrees(o)'
    BY <1>1, <2>1, <2>2
    DEF Stage, OrderInv, DisputeAgrees, FraudAgrees, EvidenceAgrees, RemovalAgrees
  <2>5. /\ \A p \in Orders : p # o => Untouched(p)
        /\ DeliveryMoves(delivery[o], delivery'[o])
    BY <2>1, <2>2 DEF Untouched, SameRows, DeliveryMoves
  <2> QED BY <2>1, <2>3, <2>4, <2>5, StageKeeps
<1>3. ASSUME NEW h \in Signals, ClearHold(o, h) PROVE IInv' /\ Quiet
  <2>1. /\ order' = order /\ dispute' = dispute /\ handoff' = handoff
        /\ finding' = finding /\ delivery' = delivery
        /\ evidence' = evidence /\ later' = later
        /\ settlement' = settlement /\ refund' = refund /\ revenue' = revenue
        /\ balance' = balance /\ lane' = lane /\ reuse' = reuse
        /\ h \notin finding[o]
        /\ holds' = [holds EXCEPT ![o] = holds[o] \ {h}]
    BY <1>3 DEF ClearHold, orderVars, evidenceVars, moneyVars
  <2>2. /\ holds' \in [Orders -> SUBSET Signals] /\ holds'[o] = holds[o] \ {h}
        /\ \A p \in Orders : p # o => holds'[p] = holds[p]
    BY <1>1, <2>1 DEF TypeOK
  <2>3. TypeOK'
    BY <1>1, <2>1, <2>2 DEF TypeOK
  <2>4. /\ Stage(o)' = Stage(o) /\ DisputeAgrees(o)' /\ FraudAgrees(o)'
        /\ EvidenceAgrees(o)'
    BY <1>1, <2>1, <2>2
    DEF Stage, OrderInv, DisputeAgrees, FraudAgrees, EvidenceAgrees, RemovalAgrees
  <2>5. /\ \A p \in Orders : p # o => Untouched(p)
        /\ DeliveryMoves(delivery[o], delivery'[o])
    BY <2>1, <2>2 DEF Untouched, SameRows, DeliveryMoves
  <2> QED BY <2>1, <2>3, <2>4, <2>5, StageKeeps
<1>4. ASSUME NEW h \in Signals, ConfirmFraud(o, h) PROVE IInv' /\ Quiet
  <2>1. /\ dispute' = dispute /\ holds' = holds
        /\ delivery' = delivery
        /\ evidence' = evidence /\ later' = later
        /\ settlement' = settlement /\ refund' = refund /\ revenue' = revenue
        /\ balance' = balance /\ lane' = lane /\ reuse' = reuse
        /\ h \in holds[o] /\ order[o].status \notin {"COMPLETED", "REFUNDED"}
        /\ finding' = [finding EXCEPT ![o] = finding[o] \cup {h}]
        /\ order' = [order EXCEPT ![o].version = order[o].version + 1]
        /\ handoff' = [handoff EXCEPT ![o] =
             IF handoff[o] = "ABSENT" THEN "ESCALATED" ELSE handoff[o]]
    BY <1>4 DEF ConfirmFraud, Confirmable, evidenceVars, moneyVars
  <2>2. /\ finding' \in [Orders -> SUBSET Signals] /\ finding'[o] = finding[o] \cup {h}
        /\ \A p \in Orders : p # o => finding'[p] = finding[p]
    BY <1>1, <2>1 DEF TypeOK
  <2>3. /\ handoff' \in [Orders -> {"ABSENT", "ESCALATED", "PENDING_FINANCE",
                                    "APPROVED"}]
        /\ handoff'[o] = IF handoff[o] = "ABSENT" THEN "ESCALATED" ELSE handoff[o]
        /\ \A p \in Orders : p # o => handoff'[p] = handoff[p]
    BY <1>1, <2>1 DEF TypeOK
  <2>4. /\ order' \in [Orders -> OrderRows] /\ order'[o].status = order[o].status
        /\ order'[o].channel = order[o].channel
        /\ order'[o].verifyMethod = order[o].verifyMethod
        /\ \A p \in Orders : p # o => order'[p] = order[p]
    <3> DEFINE r == [order[o] EXCEPT !.version = order[o].version + 1]
    <3>1. order[o] \in OrderRows
      BY <1>1 DEF TypeOK, OrderRows
    <3>2. r \in OrderRows /\ r.status = order[o].status /\ r.channel = order[o].channel
          /\ r.verifyMethod = order[o].verifyMethod
      BY <3>1 DEF OrderRows
    <3>3. order' = [order EXCEPT ![o] = r]
      BY <2>1
    <3> HIDE DEF r
    <3> QED BY <1>1, <3>2, <3>3, OrderRow
  <2>5. TypeOK'
    BY <1>1, <2>1, <2>2, <2>3, <2>4 DEF TypeOK, OrderRows
  <2>6. Stage(o)' = Stage(o) /\ DisputeAgrees(o)' /\ EvidenceAgrees(o)'
    BY <1>1, <2>1, <2>4 DEF Stage, OrderInv, DisputeAgrees, EvidenceAgrees, RemovalAgrees
  <2>7. FraudAgrees(o)'
    BY <1>1, <2>1, <2>2, <2>3, <2>4 DEF OrderInv, FraudAgrees
  <2>8. /\ \A p \in Orders : p # o => Untouched(p)
        /\ DeliveryMoves(delivery[o], delivery'[o])
    BY <2>1, <2>2, <2>3, <2>4 DEF Untouched, SameRows, DeliveryMoves
  <2> QED BY <2>1, <2>4, <2>5, <2>6, <2>7, <2>8, StageKeeps
<1> QED
  BY <1>2, <1>3, <1>4

\* A boundary check raises a hold, although the request is refused.
LEMMA FlagReuseKeeps ==
  ASSUME IInv, NEW o \in Orders, FlagReuse(o), lane' \in [Lanes -> LaneRows],
         \A l \in Lanes : lane'[l] = lane[l] \/ lane'[l] = Idle
  PROVE  IInv' /\ Quiet
<1>1. TypeOK /\ OrderInv(o)
  BY DEF IInv
<1>2. /\ order' = order /\ dispute' = dispute /\ handoff' = handoff
      /\ finding' = finding /\ delivery' = delivery
      /\ evidence' = evidence /\ later' = later
      /\ settlement' = settlement /\ refund' = refund /\ revenue' = revenue
      /\ balance' = balance /\ reuse' = reuse + 1
      /\ holds' = [holds EXCEPT ![o] = holds[o] \cup {"URL_REUSED"}]
  BY DEF FlagReuse, orderVars, evidenceVars, moneyVars
<1>3. /\ holds' \in [Orders -> SUBSET Signals]
      /\ holds'[o] = holds[o] \cup {"URL_REUSED"}
      /\ \A p \in Orders : p # o => holds'[p] = holds[p]
  BY <1>1, <1>2 DEF TypeOK, Signals
<1>4. reuse' \in Nat
  BY <1>1, <1>2 DEF TypeOK
<1>5. TypeOK'
  BY <1>1, <1>2, <1>3, <1>4 DEF TypeOK, LaneRows
<1>6. /\ Stage(o)' = Stage(o) /\ DisputeAgrees(o)' /\ FraudAgrees(o)'
      /\ EvidenceAgrees(o)'
  BY <1>1, <1>2, <1>3
  DEF Stage, OrderInv, DisputeAgrees, FraudAgrees, EvidenceAgrees, RemovalAgrees
<1>7. /\ \A p \in Orders : p # o => Untouched(p)
      /\ DeliveryMoves(delivery[o], delivery'[o])
  BY <1>2, <1>3 DEF Untouched, SameRows, DeliveryMoves
<1> QED
  BY <1>2, <1>5, <1>6, <1>7, StageKeeps

LEMMA FlagsKeep ==
  ASSUME IInv,
         \/ \E l \in Lanes : LaneFlagged(l)
         \/ \E o \in Orders : ConfirmFlagged(o)
  PROVE  IInv' /\ Quiet
<1>1. TypeOK
  BY DEF IInv
<1>2. ASSUME NEW l \in Lanes, LaneFlagged(l) PROVE IInv' /\ Quiet
  <2>1. PICK o \in Orders : o = At(l)
    BY <1>2 DEF LaneFlagged, Job, IInv, ReadPast, At, RowJobs, OrderJobs
  <2>2. FlagReuse(o) /\ Rest(l)
    BY <1>2, <2>1 DEF LaneFlagged
  <2> QED BY <1>1, <2>2, RestLanes, FlagReuseKeeps
<1>3. ASSUME NEW o \in Orders, ConfirmFlagged(o) PROVE IInv' /\ Quiet
  <2>1. FlagReuse(o) /\ lane' = lane
    BY <1>3 DEF ConfirmFlagged
  <2>2. lane' \in [Lanes -> LaneRows]
    BY <1>1, <2>1 DEF TypeOK, LaneRows
  <2> QED BY <2>1, <2>2, FlagReuseKeeps
<1> QED
  BY <1>2, <1>3

\* The verdict of a fetch reaches the delivery it was fetched for, or nothing.
LEMMA RecordsKeep ==
  ASSUME IInv, NEW l \in SweepLanes,
         RecordRestored(l) \/ RecordPresent(l) \/ RecordRemoved(l)
  PROVE  IInv' /\ Quiet
<1>1. TypeOK /\ ReadPast(l) /\ l \in Lanes
  BY DEF IInv, Lanes
<1>2. lane[l].job \in FetchJobs /\ SameDelivery(l) /\ Rest(l)
  BY DEF RecordRestored, RecordPresent, RecordRemoved, Job, FetchJobs
<1>3. PICK o \in Orders : o = At(l)
  BY <1>1, <1>2 DEF ReadPast, At
<1>4. OrderInv(o)
  BY DEF IInv
<1>5. /\ delivery[o].version = lane[l].version
      /\ delivery[o] \in [state : {"VERIFIED", "REJECTED"}, version : Nat]
  BY <1>1, <1>2, <1>3 DEF SameDelivery, TypeOK
<1>6. lane[l].flag <=> delivery[o].state = "REJECTED"
  BY <1>1, <1>2, <1>3, <1>5 DEF ReadPast
<1>7. /\ lane' \in [Lanes -> LaneRows]
      /\ \A k \in Lanes : lane'[k] = lane[k] \/ lane'[k] = Idle
  BY <1>1, <1>2, RestLanes
<1>8. /\ order' = order /\ dispute' = dispute /\ handoff' = handoff
      /\ finding' = finding /\ settlement' = settlement /\ refund' = refund
      /\ revenue' = revenue /\ balance' = balance /\ reuse' = reuse
  BY DEF RecordRestored, RecordPresent, RecordRemoved, orderVars, moneyVars
<1>9. l \in Lanes /\ later[o] \in Dates /\ later \in [Orders -> Dates]
      /\ evidence \in [Orders -> Evidences]
  BY <1>1 DEF Lanes, TypeOK, Dates
<1>10. PICK d \in [state : {"VERIFIED", "REJECTED"}, version : Nat],
            h \in SUBSET Signals, e \in Evidences, t \in Dates :
        /\ delivery' = [delivery EXCEPT ![o] = d] /\ DeliveryMoves(delivery[o], d)
        /\ holds' = [holds EXCEPT ![o] = h] /\ finding[o] \subseteq h
        /\ evidence' = [evidence EXCEPT ![o] = e]
        /\ later' = [later EXCEPT ![o] = t]
        /\ d.state = "VERIFIED" => "LINK_REMOVED" \notin h
        /\ d.state = "VERIFIED" =>
             e = "fresh" \/ (e = evidence[o] /\ delivery[o].state = "VERIFIED")
        /\ "LINK_REMOVED" \in h => RemovalLast(t)
  <2>1. delivery[o].version + 1 \in Nat /\ delivery[o].version + 1 > delivery[o].version
    BY <1>5
  <2>2. /\ holds[o] \subseteq Signals /\ "LINK_REMOVED" \in Signals
        /\ finding[o] \subseteq holds[o]
    BY <1>1, <1>4 DEF TypeOK, Signals, OrderInv, FraudAgrees
  <2>3. CASE RecordRestored(l)
    <3> DEFINE d == [state |-> "VERIFIED", version |-> delivery[o].version + 1]
               h == holds[o] \ {"LINK_REMOVED"}
               t == Unmarked(Unmarked(Recorded(later[o], RestoredAt(l)), l), "removal")
    <3>1. /\ delivery' = [delivery EXCEPT ![o] = d]
          /\ holds' = [holds EXCEPT ![o] = h]
          /\ evidence' = [evidence EXCEPT ![o] = Latest(o, RestoredAt(l), "fresh")]
          /\ later' = [later EXCEPT ![o] = t]
          /\ "LINK_REMOVED" \in holds[o] /\ "LINK_REMOVED" \notin finding[o]
      BY <1>3, <2>3 DEF RecordRestored, RemovalOpen
    <3>2. d \in [state : {"VERIFIED", "REJECTED"}, version : Nat]
          /\ DeliveryMoves(delivery[o], d)
      BY <2>1 DEF DeliveryMoves
    <3>3. t \in Dates
      BY <1>9, DatesKeep
    <3>4. RemovalLast(later[o])
      BY <1>4, <3>1 DEF OrderInv, EvidenceAgrees, RemovalAgrees
    <3>5. "evidence" \notin later[o][RestoredAt(l)]
      BY <1>3, <3>4 DEF RemovalLast, RestoredAt
    <3>6. Latest(o, RestoredAt(l), "fresh") = "fresh" /\ "fresh" \in Evidences
      BY <3>5 DEF Latest, Evidences
    <3>7. h \in SUBSET Signals /\ finding[o] \subseteq h /\ "LINK_REMOVED" \notin h
      BY <2>2, <3>1
    <3> HIDE DEF d, h, t
    <3> QED BY <3>1, <3>2, <3>3, <3>6, <3>7
  <2>4. CASE RecordPresent(l)
    <3> DEFINE t == Unmarked(Recorded(later[o], l), l)
    <3>1. /\ delivery' = delivery /\ holds' = holds
          /\ evidence' = [evidence EXCEPT ![o] = Latest(o, l, "fresh")]
          /\ later' = [later EXCEPT ![o] = t]
          /\ delivery[o].state = "VERIFIED"
      BY <1>3, <2>4 DEF RecordPresent
    <3>2. /\ delivery' = [delivery EXCEPT ![o] = delivery[o]]
          /\ holds' = [holds EXCEPT ![o] = holds[o]]
      BY <1>1, <3>1 DEF TypeOK
    <3>3. DeliveryMoves(delivery[o], delivery[o])
      BY DEF DeliveryMoves
    <3>4. t \in Dates
      BY <1>9, DatesKeep
    <3>5. "LINK_REMOVED" \notin holds[o]
      BY <1>4, <3>1 DEF OrderInv, EvidenceAgrees, RemovalAgrees
    <3>6. /\ Latest(o, l, "fresh") \in Evidences
          /\ Latest(o, l, "fresh") = "fresh" \/ Latest(o, l, "fresh") = evidence[o]
      BY <1>9 DEF Latest, Evidences
    <3> HIDE DEF t
    <3> QED BY <1>5, <2>2, <3>1, <3>2, <3>3, <3>4, <3>5, <3>6
  <2>5. CASE RecordRemoved(l)
    <3> DEFINE d == [state |-> "REJECTED", version |-> delivery[o].version + 1]
               h == holds[o] \cup {"LINK_REMOVED"}
               u == Unmarked(Recorded(later[o], l), l)
               t == MarkedNow(u, "removal")
    <3>1. /\ delivery' = [delivery EXCEPT ![o] = d]
          /\ holds' = [holds EXCEPT ![o] = h]
          /\ evidence' = [evidence EXCEPT ![o] = Latest(o, l, "missing")]
          /\ later' = [later EXCEPT ![o] =
               IF "LINK_REMOVED" \in holds[o] THEN u ELSE t]
          /\ delivery[o].state = "VERIFIED"
      BY <1>3, <2>5 DEF RecordRemoved
    <3>2. "LINK_REMOVED" \notin holds[o]
      BY <1>4, <3>1 DEF OrderInv, EvidenceAgrees, RemovalAgrees
    <3>3. later' = [later EXCEPT ![o] = t]
      BY <3>1, <3>2
    <3>4. d \in [state : {"VERIFIED", "REJECTED"}, version : Nat]
          /\ DeliveryMoves(delivery[o], d) /\ d.state = "REJECTED"
      BY <2>1 DEF DeliveryMoves
    <3>5. u \in Dates /\ "removal" \in Marks
      BY <1>9, DatesKeep DEF Marks
    <3>6. t \in Dates /\ RemovalLast(t)
      <4> HIDE DEF u
      <4> QED BY <1>9, <3>5, DatesKeep
    <3>7. h \in SUBSET Signals /\ finding[o] \subseteq h
      BY <2>2
    <3>8. Latest(o, l, "missing") \in Evidences
      BY <1>9 DEF Latest, Evidences
    <3> HIDE DEF d, h, u, t
    <3> QED BY <3>1, <3>3, <3>4, <3>6, <3>7, <3>8
  <2> QED BY <2>3, <2>4, <2>5
<1>11. /\ delivery' \in [Orders -> [state : {"VERIFIED", "REJECTED"}, version : Nat]]
       /\ delivery'[o] = d /\ \A p \in Orders : p # o => delivery'[p] = delivery[p]
  BY <1>1, <1>10 DEF TypeOK
<1>12. /\ holds' \in [Orders -> SUBSET Signals]
       /\ holds'[o] = h /\ \A p \in Orders : p # o => holds'[p] = holds[p]
  BY <1>1, <1>10 DEF TypeOK
<1>13. /\ evidence' \in [Orders -> Evidences] /\ later' \in [Orders -> Dates]
       /\ evidence'[o] = e /\ \A p \in Orders : p # o => evidence'[p] = evidence[p]
       /\ later'[o] = t /\ \A p \in Orders : p # o => later'[p] = later[p]
  BY <1>9, <1>10
<1>14. TypeOK'
  BY <1>1, <1>7, <1>8, <1>11, <1>12, <1>13 DEF TypeOK, LaneRows, Dates
<1>15. Stage(o)' = Stage(o) /\ DisputeAgrees(o)' /\ FraudAgrees(o)'
  BY <1>4, <1>8, <1>10, <1>12
  DEF Stage, OrderInv, DisputeAgrees, FraudAgrees
<1>16. EvidenceAgrees(o)'
  BY <1>4, <1>8, <1>10, <1>11, <1>12, <1>13
  DEF OrderInv, EvidenceAgrees, RemovalAgrees
<1>17. /\ \A p \in Orders : p # o => Untouched(p)
       /\ DeliveryMoves(delivery[o], delivery'[o])
  BY <1>8, <1>10, <1>11, <1>12, <1>13 DEF Untouched, SameRows
<1>18. order'[o].channel = order[o].channel
  BY <1>8
<1> QED
  BY <1>7, <1>8, <1>14, <1>15, <1>16, <1>17, <1>18, StageKeeps

\* Staff fail a verified delivery, and an order is verified again.
LEMMA VerificationKeeps ==
  ASSUME IInv, NEW o \in Orders, OverrideFailed(o) \/ VerifiedAgain(o)
  PROVE  IInv' /\ Quiet
<1>1. TypeOK /\ OrderInv(o)
  BY DEF IInv
<1>2. /\ dispute' = dispute /\ handoff' = handoff /\ holds' = holds
      /\ finding' = finding /\ later' = later
      /\ settlement' = settlement /\ refund' = refund /\ revenue' = revenue
      /\ balance' = balance /\ lane' = lane /\ reuse' = reuse
  BY DEF OverrideFailed, VerifiedAgain, evidenceVars, moneyVars
<1>3. PICK status \in {"PUBLISHED", "VERIFIED"}, method \in Methods \cup {"NONE"},
           state \in {"VERIFIED", "REJECTED"}, e \in Evidences :
        /\ order[o].status \in {"PUBLISHED", "VERIFIED"}
        /\ order' = [order EXCEPT ![o].status = status, ![o].version = @ + 1,
                                  ![o].verifyMethod = method]
        /\ delivery' = [delivery EXCEPT ![o] =
             [state |-> state, version |-> @.version + 1]]
        /\ evidence' = [evidence EXCEPT ![o] = e]
        /\ state = "VERIFIED" => holds[o] = {} /\ (method = "AUTO" => e = "fresh")
  <2>1. CASE OverrideFailed(o)
    <3>1. evidence \in [Orders -> Evidences] /\ evidence' = evidence
      BY <1>1, <2>1 DEF TypeOK, OverrideFailed, evidenceVars
    <3>2. evidence[o] \in Evidences /\ evidence' = [evidence EXCEPT ![o] = evidence[o]]
      BY <3>1
    <3> QED BY <2>1, <3>2 DEF OverrideFailed
  <2>2. CASE VerifiedAgain(o)
    BY <2>2 DEF VerifiedAgain
  <2> QED BY <2>1, <2>2
<1>4. /\ order' \in [Orders -> OrderRows] /\ order'[o].status = status
      /\ order'[o].channel = order[o].channel
      /\ order'[o].verifyMethod = method
      /\ \A p \in Orders : p # o => order'[p] = order[p]
  <2> DEFINE r == [order[o] EXCEPT !.status = status, !.version = order[o].version + 1,
                                   !.verifyMethod = method]
  <2>1. order[o] \in OrderRows
    BY <1>1 DEF TypeOK, OrderRows
  <2>2. order[o].version + 1 \in Nat /\ status \in OrderStatuses
    BY <2>1 DEF OrderRows, OrderStatuses
  <2>3. /\ r \in OrderRows /\ r.status = status /\ r.channel = order[o].channel
        /\ r.verifyMethod = method
    BY <2>1, <2>2 DEF OrderRows
  <2>4. order' = [order EXCEPT ![o] = r]
    BY <1>3
  <2> HIDE DEF r
  <2> QED BY <1>1, <2>3, <2>4, OrderRow
<1>5. /\ delivery' \in [Orders -> [state : {"VERIFIED", "REJECTED"}, version : Nat]]
      /\ delivery'[o].state = state /\ DeliveryMoves(delivery[o], delivery'[o])
      /\ \A p \in Orders : p # o => delivery'[p] = delivery[p]
  <2>1. delivery \in [Orders -> [state : {"VERIFIED", "REJECTED"}, version : Nat]]
    BY <1>1 DEF TypeOK
  <2>2. /\ delivery[o].version + 1 \in Nat
        /\ delivery[o].version + 1 > delivery[o].version
    BY <2>1
  <2> DEFINE d == [state |-> state, version |-> delivery[o].version + 1]
  <2>3. /\ d \in [state : {"VERIFIED", "REJECTED"}, version : Nat]
        /\ d.state = state /\ d.version > delivery[o].version
    BY <2>2
  <2>4. delivery' = [delivery EXCEPT ![o] = d]
    BY <1>3
  <2> HIDE DEF d
  <2> QED BY <2>1, <2>3, <2>4 DEF DeliveryMoves
<1>6. /\ evidence' \in [Orders -> Evidences] /\ evidence'[o] = e
      /\ \A p \in Orders : p # o => evidence'[p] = evidence[p]
  BY <1>1, <1>3 DEF TypeOK
<1>7. TypeOK'
  BY <1>1, <1>2, <1>4, <1>5, <1>6 DEF TypeOK, OrderRows
<1>8. DisputeAgrees(o)' /\ {Stage(o), Stage(o)'} \subseteq {"PUBLISHED", "VERIFIED"}
  BY <1>1, <1>2, <1>3, <1>4 DEF OrderInv, DisputeAgrees, Stage
<1>9. FraudAgrees(o)'
  BY <1>1, <1>2, <1>3, <1>4 DEF OrderInv, FraudAgrees
<1>10. EvidenceAgrees(o)'
  BY <1>1, <1>2, <1>3, <1>4, <1>5, <1>6
  DEF OrderInv, EvidenceAgrees, RemovalAgrees, Evidences
<1>11. \A p \in Orders : p # o => Untouched(p)
  BY <1>2, <1>4, <1>5, <1>6 DEF Untouched, SameRows
<1> QED
  BY <1>2, <1>4, <1>5, <1>7, <1>8, <1>9, <1>10, <1>11, StageKeeps

\* Evidence ages and warranties end.
LEMMA WorldKeeps ==
  ASSUME IInv, NEW o \in Orders, EvidenceAges(o) \/ WarrantyEnds(o)
  PROVE  IInv' /\ Quiet
<1>1. TypeOK /\ OrderInv(o)
  BY DEF IInv
<1>2. /\ dispute' = dispute /\ handoff' = handoff /\ holds' = holds
      /\ finding' = finding /\ delivery' = delivery
      /\ settlement' = settlement /\ refund' = refund
      /\ revenue' = revenue /\ balance' = balance /\ lane' = lane /\ reuse' = reuse
  BY DEF EvidenceAges, WarrantyEnds, orderVars, deliveryVars, moneyVars
<1>3. /\ evidence' \in [Orders -> Evidences] /\ later' = later
      /\ evidence'[o] = "missing" => evidence[o] = "missing"
      /\ \A p \in Orders : p # o => evidence'[p] = evidence[p]
  <2>1. evidence \in [Orders -> Evidences] /\ "aged" \in Evidences
    BY <1>1 DEF TypeOK, Evidences
  <2>2. CASE EvidenceAges(o)
    BY <2>1, <2>2 DEF EvidenceAges
  <2>3. CASE WarrantyEnds(o)
    BY <2>1, <2>3 DEF WarrantyEnds, deliveryVars
  <2> QED BY <2>2, <2>3
<1>4. /\ order' \in [Orders -> OrderRows] /\ order'[o].status = order[o].status
      /\ order'[o].channel = order[o].channel
      /\ order'[o].verifyMethod = order[o].verifyMethod
      /\ \A p \in Orders : p # o => order'[p] = order[p]
  <2>1. order \in [Orders -> OrderRows]
    BY <1>1 DEF TypeOK, OrderRows
  <2>2. CASE EvidenceAges(o)
    BY <2>1, <2>2 DEF EvidenceAges, orderVars
  <2>3. CASE WarrantyEnds(o)
    <3> DEFINE r == [order[o] EXCEPT !.warranty = "over"]
    <3>1. r \in OrderRows /\ r.status = order[o].status /\ r.channel = order[o].channel
          /\ r.verifyMethod = order[o].verifyMethod
      BY <2>1 DEF OrderRows
    <3>2. order' = [order EXCEPT ![o] = r]
      BY <2>3 DEF WarrantyEnds
    <3> HIDE DEF r
    <3> QED BY <1>1, <3>1, <3>2, OrderRow
  <2> QED BY <2>2, <2>3
<1>5. TypeOK'
  BY <1>1, <1>2, <1>3, <1>4 DEF TypeOK, OrderRows
<1>6. /\ Stage(o)' = Stage(o) /\ DisputeAgrees(o)' /\ FraudAgrees(o)'
      /\ EvidenceAgrees(o)'
  BY <1>1, <1>2, <1>3, <1>4
  DEF Stage, OrderInv, DisputeAgrees, FraudAgrees, EvidenceAgrees, RemovalAgrees
<1>7. /\ \A p \in Orders : p # o => Untouched(p)
      /\ DeliveryMoves(delivery[o], delivery'[o])
  BY <1>2, <1>3, <1>4 DEF Untouched, SameRows, DeliveryMoves
<1> QED
  BY <1>2, <1>4, <1>5, <1>6, <1>7, StageKeeps

\* Withdrawals move money between two fields of the balance.
LEMMA WithdrawalsKeep ==
  ASSUME IInv,
         \/ \E amount \in 1..balance.withdrawable : Withdraw(amount)
         \/ \E amount \in 1..balance.withdrawn : ReturnWithdrawal(amount)
  PROVE  IInv' /\ Quiet
<1>1. TypeOK
  BY DEF IInv
<1>2. /\ balance.withdrawable \in Nat /\ balance.debt \in Nat
      /\ balance.lifetime \in Nat /\ balance.withdrawn \in Nat
      /\ balance \in Balances
  BY <1>1, BalanceFields DEF TypeOK, Balances
<1>3. /\ order' = order /\ dispute' = dispute /\ handoff' = handoff /\ holds' = holds
      /\ finding' = finding /\ delivery' = delivery
      /\ evidence' = evidence /\ later' = later
      /\ settlement' = settlement /\ refund' = refund
      /\ revenue' = revenue /\ lane' = lane /\ reuse' = reuse
  BY DEF Withdraw, ReturnWithdrawal, orderVars, deliveryVars
<1>4. PICK w \in Nat, t \in Nat :
        /\ w + t = balance.withdrawable + balance.withdrawn
        /\ balance' = [balance EXCEPT !.withdrawable = w, !.withdrawn = t]
  <2>1. ASSUME NEW amount \in 1..balance.withdrawable, Withdraw(amount)
        PROVE  \E w \in Nat, t \in Nat :
                 /\ w + t = balance.withdrawable + balance.withdrawn
                 /\ balance' = [balance EXCEPT !.withdrawable = w, !.withdrawn = t]
    <3>1. PICK w \in Nat : w = balance.withdrawable - amount
      BY <1>2
    <3>2. PICK t \in Nat : t = balance.withdrawn + amount
      BY <1>2
    <3>3. w + t = balance.withdrawable + balance.withdrawn
      BY <1>2, <3>1, <3>2
    <3>4. balance' = [balance EXCEPT !.withdrawable = w, !.withdrawn = t]
      BY <2>1, <3>1, <3>2 DEF Withdraw
    <3> QED BY <3>3, <3>4
  <2>2. ASSUME NEW amount \in 1..balance.withdrawn, ReturnWithdrawal(amount)
        PROVE  \E w \in Nat, t \in Nat :
                 /\ w + t = balance.withdrawable + balance.withdrawn
                 /\ balance' = [balance EXCEPT !.withdrawable = w, !.withdrawn = t]
    <3>1. PICK w \in Nat : w = balance.withdrawable + amount
      BY <1>2
    <3>2. PICK t \in Nat : t = balance.withdrawn - amount
      BY <1>2
    <3>3. w + t = balance.withdrawable + balance.withdrawn
      BY <1>2, <3>1, <3>2
    <3>4. balance' = [balance EXCEPT !.withdrawable = w, !.withdrawn = t]
      BY <2>2, <3>1, <3>2 DEF ReturnWithdrawal
    <3> QED BY <3>3, <3>4
  <2> QED BY <2>1, <2>2
<1>5. /\ balance' \in Balances /\ balance'.withdrawable = w /\ balance'.withdrawn = t
      /\ balance'.debt = balance.debt /\ balance'.lifetime = balance.lifetime
  BY <1>2, <1>4 DEF Balances
<1>6. TypeOK'
  BY <1>1, <1>3, <1>5 DEF TypeOK, Balances
<1>7. ASSUME NEW p \in Orders
      PROVE  OrderInv(p)' /\ Earned(p)' = Earned(p) /\ KeepsMoney(p)
  BY <1>3, UntouchedKeeps DEF IInv, Untouched, SameRows
<1>8. \A l \in Lanes : ReadPast(l)'
  BY <1>3 DEF IInv, ReadPast, Row, At
<1>9. BooksBalance'
  <2>1. [p \in Orders |-> Earned(p)]' = [p \in Orders |-> Earned(p)]
    BY <1>7
  <2>2. /\ balance.withdrawable + balance.withdrawn - balance.debt = balance.lifetime
        /\ balance.lifetime = SumFunction([p \in Orders |-> Earned(p)])
    BY DEF IInv, BooksBalance
  <2>3. w + t - balance.debt = balance.lifetime
    BY <1>2, <1>4, <2>2
  <2> QED BY <1>5, <2>1, <2>2, <2>3 DEF BooksBalance
<1> QED
  BY <1>5, <1>6, <1>7, <1>8, <1>9 DEF IInv, Quiet

-----------------------------------------------------------------------------
(* The invariant is inductive *)

\* What a step means for the money: nothing, an earning or a refund.
Classified ==
  Quiet \/ (\E o \in Orders : Earns(o)) \/ (\E o \in Orders : Refunds(o))

LEMMA StutterKeeps == IInv /\ UNCHANGED vars => IInv' /\ Quiet
<1> SUFFICES ASSUME IInv, UNCHANGED vars PROVE IInv' /\ Quiet
  OBVIOUS
<1>1. /\ order' = order /\ settlement' = settlement /\ dispute' = dispute
      /\ handoff' = handoff /\ holds' = holds /\ finding' = finding
      /\ delivery' = delivery
      /\ evidence' = evidence /\ later' = later /\ refund' = refund
      /\ revenue' = revenue /\ balance' = balance /\ lane' = lane
      /\ reuse' = reuse
  BY DEF vars
<1>2. TypeOK'
  BY <1>1 DEF IInv, TypeOK
<1>3. \A p \in Orders : OrderInv(p)' /\ Earned(p)' = Earned(p) /\ KeepsMoney(p)
  BY <1>1, UntouchedKeeps DEF IInv, Untouched, SameRows
<1>4. \A l \in Lanes : ReadPast(l)'
  BY <1>1 DEF IInv, ReadPast, Row, At
<1>5. BooksBalance'
  BY <1>1, <1>3, BooksStay DEF IInv
<1> QED
  BY <1>1, <1>2, <1>3, <1>4, <1>5 DEF IInv, Quiet

\* Requests of staff and customers.
LEMMA RequestsKeep ==
  ASSUME IInv, NEW l \in Lanes, RequestStep(l)
  PROVE  IInv' /\ Classified
<1>1. ASSUME NEW o \in Orders, NEW n \in Rows,
             \/ ReadCustomerApprove(l, o, n) \/ ReadAdminApprove(l, o, n)
             \/ ReadForceApprove(l, o, n) \/ ReadCancel(l, o, n)
             \/ ReadReturn(l, o, n)
      PROVE  IInv' /\ Quiet
  BY <1>1, RowReadsKeep
<1>2. ASSUME NEW o \in Orders, ReadCreate(l, o) \/ ReadDispute(l, o)
      PROVE  IInv' /\ Quiet
  BY <1>2, OrderReadsKeep
<1>3. CASE Approve(l) \/ ReturnToReview(l)
  BY <1>3, ApprovalsKeep DEF Classified
<1>4. CASE AdminRelease(l)
  BY <1>4, ReleasesKeep DEF Classified
<1>5. CASE CancelSettlement(l)
  BY <1>5, CancelSettlementKeeps DEF Classified
<1>6. CASE CreateSettlement(l)
  BY <1>6, CreateSettlementKeeps DEF Classified
<1>7. CASE OpenOrderDispute(l)
  <2>1. At(l) \in Orders
    BY <1>7 DEF IInv, ReadPast, OpenOrderDispute, Job, OrderJobs, At
  <2>2. PICK o \in Orders : o = At(l)
    BY <2>1
  <2> QED BY <1>7, <2>2, DisputesKeep DEF Classified
<1> QED
  BY <1>1, <1>2, <1>3, <1>4, <1>5, <1>6, <1>7 DEF RequestStep, Classified

\* The workers' sweeps.
LEMMA SweepsKeep ==
  ASSUME IInv, NEW l \in SweepLanes, SweepStep(l)
  PROVE  IInv' /\ Classified
<1> l \in Lanes
  BY DEF Lanes
<1>1. ASSUME NEW o \in Orders, SelectAccept(l, o) \/ StartRecheck(l, o)
      PROVE  IInv' /\ Quiet
  BY <1>1, OrderReadsKeep, StartRecheckKeeps
<1>2. ASSUME NEW o \in Orders, NEW n \in Rows,
             SelectApprove(l, o, n) \/ SelectRelease(l, o, n)
      PROVE  IInv' /\ Quiet
  BY <1>2, RowReadsKeep
<1>3. CASE AutoAccept(l)
  BY <1>3, AcceptsKeep DEF Classified
<1>4. CASE AutoApprove(l)
  BY <1>4, ApprovalsKeep DEF Classified
<1>5. CASE AutoRelease(l)
  BY <1>5, ReleasesKeep DEF Classified
<1>6. CASE ReadRecheck(l) \/ FetchPresent(l) \/ FetchRemoved(l)
  BY <1>6, ReadRecheckKeeps, FetchKeeps DEF Classified
<1>7. CASE RecordRestored(l) \/ RecordPresent(l) \/ RecordRemoved(l)
  BY <1>7, RecordsKeep DEF Classified
<1> QED
  BY <1>1, <1>2, <1>3, <1>4, <1>5, <1>6, <1>7 DEF SweepStep, Classified

\* Handlers that work in one locked transaction.
LEMMA OrderStepsKeep ==
  ASSUME IInv, NEW o \in Orders, OrderStep(o)
  PROVE  IInv' /\ Classified
<1>1. CASE ConfirmDelivery(o)
  BY <1>1, AcceptsKeep DEF Classified
<1>2. CASE ConfirmFlagged(o)
  BY <1>2, FlagsKeep DEF Classified
<1>3. CASE MarkUnderReview(o) \/ RestoreDispute(o)
  BY <1>3, DisputesKeep DEF Classified
<1>4. CASE RefundDispute(o) \/ ForceCancel(o) \/ FinanceApprove(o)
  BY <1>4, RefundsKeep DEF Classified
<1>5. CASE \/ ReviewHandoff(o)
           \/ \E h \in Signals : ClearHold(o, h) \/ ConfirmFraud(o, h)
  BY <1>5, FraudDecisionsKeep DEF Classified
<1>6. CASE OverrideFailed(o) \/ VerifiedAgain(o)
  BY <1>6, VerificationKeeps DEF Classified
<1>7. CASE EvidenceAges(o) \/ WarrantyEnds(o)
  BY <1>7, WorldKeeps DEF Classified
<1> QED
  BY <1>1, <1>2, <1>3, <1>4, <1>5, <1>6, <1>7 DEF OrderStep

LEMMA NextKeeps == IInv /\ [Next]_vars => IInv' /\ Classified
<1> SUFFICES ASSUME IInv, [Next]_vars PROVE IInv' /\ Classified
  OBVIOUS
<1>1. ASSUME NEW l \in RequestLanes, RequestStep(l) PROVE IInv' /\ Classified
  BY <1>1, RequestsKeep DEF Lanes
<1>2. ASSUME NEW l \in SweepLanes, SweepStep(l) PROVE IInv' /\ Classified
  BY <1>2, SweepsKeep
<1>3. ASSUME NEW l \in Lanes, Abandon(l) \/ LaneFlagged(l)
      PROVE  IInv' /\ Classified
  BY <1>3, AbandonKeeps, FlagsKeep DEF Classified
<1>4. ASSUME NEW o \in Orders, OrderStep(o) PROVE IInv' /\ Classified
  BY <1>4, OrderStepsKeep
<1>5. CASE \/ \E amount \in 1..balance.withdrawable : Withdraw(amount)
           \/ \E amount \in 1..balance.withdrawn : ReturnWithdrawal(amount)
  BY <1>5, WithdrawalsKeep DEF Classified
<1>6. CASE UNCHANGED vars
  BY <1>6, StutterKeeps DEF Classified
<1> QED
  BY <1>1, <1>2, <1>3, <1>4, <1>5, <1>6 DEF Next

\* The rows of every order agree with each other and with the balance, and what
\* every request and sweep has read is the past, in every reachable state.
THEOREM Invariance == Spec => []IInv
<1>1. IInv /\ [Next]_vars => IInv'
  BY NextKeeps
<1> QED
  BY <1>1, InitIInv, PTL DEF Spec

-----------------------------------------------------------------------------
(* Theorems *)

\* Every column keeps its type and no balance goes below zero, with any orders,
\* amounts, requests and sweeps.
THEOREM TypeCorrect == Spec => []TypeOK
<1>1. IInv => TypeOK
  BY DEF IInv
<1> QED
  BY <1>1, Invariance, PTL

\* Withdrawable plus withdrawn less debt is what released settlements and
\* compensations of all orders add up to, and so is lifetimeEarnings, however
\* releases, clawbacks, repayments and withdrawals follow each other.
THEOREM BooksAlwaysBalance == Spec => []BooksBalance
<1>1. IInv => BooksBalance
  BY DEF IInv
<1> QED
  BY <1>1, Invariance, PTL

\* Order, settlement, revenue and refund rows agree although requests and
\* sweeps act on stale reads.
THEOREM OutcomesAlwaysAgree == Spec => []OutcomesAgree
<1>1. IInv => OutcomesAgree
  <2> SUFFICES ASSUME IInv, NEW o \in Orders
               PROVE  LET done == \/ order[o].status = "COMPLETED"
                                  \/ /\ order[o].status = "DISPUTED"
                                     /\ dispute[o].prev = "COMPLETED"
                      IN  /\ Cardinality(Active(o)) <= 1
                          /\ IF Publisher(o) THEN Released(o) <=> done
                             ELSE (revenue[o] = "RECOGNIZED") <=> done
                          /\ (refund[o] # NoRefund) => (order[o].status = "REFUNDED")
                          /\ (order[o].status = "REFUNDED") => (Active(o) = {})
                          /\ (finding[o] # {}) =>
                               /\ order[o].status # "COMPLETED"
                               /\ (order[o].status = "REFUNDED")
                                    <=> (handoff[o] = "APPROVED")
    BY DEF OutcomesAgree
  <2>1. OrderInv(o)
    BY DEF IInv
  <2>2. SettlementAgrees(o) /\ FraudAgrees(o)
    BY <2>1 DEF OrderInv
  <2>3. Cardinality(Active(o)) <= 1
    <3>1. CASE Active(o) = {}
      BY <3>1, FS_EmptySet
    <3>2. CASE Active(o) # {}
      <4>1. PICK n : n \in Active(o)
        BY <3>2
      <4>2. Active(o) = {n}
        BY <2>2, <4>1 DEF SettlementAgrees
      <4> QED BY <4>2, FS_Singleton
    <3> QED BY <3>1, <3>2
  <2>4. Stage(o) = "COMPLETED" <=>
          \/ order[o].status = "COMPLETED"
          \/ order[o].status = "DISPUTED" /\ dispute[o].prev = "COMPLETED"
    BY DEF Stage
  <2>5. order[o].status = "REFUNDED" => Active(o) = {}
    BY <2>2 DEF SettlementAgrees, Stage
  <2> QED
    BY <2>2, <2>3, <2>4, <2>5 DEF SettlementAgrees, FraudAgrees
<1> QED
  BY <1>1, Invariance, PTL

\* Whatever rechecks overlap, and in whatever order they commit, a verified
\* delivery of an automatically verified order has a latest evidence row that
\* shows the link.
THEOREM VerifiedAlwaysShowsLink == Spec => []VerifiedShowsLink
<1>1. IInv => VerifiedShowsLink
  BY DEF IInv, OrderInv, EvidenceAgrees, RemovalAgrees, VerifiedShowsLink
<1> QED
  BY <1>1, Invariance, PTL

\* No step of a request or sweep, however stale what it read, lets an order
\* with confirmed fraud earn.
THEOREM FraudNeverEarns == Spec => FraudEarnsNothing
<1>1. IInv /\ [Next]_vars =>
        \A o \in Orders : finding[o] # {} => Earned(o)' <= Earned(o)
  <2> SUFFICES ASSUME IInv, [Next]_vars, NEW o \in Orders, finding[o] # {}
               PROVE  Earned(o)' <= Earned(o)
    OBVIOUS
  <2>1. Classified /\ IInv'
    BY NextKeeps
  <2>2. /\ Earned(o) \in Nat /\ Earned(o)' \in Nat /\ Net(o) \in Nat
        /\ refund[o].comp \in Nat
    BY <2>1, EarnedNat, NetNat DEF IInv, TypeOK, Earned
  <2>3. CASE KeepsMoney(o)
    BY <2>2, <2>3 DEF KeepsMoney, Earned
  <2>4. ASSUME NEW p \in Orders, Earns(p) PROVE KeepsMoney(o)
    BY <2>4 DEF Earns
  <2>5. CASE Refunds(o)
    <3>0. PICK offset \in BOOLEAN : \E comp \in Compensations(o, offset) :
            comp = 0 /\ refund'[o] = RefundOf(o, comp, offset)
      BY <2>5 DEF Refunds
    <3>1. PICK comp \in Compensations(o, offset) :
            comp = 0 /\ refund'[o] = RefundOf(o, comp, offset)
      BY <3>0
    <3>2. Earned(o)' = 0
      BY <2>5, <3>1, RefundOfBounds DEF Refunds, Earned
    <3> QED BY <2>2, <3>2
  <2>6. ASSUME NEW p \in Orders, Refunds(p), p # o PROVE KeepsMoney(o)
    BY <2>6 DEF Refunds
  <2> QED
    BY <2>1, <2>3, <2>4, <2>5, <2>6 DEF Classified, Quiet
<1> QED
  BY <1>1, Invariance, PTL DEF Spec, FraudEarnsNothing

\* A release happens only to an approved settlement of a delivered order that
\* nothing blocks at that moment.
THEOREM ReleasesUnblocked == Spec => ReleasedUnblocked
<1> DEFINE A == \A o \in Orders : ~Released(o) /\ Released(o)' =>
              /\ Publisher(o) /\ order[o].status = "DELIVERED"
              /\ delivery[o].state = "VERIFIED" /\ holds[o] = {} /\ finding[o] = {}
              /\ dispute[o].status \notin OpenDispute /\ ~ActiveCase(o)
              /\ \E n \in Active(o) : settlement[o][n].status = "CUSTOMER_APPROVED"
<1>1. IInv /\ [Next]_vars => A
  <2> SUFFICES ASSUME IInv, [Next]_vars, NEW o \in Orders, ~Released(o),
                      Released(o)'
               PROVE  /\ Publisher(o) /\ order[o].status = "DELIVERED"
                      /\ delivery[o].state = "VERIFIED" /\ holds[o] = {}
                      /\ finding[o] = {} /\ dispute[o].status \notin OpenDispute
                      /\ ~ActiveCase(o)
                      /\ \E n \in Active(o) :
                           settlement[o][n].status = "CUSTOMER_APPROVED"
    OBVIOUS
  <2>1. Classified
    BY NextKeeps
  <2>2. ~KeepsMoney(o)
    BY DEF KeepsMoney
  <2>3. Earns(o)
    BY <2>1, <2>2 DEF Classified, Quiet, Earns, Refunds
  <2>4. /\ Publisher(o) /\ Eligible(o) /\ finding[o] = {}
        /\ \E n \in Active(o) : settlement[o][n].status = "CUSTOMER_APPROVED"
    BY <2>3 DEF Earns
  <2> QED
    BY <2>4 DEF Eligible, Unblocked, SafeDispute, OpenDispute, ActiveCase
<1> QED
  BY <1>1, Invariance, PTL DEF Spec, ReleasedUnblocked

\* The state the contract sees.
Seen(o) == IF order[o].status = "REFUNDED" THEN "REFUNDED"
           ELSE IF Released(o) \/ revenue[o] = "RECOGNIZED" THEN "EARNED"
           ELSE "HELD"

\* Requests, sweeps and staff decisions implement the contract of the captured
\* money: earned once, refunded once, a refund undoes the earning.
THEOREM ContractImplemented == Spec => ImplementsContract
<1>1. Init => Contract!Init
  <2> SUFFICES ASSUME Init PROVE Contract!Init
    OBVIOUS
  <2>1. \A o \in Orders : order[o].status = "VERIFIED"
    BY DEF Init
  <2>2. \A o \in Orders : ~Released(o) /\ revenue[o] = "NONE"
    BY DEF Init, Released, NoSettlement
  <2>3. balance.withdrawable + balance.withdrawn - balance.debt = 0
    BY DEF Init, NoBalance
  <2>4. \A o \in Orders : refund[o].amount = 0
    BY DEF Init, NoRefund
  <2> QED
    BY <2>1, <2>2, <2>3, <2>4 DEF Contract!Init
<1>2. IInv /\ [Next]_vars => [Contract!Next]_(Contract!cvars)
  <2> SUFFICES ASSUME IInv, [Next]_vars PROVE [Contract!Next]_(Contract!cvars)
    OBVIOUS
  <2>1. Classified /\ IInv'
    BY NextKeeps
  <2>2. /\ balance.withdrawable + balance.withdrawn - balance.debt = balance.lifetime
        /\ balance'.withdrawable + balance'.withdrawn - balance'.debt = balance'.lifetime
        /\ balance.lifetime \in Nat
    BY <2>1 DEF IInv, BooksBalance, TypeOK
  <2>3. \A p \in Orders : KeepsMoney(p) =>
          /\ Seen(p)' = Seen(p) /\ refund'[p] = refund[p]
          /\ Publisher(p)' <=> Publisher(p)
    BY DEF KeepsMoney, Seen, Publisher
  <2>4. CASE Quiet
    <3>1. \A p \in Orders : /\ Seen(p)' = Seen(p) /\ refund'[p] = refund[p]
                            /\ Publisher(p)' <=> Publisher(p)
      BY <2>3, <2>4 DEF Quiet
    <3>2. balance'.lifetime = balance.lifetime
      BY <2>4 DEF Quiet
    <3> QED BY <2>2, <3>1, <3>2 DEF Contract!cvars, Seen
  <2>5. ASSUME NEW o \in Orders, Earns(o) PROVE Contract!Earn(o)
    <3>1. \A p \in Orders : p # o => /\ Seen(p)' = Seen(p) /\ refund'[p] = refund[p]
                                     /\ Publisher(p)' <=> Publisher(p)
      BY <2>3, <2>5 DEF Earns
    <3>2. refund'[o] = refund[o] /\ (Publisher(o)' <=> Publisher(o))
      BY <2>5 DEF Earns, Publisher
    <3>3. Seen(o) = "HELD" /\ Seen(o)' = "EARNED"
      <4>1. Publisher(o) => revenue[o] = "NONE"
        BY DEF IInv, OrderInv, SettlementAgrees
      <4> QED BY <2>5, <4>1 DEF Earns, Seen
    <3>4. balance'.lifetime = balance.lifetime + (IF Publisher(o) THEN Net(o) ELSE 0)
      BY <2>2, <2>5 DEF Earns
    <3>5. [p \in Orders |-> Seen(p)'] = [[p \in Orders |-> Seen(p)] EXCEPT ![o] = "EARNED"]
      BY <3>1, <3>3
    <3>6. /\ {p \in Orders : Publisher(p)}' = {p \in Orders : Publisher(p)}
          /\ [p \in Orders |-> refund[p].amount]' = [p \in Orders |-> refund[p].amount]
      BY <3>1, <3>2
    <3>7. Contract!Earned(o) = IF Publisher(o) THEN Net(o) ELSE 0
      BY DEF Contract!Earned
    <3>8. (balance.withdrawable + balance.withdrawn - balance.debt)'
            = balance.withdrawable + balance.withdrawn - balance.debt
              + Contract!Earned(o)
      BY <2>2, <3>4, <3>7
    <3> QED
      BY <3>3, <3>5, <3>6, <3>8 DEF Contract!Earn, Seen
  <2>6. ASSUME NEW o \in Orders, Refunds(o)
        PROVE  \E amount, comp \in 0..Gross[o] : Contract!Refund(o, amount, comp)
    <3>0. PICK offset \in BOOLEAN : \E comp \in Compensations(o, offset) :
            /\ refund'[o] = RefundOf(o, comp, offset)
            /\ balance'.lifetime =
                 balance.lifetime - (IF Released(o) THEN Net(o) ELSE 0) + comp
      BY <2>6 DEF Refunds
    <3>1. PICK comp \in Compensations(o, offset) :
            /\ refund'[o] = RefundOf(o, comp, offset)
            /\ balance'.lifetime =
                 balance.lifetime - (IF Released(o) THEN Net(o) ELSE 0) + comp
      BY <3>0
    <3>2. PICK amount : amount = RefundOf(o, comp, offset).amount
      OBVIOUS
    <3>3. /\ comp \in 0..Gross[o] /\ amount \in 0..Gross[o]
          /\ ~Publisher(o) => comp = 0
          /\ amount = Gross[o] \/ amount + comp <= Gross[o]
      BY <3>2, RefundOfBounds, NetNat
    <3>4. \A p \in Orders : p # o => /\ Seen(p)' = Seen(p) /\ refund'[p] = refund[p]
                                     /\ Publisher(p)' <=> Publisher(p)
      BY <2>3, <2>6 DEF Refunds
    <3>5. Publisher(o)' <=> Publisher(o)
      BY <2>6 DEF Refunds, Publisher
    <3>6. Seen(o) # "REFUNDED" /\ Seen(o)' = "REFUNDED"
      BY <2>6 DEF Refunds, Seen
    <3>7. (IF Released(o) THEN Net(o) ELSE 0)
            = IF Seen(o) = "EARNED" THEN (IF Publisher(o) THEN Net(o) ELSE 0) ELSE 0
      <4>1. /\ Publisher(o) => revenue[o] = "NONE"
            /\ ~Publisher(o) => Active(o) = {}
        BY DEF IInv, OrderInv, SettlementAgrees
      <4>2. ~Publisher(o) => ~Released(o)
        BY <4>1 DEF Active, Released
      <4> QED BY <2>6, <4>1, <4>2 DEF Refunds, Seen
    <3>8. Contract!Refund(o, amount, comp)
      BY <2>2, <3>1, <3>2, <3>3, <3>4, <3>5, <3>6, <3>7
      DEF Contract!Refund, Contract!Earned, Seen
    <3> QED BY <3>3, <3>8
  <2> QED
    BY <2>1, <2>4, <2>5, <2>6 DEF Classified, Contract!Next
<1> QED
  BY <1>1, <1>2, Invariance, PTL DEF Spec, ImplementsContract, Contract!Spec
=============================================================================
