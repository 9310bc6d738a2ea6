------------------------ MODULE OrderSettlementProofs ------------------------
(***************************************************************************)
(* Theorems about OrderSettlement, for any number of checkouts, callbacks, *)
(* operators, orders and failures, and any market of intents.              *)
(***************************************************************************)
EXTENDS OrderSettlement, FiniteSetTheorems, TLAPS

Outcomes == {"SUCCEEDED", "FAILED"}
Exists(o) == orders[o].status # "none"
Prepaid == {"CREDITS", "WALLET_TOPUP"}

\* Orders are minted in the order of their numbers.
Numbered == \A o \in Orders : Exists(o) <=> o <= minted

\* No provider and no callback knows an order that was not minted.
Unminted == \A o \in Orders : ~Exists(o) => psp[o] = "none" /\ orders[o].ref = "none"

\* Only a bank transfer awaits a transfer, and one that was announced to the
\* customer is pending no more.
OnTransfer ==
    \A o \in Orders :
        /\ orders[o].status = "AWAITING_TRANSFER" => ~AtProvider(o)
        /\ psp[o] # "none" /\ ~AtProvider(o) => orders[o].status # "PENDING"

\* A checkout that issues or persists knows a minted order.
Shopped ==
    \A b \in Buyers : buyers[b].step \in {"issue", "persist"} =>
        buyers[b].order \in Orders /\ Exists(buyers[b].order)

\* The marker, a boost and a ledger entry belong to orders that succeeded; an
\* entry has its wallet.
GrantsFollow ==
    \A o \in Orders :
        /\ orders[o].granted \/ addons[o] # 0 \/ o \in ledger => orders[o].status = "SUCCEEDED"
        /\ o \in ledger => bought[o].type \in Prepaid
        /\ o \in ledger /\ bought[o].type = "CREDITS" => aiWallet

\* Where an actor stands tells what is true of its order.
ActorKnows(a) ==
    LET o == task[a].order
        step == task[a].step
    IN  /\ step \notin {"idle", "next"} => o \in Orders /\ Exists(o)
        /\ step \in {"repoint", "read", "flip"} => psp[o] = "paid"
        /\ step = "fail" => psp[o] = "failed" \/ ~AtProvider(o)
        /\ step \in {"grant", "wallet", "modules", "mark"} => orders[o].status = "SUCCEEDED"
        /\ step = "wallet" => bought[o].type \in Prepaid
        /\ step = "modules" => bought[o].type = "SUBSCRIPTION"
        /\ step = "grant" /\ bought[o].type = "ADDON" => addons[o] = 0
        /\ step = "mark" /\ bought[o].type = "CREDITS" => o \in ledger

ActorsKnow == \A a \in Actors : ActorKnows(a)

\* One actor at a time is about to create a boost.
OneGranter ==
    \A a, b \in Actors :
        /\ a # b /\ task[a].step = "grant" /\ task[b].step = "grant"
        /\ task[a].order = task[b].order
        => bought[task[a].order].type # "ADDON"

\* The sweep lists orders that succeeded, and no boosts.
SweepKnows ==
    \A c \in sweep.todo :
        orders[c.order].status = "SUCCEEDED" /\ bought[c.order].type # "ADDON"

IInv == /\ TypeOK /\ Numbered /\ Unminted /\ OnTransfer /\ Shopped /\ GrantsFollow
        /\ ActorsKnow /\ OneGranter /\ SweepKnows
        /\ StatusFollowsMoney /\ GrantedOnce /\ StampedCreditsLanded /\ OneCurrency

-----------------------------------------------------------------------------
\* What the assumption says of the bounds and of the sweeper.
LEMMA Bounds ==
    /\ MaxOrders \in Nat /\ MaxFaults \in Nat /\ MaxCurrencyChanges \in Nat
    /\ Sweeper \notin Handlers /\ Intents \subseteq Intent
BY SettlementAssumption

LEMMA OrdersAreNaturals == Orders \subseteq Nat /\ \A o \in Orders : 1 <= o /\ o <= MaxOrders
BY Bounds DEF Orders

\* The rank of an order that succeeds is at most the number of orders.
LEMMA RankBounded ==
    ASSUME NEW o \in Orders PROVE Cardinality(Succeeded \ {o}) + 1 \in 0 .. MaxOrders
<1>1. IsFiniteSet(Orders) /\ Cardinality(Orders) = MaxOrders
  <2>1. 1 \in Int /\ MaxOrders \in Int
    BY Bounds
  <2>2. IsFiniteSet(1 .. MaxOrders)
        /\ Cardinality(1 .. MaxOrders) = IF 1 > MaxOrders THEN 0 ELSE MaxOrders - 1 + 1
    BY <2>1, FS_Interval
  <2>. QED  BY <2>2, Bounds DEF Orders
<1>2. IsFiniteSet(Orders \ {o}) /\ Cardinality(Orders \ {o}) = MaxOrders - 1
  BY <1>1, FS_RemoveElement
<1>3. Succeeded \ {o} \subseteq Orders \ {o}
  BY DEF Succeeded
<1>4. IsFiniteSet(Succeeded \ {o}) /\ Cardinality(Succeeded \ {o}) <= MaxOrders - 1
  BY <1>2, <1>3, FS_Subset
<1>5. Cardinality(Succeeded \ {o}) \in Nat
  BY <1>4, FS_CardinalityType
<1>. QED  BY <1>4, <1>5, Bounds

\* The initial states.
LEMMA InitInv == Init => IInv
<1>. SUFFICES ASSUME Init PROVE IInv
  OBVIOUS
<1>1. NoPurchase \in Purchase /\ NoPurchase.type = "ADDON"
  BY DEF NoPurchase, Purchase, Types, Providers, Currencies
<1>2. Away \in Shopping /\ Away.step = "idle"
  BY <1>1 DEF Away, Shopping
<1>3. Free \in Task /\ Free.step = "idle"
  BY DEF Free, Task, Steps, Ref
<1>4. [status |-> "none", ref |-> "none", granted |-> FALSE, at |-> 0] \in Order
  BY Bounds DEF Order, Status, Ref
<1>5. [pass |-> 0, todo |-> {}] \in [pass : 0 .. 3, todo : SUBSET Candidate]
  OBVIOUS
<1>6. TypeOK
  <2>1. sub \in [package : Packages \cup {NoPackage}, active : BOOLEAN, open : BOOLEAN,
                 ref : Ref, by : {0} \cup Orders]
    BY DEF Init, Ref
  <2>2. 0 \in 0 .. MaxOrders /\ 0 \in 0 .. MaxFaults /\ 0 \in 0 .. MaxCurrencyChanges
    BY Bounds
  <2>. QED  BY <1>1, <1>2, <1>3, <1>4, <1>5, <2>1, <2>2 DEF Init, TypeOK
<1>7. Numbered /\ Unminted /\ OnTransfer /\ Shopped /\ GrantsFollow
  BY <1>2, OrdersAreNaturals DEF Init, Numbered, Unminted, OnTransfer, Shopped, GrantsFollow, Exists
<1>8. ActorsKnow /\ OneGranter /\ SweepKnows
  BY <1>3 DEF Init, ActorsKnow, ActorKnows, OneGranter, SweepKnows
<1>9. StatusFollowsMoney /\ GrantedOnce /\ StampedCreditsLanded /\ OneCurrency
  BY DEF Init, StatusFollowsMoney, GrantedOnce, StampedCreditsLanded, OneCurrency
<1>. QED  BY <1>6, <1>7, <1>8, <1>9 DEF IInv

-----------------------------------------------------------------------------
(***************************************************************************)
(* Types                                                                   *)
(***************************************************************************)

LEMMA ShoppingTypes == NoPurchase \in Purchase /\ Away \in Shopping /\ Away.step = "idle"
BY DEF NoPurchase, Purchase, Types, Providers, Currencies, Away, Shopping

LEMMA TaskTypes == Free \in Task /\ Free.step = "idle" /\ Free.via = "none"
BY DEF Free, Task, Steps, Ref

\* An order, an actor or a checkout that is written keeps its type; the others
\* keep their values.
LEMMA OrderWritten ==
    ASSUME TypeOK, NEW o \in Orders, NEW row \in Order, orders' = [orders EXCEPT ![o] = row]
    PROVE  /\ orders' \in [Orders -> Order] /\ orders'[o] = row
           /\ \A x \in Orders : x # o => orders'[x] = orders[x]
BY DEF TypeOK

LEMMA ActorMoved ==
    ASSUME TypeOK, NEW a \in Actors, NEW t \in Task, task' = [task EXCEPT ![a] = t]
    PROVE  /\ task' \in [Actors -> Task] /\ task'[a] = t
           /\ \A x \in Actors : x # a => task'[x] = task[x]
BY DEF TypeOK

LEMMA BuyerMoved ==
    ASSUME TypeOK, NEW b \in Buyers, NEW s \in Shopping, buyers' = [buyers EXCEPT ![b] = s]
    PROVE  /\ buyers' \in [Buyers -> Shopping] /\ buyers'[b] = s
           /\ \A x \in Buyers : x # b => buyers'[x] = buyers[x]
BY DEF TypeOK

\* The fields of an order, and an order with another status or reference.
LEMMA OrderFields ==
    ASSUME TypeOK, NEW o \in Orders
    PROVE  /\ orders[o] \in Order /\ orders[o].status \in Status /\ orders[o].ref \in Ref
           /\ orders[o].granted \in BOOLEAN /\ orders[o].at \in 0 .. MaxOrders
           /\ \A s \in Status : [orders[o] EXCEPT !.status = s] \in Order
           /\ \A r \in Ref : [orders[o] EXCEPT !.ref = r] \in Order
           /\ \A s \in Status, r \in Ref :
                [orders[o] EXCEPT !.status = s, !.ref = r] \in Order
           /\ \A s \in Status, n \in 0 .. MaxOrders :
                [orders[o] EXCEPT !.status = s, !.at = n] \in Order
           /\ [orders[o] EXCEPT !.granted = TRUE] \in Order
BY DEF TypeOK, Order

LEMMA StatusValues ==
    /\ {"none", "PENDING", "AWAITING_TRANSFER", "SUCCEEDED", "FAILED"} \subseteq Status
    /\ {"none", "oid", "session", "subscription", "transfer"} \subseteq Ref
BY DEF Status, Unsettled, Ref

\* What a step may do to an order: nothing; give it another reference; mark it;
\* mint it; announce a transfer; let it succeed; let it fail.
Renamed(o) ==
    /\ Exists(o) /\ \E r \in Ref : orders'[o] = [orders[o] EXCEPT !.ref = r]
    /\ UNCHANGED <<bought, minted>>

Marked(o) ==
    /\ bought[o].type = "CREDITS" => o \in ledger
    /\ orders[o].status = "SUCCEEDED"
    /\ orders'[o] = [orders[o] EXCEPT !.granted = TRUE]
    /\ UNCHANGED <<bought, minted>>

Minted(o) ==
    /\ o = minted + 1 /\ minted' = o
    /\ orders'[o] = [orders[o] EXCEPT !.status = "PENDING"]
    /\ \A x \in Orders : x # o => bought'[x] = bought[x]

Announced(o) ==
    /\ orders[o].status = "PENDING" /\ ~AtProvider(o)
    /\ orders'[o] = [orders[o] EXCEPT !.status = "AWAITING_TRANSFER", !.ref = "transfer"]
    /\ UNCHANGED <<bought, minted>>

Settles(o) ==
    /\ orders[o].status \in Unsettled /\ psp[o] = "paid"
    /\ \E n \in 0 .. MaxOrders :
         orders'[o] = [orders[o] EXCEPT !.status = "SUCCEEDED", !.at = n]
    /\ UNCHANGED <<bought, minted>>

Fails(o) ==
    /\ orders[o].status \in Unsettled /\ (psp[o] = "failed" \/ ~AtProvider(o))
    /\ orders'[o] = [orders[o] EXCEPT !.status = "FAILED"]
    /\ UNCHANGED <<bought, minted>>

OrderChange(o) ==
    Renamed(o) \/ Marked(o) \/ Minted(o) \/ Announced(o) \/ Settles(o) \/ Fails(o)

OneOrderChanges ==
    /\ orders' \in [Orders -> Order]
    /\ \/ UNCHANGED <<orders, bought, minted>>
       \/ \E o \in Orders :
            OrderChange(o) /\ \A x \in Orders : x # o => orders'[x] = orders[x]

\* The steps of a checkout.
LEMMA BuyOrders ==
    ASSUME TypeOK, Shopped, NEW b \in Buyers, Buy(b)
    PROVE  OneOrderChanges
<1>1. CASE Checkout(b) \/ Abandon(b)
  BY <1>1 DEF Checkout, Abandon, OneOrderChanges, TypeOK
<1>2. CASE Create(b)
  <2>. DEFINE o == minted + 1
  <2>1. o \in Orders
    BY <1>2, Bounds DEF Create, TypeOK, Orders
  <2>2. minted' = o /\ \A x \in Orders : x # o => bought'[x] = bought[x]
    BY <1>2 DEF Create, TypeOK
  <2>3. orders' = [orders EXCEPT ![o] = [orders[o] EXCEPT !.status = "PENDING"]]
    BY <1>2 DEF Create
  <2>. HIDE DEF o
  <2>4. /\ orders' \in [Orders -> Order] /\ orders'[o] = [orders[o] EXCEPT !.status = "PENDING"]
        /\ \A x \in Orders : x # o => orders'[x] = orders[x]
    BY <2>1, <2>3, OrderWritten, OrderFields, StatusValues
  <2>5. Minted(o)
    BY <2>2, <2>4 DEF Minted, o
  <2>. QED  BY <2>1, <2>4, <2>5 DEF OneOrderChanges, OrderChange
<1>3. CASE Issue(b)
  <2>. DEFINE o == buyers[b].order
  <2>0. UNCHANGED <<bought, minted>>
    BY <1>3 DEF Issue
  <2>1. o \in Orders /\ Exists(o)
    BY <1>3 DEF Issue, Shopped
  <2>2. \/ orders' = orders
        \/ orders' = [orders EXCEPT ![o] = [orders[o] EXCEPT !.ref = "oid"]]
        \/ /\ orders[o].status = "PENDING" /\ ~AtProvider(o)
           /\ orders' = [orders EXCEPT ![o] = [orders[o] EXCEPT !.status = "AWAITING_TRANSFER",
                                                                !.ref = "transfer"]]
    BY <1>3 DEF Issue, AtProvider
  <2>. HIDE DEF o
  <2>3. CASE orders' = orders
    BY <2>0, <2>3 DEF OneOrderChanges, TypeOK
  <2>4. CASE orders' = [orders EXCEPT ![o] = [orders[o] EXCEPT !.ref = "oid"]]
    <3>1. /\ orders' \in [Orders -> Order] /\ orders'[o] = [orders[o] EXCEPT !.ref = "oid"]
          /\ \A x \in Orders : x # o => orders'[x] = orders[x]
      BY <2>1, <2>4, OrderWritten, OrderFields, StatusValues
    <3>2. Renamed(o)
      BY <2>0, <2>1, <3>1, StatusValues DEF Renamed
    <3>. QED  BY <2>1, <3>1, <3>2 DEF OneOrderChanges, OrderChange
  <2>5. CASE /\ orders[o].status = "PENDING" /\ ~AtProvider(o)
             /\ orders' = [orders EXCEPT ![o] = [orders[o] EXCEPT !.status = "AWAITING_TRANSFER",
                                                                  !.ref = "transfer"]]
    <3>1. /\ orders' \in [Orders -> Order]
          /\ orders'[o] = [orders[o] EXCEPT !.status = "AWAITING_TRANSFER", !.ref = "transfer"]
          /\ \A x \in Orders : x # o => orders'[x] = orders[x]
      BY <2>1, <2>5, OrderWritten, OrderFields, StatusValues
    <3>2. Announced(o)
      BY <2>0, <2>5, <3>1 DEF Announced
    <3>. QED  BY <2>1, <3>1, <3>2 DEF OneOrderChanges, OrderChange
  <2>. QED  BY <2>2, <2>3, <2>4, <2>5
<1>4. CASE PersistSession(b)
  <2>. DEFINE o == buyers[b].order
  <2>1. o \in Orders /\ Exists(o)
    BY <1>4 DEF PersistSession, Shopped
  <2>2. /\ orders' = [orders EXCEPT ![o] = [orders[o] EXCEPT !.ref = "session"]]
        /\ UNCHANGED <<bought, minted>>
    BY <1>4 DEF PersistSession
  <2>. HIDE DEF o
  <2>3. /\ orders' \in [Orders -> Order] /\ orders'[o] = [orders[o] EXCEPT !.ref = "session"]
        /\ \A x \in Orders : x # o => orders'[x] = orders[x]
    BY <2>1, <2>2, OrderWritten, OrderFields, StatusValues
  <2>4. Renamed(o)
    BY <2>1, <2>2, <2>3, StatusValues DEF Renamed
  <2>. QED  BY <2>1, <2>3, <2>4 DEF OneOrderChanges, OrderChange
<1>. QED  BY <1>1, <1>2, <1>3, <1>4 DEF Buy

\* The steps of a settlement.
LEMMA SettleOrders ==
    ASSUME TypeOK, NEW h \in Handlers, ActorKnows(h), Settle(h)
    PROVE  OneOrderChanges
<1>. DEFINE o == task[h].order
<1>1. CASE Repoint(h)
  <2>1. o \in Orders /\ Exists(o)
    BY <1>1 DEF Repoint, ActorKnows
  <2>2. /\ orders' = [orders EXCEPT ![o] = [orders[o] EXCEPT !.ref = "subscription"]]
        /\ UNCHANGED <<bought, minted>>
    BY <1>1 DEF Repoint
  <2>. HIDE DEF o
  <2>3. /\ orders' \in [Orders -> Order] /\ orders'[o] = [orders[o] EXCEPT !.ref = "subscription"]
        /\ \A x \in Orders : x # o => orders'[x] = orders[x]
    BY <2>1, <2>2, OrderWritten, OrderFields, StatusValues
  <2>4. Renamed(o)
    BY <2>1, <2>2, <2>3, StatusValues DEF Renamed
  <2>. QED  BY <2>1, <2>3, <2>4 DEF OneOrderChanges, OrderChange
<1>2. CASE Read(h)
  BY <1>2 DEF Read, OneOrderChanges, TypeOK
<1>3. CASE Flip(h) /\ Flippable(o)
  <2>1. o \in Orders /\ psp[o] = "paid" /\ orders[o].status \in Unsettled
    BY <1>3 DEF Flip, Flippable, ActorKnows
  <2>. DEFINE n == Cardinality(Succeeded \ {o}) + 1
  <2>2. n \in 0 .. MaxOrders
    BY <2>1, RankBounded
  <2>3. /\ orders' = [orders EXCEPT ![o] = [orders[o] EXCEPT !.status = "SUCCEEDED", !.at = n]]
        /\ UNCHANGED <<bought, minted>>
    BY <1>3 DEF Flip, MarkSucceeded
  <2>. HIDE DEF o, n
  <2>4. /\ orders' \in [Orders -> Order]
        /\ orders'[o] = [orders[o] EXCEPT !.status = "SUCCEEDED", !.at = n]
        /\ \A x \in Orders : x # o => orders'[x] = orders[x]
    BY <2>1, <2>2, <2>3, OrderWritten, OrderFields, StatusValues
  <2>5. Settles(o)
    BY <2>1, <2>2, <2>3, <2>4 DEF Settles
  <2>. QED  BY <2>1, <2>4, <2>5 DEF OneOrderChanges, OrderChange
<1>4. CASE Fail(h) /\ Flippable(o)
  <2>1. o \in Orders /\ (psp[o] = "failed" \/ ~AtProvider(o)) /\ orders[o].status \in Unsettled
    BY <1>4 DEF Fail, Flippable, ActorKnows
  <2>2. /\ orders' = [orders EXCEPT ![o] = [orders[o] EXCEPT !.status = "FAILED"]]
        /\ UNCHANGED <<bought, minted>>
    BY <1>4 DEF Fail
  <2>. HIDE DEF o
  <2>3. /\ orders' \in [Orders -> Order] /\ orders'[o] = [orders[o] EXCEPT !.status = "FAILED"]
        /\ \A x \in Orders : x # o => orders'[x] = orders[x]
    BY <2>1, <2>2, OrderWritten, OrderFields, StatusValues
  <2>4. Fails(o)
    BY <2>1, <2>2, <2>3 DEF Fails
  <2>. QED  BY <2>1, <2>3, <2>4 DEF OneOrderChanges, OrderChange
<1>5. CASE (Flip(h) \/ Fail(h)) /\ ~Flippable(o)
  BY <1>5 DEF Flip, Fail, OneOrderChanges, TypeOK
<1>. QED  BY <1>1, <1>2, <1>3, <1>4, <1>5 DEF Settle

\* The steps of a grant.
LEMMA ProvisionOrders ==
    ASSUME TypeOK, NEW a \in Actors, ActorKnows(a), Provision(a)
    PROVE  OneOrderChanges
<1>1. CASE Grant(a) \/ CreateWallet(a) \/ Modules(a)
  BY <1>1 DEF Grant, CreateWallet, Modules, OneOrderChanges, TypeOK
<1>2. CASE Mark(a)
  <2>. DEFINE o == task[a].order
  <2>1. /\ o \in Orders /\ orders[o].status = "SUCCEEDED"
        /\ bought[o].type = "CREDITS" => o \in ledger
    BY <1>2 DEF Mark, ActorKnows
  <2>2. /\ orders' = [orders EXCEPT ![o] = [orders[o] EXCEPT !.granted = TRUE]]
        /\ UNCHANGED <<bought, minted>>
    BY <1>2 DEF Mark
  <2>. HIDE DEF o
  <2>3. /\ orders' \in [Orders -> Order] /\ orders'[o] = [orders[o] EXCEPT !.granted = TRUE]
        /\ \A x \in Orders : x # o => orders'[x] = orders[x]
    BY <2>1, <2>2, OrderWritten, OrderFields
  <2>4. Marked(o)
    BY <2>1, <2>2, <2>3 DEF Marked
  <2>. QED  BY <2>1, <2>3, <2>4 DEF OneOrderChanges, OrderChange
<1>. QED  BY <1>1, <1>2 DEF Provision

\* Every step changes one order at most, in one of these ways.
LEMMA OrderSteps ==
    ASSUME TypeOK, Shopped, ActorsKnow, [Next]_vars
    PROVE  OneOrderChanges
<1>1. ASSUME NEW b \in Buyers, Buy(b) PROVE OneOrderChanges
  BY <1>1, BuyOrders
<1>2. CASE (\E o \in Orders : Pay(o)) \/ ChangeCurrency \/ PeriodEnds \/ Sweep \/ UNCHANGED vars
  BY <1>2 DEF Pay, ChangeCurrency, PeriodEnds, Sweep, vars, OneOrderChanges, TypeOK
<1>3. ASSUME NEW h \in Handlers, Call(h) PROVE OneOrderChanges
  BY <1>3 DEF Call, PaytrCallback, StripeCompleted, Approve, Reject, Start, OneOrderChanges, TypeOK
<1>4. ASSUME NEW h \in Handlers, Settle(h) PROVE OneOrderChanges
  BY <1>4, SettleOrders DEF ActorsKnow, Actors
<1>5. ASSUME NEW a \in Actors, Provision(a) PROVE OneOrderChanges
  BY <1>5, ProvisionOrders DEF ActorsKnow
<1>6. ASSUME NEW a \in Actors, Throw(a) \/ Crash(a) PROVE OneOrderChanges
  BY <1>6 DEF Throw, Crash, OneOrderChanges, TypeOK
<1>. QED  BY <1>1, <1>2, <1>3, <1>4, <1>5, <1>6 DEF Next

-----------------------------------------------------------------------------
(***************************************************************************)
(* Where actors stand                                                      *)
(***************************************************************************)
Moves(a) ==
    /\ task' \in [Actors -> Task]
    /\ \A x \in Actors : x # a => task'[x] = task[x]

LEMMA GotoMoves ==
    ASSUME TypeOK, NEW a \in Actors, NEW step \in Steps, Goto(a, step)
    PROVE  /\ Moves(a) /\ acked' = acked
           /\ task'[a].step = step /\ task'[a].order = task[a].order
<1>1. task[a] \in Task
  BY DEF TypeOK
<1>. DEFINE t == [task[a] EXCEPT !.step = step]
<1>2. t \in Task /\ t.step = step /\ t.order = task[a].order
  BY <1>1 DEF Task
<1>3. task' = [task EXCEPT ![a] = t] /\ acked' = acked
  BY DEF Goto
<1>. HIDE DEF t
<1>. QED  BY <1>2, <1>3, ActorMoved DEF Moves

LEMMA AnswerMoves ==
    ASSUME TypeOK, NEW a \in Actors, Answer(a), task[a].order \in Orders
    PROVE  Moves(a) /\ acked' \subseteq Orders /\ task'[a].step \in {"idle", "next"}
<1>. DEFINE t == IF a = Sweeper THEN [Free EXCEPT !.step = "next"] ELSE Free
<1>1. t \in Task /\ t.step \in {"idle", "next"}
  BY DEF Free, Task, Steps, Ref
<1>2. task' = [task EXCEPT ![a] = t]
  BY DEF Answer
<1>3. acked' \subseteq Orders
  BY DEF Answer, TypeOK
<1>. HIDE DEF t
<1>. QED  BY <1>1, <1>2, <1>3, ActorMoved DEF Moves

LEMMA StartMoves ==
    ASSUME TypeOK, NEW h \in Handlers, NEW step \in Steps, NEW o \in Orders,
           NEW via \in {"paytr", "stripe", "operator"}, Start(h, step, o, via)
    PROVE  Moves(h) /\ task'[h].step = step /\ task'[h].order = o
<1>. DEFINE t == [step |-> step, order |-> o, ref |-> "none", via |-> via]
<1>1. t \in Task /\ t.step = step /\ t.order = o
  BY DEF Task, Ref
<1>2. task' = [task EXCEPT ![h] = t]
  BY DEF Start
<1>3. h \in Actors
  BY DEF Actors
<1>. HIDE DEF t
<1>. QED  BY <1>1, <1>2, <1>3, ActorMoved DEF Moves

\* The sweep is where it was, or goes to the next order, or grants or stamps one.
LEMMA SweepMoves ==
    ASSUME TypeOK, SweepKnows, Sweep
    PROVE  /\ Moves(Sweeper) /\ acked' = acked
           /\ sweep' \in [pass : 0 .. 3, todo : SUBSET Candidate]
           /\ \A c \in sweep'.todo :
                orders[c.order].status = "SUCCEEDED" /\ bought[c.order].type # "ADDON"
           /\ \/ task'[Sweeper].step \in {"idle", "next"}
              \/ \E c \in sweep.todo :
                   /\ c \in Candidate /\ task'[Sweeper].order = c.order
                   /\ IF AlreadyGranted(c.order) THEN task'[Sweeper].step = "mark"
                                                 ELSE task'[Sweeper].step = "grant"
<1>0. Sweeper \in Actors
  BY DEF Actors
<1>1. sweep \in [pass : 0 .. 3, todo : SUBSET Candidate]
  BY DEF TypeOK
<1>2. ASSUME NEW pass \in 1 .. 3, ListPass(pass)
      PROVE  /\ Moves(Sweeper) /\ acked' = acked
             /\ sweep' \in [pass : 0 .. 3, todo : SUBSET Candidate]
             /\ \A c \in sweep'.todo :
                  orders[c.order].status = "SUCCEEDED" /\ bought[c.order].type # "ADDON"
             /\ task'[Sweeper].step = "next"
  <2>. DEFINE t == [Free EXCEPT !.step = "next"]
  <2>1. t \in Task /\ t.step = "next"
    BY DEF Free, Task, Steps, Ref
  <2>2. task' = [task EXCEPT ![Sweeper] = t]
    BY <1>2 DEF ListPass
  <2>. HIDE DEF t
  <2>3. Moves(Sweeper) /\ task'[Sweeper].step = "next"
    BY <1>0, <2>1, <2>2, ActorMoved DEF Moves
  <2>4. \A c \in Candidates(pass) :
          c \in Candidate /\ orders[c.order].status = "SUCCEEDED"
          /\ bought[c.order].type # "ADDON"
    <3>1. "ADDON" \notin SweptTypes(pass)
      BY DEF SweptTypes
    <3>2. ASSUME NEW c \in Candidates(pass)
          PROVE  \E o \in Orders :
                   /\ c = [order |-> o, ref |-> orders[o].ref]
                   /\ orders[o].status = "SUCCEEDED" /\ bought[o].type \in SweptTypes(pass)
      BY <3>2 DEF Candidates, Succeeded
    <3>3. ASSUME NEW c \in Candidates(pass)
          PROVE  c \in Candidate /\ orders[c.order].status = "SUCCEEDED"
                 /\ bought[c.order].type # "ADDON"
      <4>1. PICK o \in Orders :
              /\ c = [order |-> o, ref |-> orders[o].ref]
              /\ orders[o].status = "SUCCEEDED" /\ bought[o].type \in SweptTypes(pass)
        BY <3>2
      <4>2. c.order = o /\ c \in Candidate
        BY <4>1, OrderFields DEF Candidate
      <4>. QED  BY <3>1, <4>1, <4>2
    <3>. QED  BY <3>3
  <2>5. sweep' = [pass |-> pass, todo |-> Candidates(pass)] /\ acked' = acked
    BY <1>2 DEF ListPass
  <2>. QED  BY <2>3, <2>4, <2>5
<1>3. CASE SweepStart
  BY <1>2, <1>3 DEF SweepStart
<1>4. CASE SweepPass
  <2>1. sweep.pass + 1 \in 1 .. 3
    BY <1>1, <1>4 DEF SweepPass, LastPass
  <2>. QED  BY <1>2, <1>4, <2>1 DEF SweepPass
<1>5. CASE SweepEnd
  <2>1. Moves(Sweeper) /\ task'[Sweeper].step = "idle"
    BY <1>0, <1>5, TaskTypes, ActorMoved DEF SweepEnd, Moves
  <2>. QED  BY <1>5, <2>1 DEF SweepEnd
<1>6. CASE SweepProbe
  <2>1. PICK c \in sweep.todo :
          /\ sweep' = [sweep EXCEPT !.todo = @ \ {c}]
          /\ task' = [task EXCEPT ![Sweeper] =
                IF AlreadyGranted(c.order)
                THEN [step |-> "mark", order |-> c.order, ref |-> c.ref, via |-> "stamp"]
                ELSE [step |-> "grant", order |-> c.order, ref |-> c.ref, via |-> "sweep"]]
    BY <1>6 DEF SweepProbe
  <2>2. c \in Candidate /\ c.order \in Orders /\ c.ref \in Ref
    BY <1>1 DEF Candidate
  <2>. DEFINE t == IF AlreadyGranted(c.order)
                   THEN [step |-> "mark", order |-> c.order, ref |-> c.ref, via |-> "stamp"]
                   ELSE [step |-> "grant", order |-> c.order, ref |-> c.ref, via |-> "sweep"]
  <2>3. /\ t \in Task /\ t.order = c.order
        /\ IF AlreadyGranted(c.order) THEN t.step = "mark" ELSE t.step = "grant"
    BY <2>2 DEF Task, Steps
  <2>4. task' = [task EXCEPT ![Sweeper] = t]
    BY <2>1
  <2>. HIDE DEF t
  <2>5. Moves(Sweeper) /\ task'[Sweeper] = t
    BY <1>0, <2>3, <2>4, ActorMoved DEF Moves
  <2>6. sweep' \in [pass : 0 .. 3, todo : SUBSET Candidate] /\ sweep'.todo \subseteq sweep.todo
    BY <1>1, <2>1
  <2>. QED  BY <1>6, <2>2, <2>3, <2>5, <2>6 DEF SweepProbe, SweepKnows
<1>. QED  BY <1>3, <1>4, <1>5, <1>6 DEF Sweep

-----------------------------------------------------------------------------
(***************************************************************************)
(* Types                                                                   *)
(***************************************************************************)
Outcome == {"none", "open", "paid", "mispaid", "failed"}
Subscription == [package : Packages \cup {NoPackage}, active : BOOLEAN, open : BOOLEAN,
                 ref : Ref, by : {0} \cup Orders]

LEMMA BuyTypes ==
    ASSUME TypeOK, Shopped, OneOrderChanges, NEW b \in Buyers, Buy(b)
    PROVE  TypeOK'
<1>0. orders' \in [Orders -> Order] /\ buyers[b] \in Shopping
  BY DEF OneOrderChanges, TypeOK
<1>1. CASE Checkout(b)
  <2>1. PICK i \in Intents :
          LET purchase == [type |-> i.type, package |-> i.package,
                           provider |-> i.provider, currency |-> currency]
          IN  buyers' \in
                {[buyers EXCEPT ![b] = [step |-> "create", order |-> 0,
                                        purchase |-> purchase]]}
                \cup {[buyers EXCEPT ![b] = [step |-> "issue", order |-> o,
                                             purchase |-> purchase]] :
                        o \in Reusable(purchase)}
    BY <1>1 DEF Checkout
  <2>. DEFINE purchase == [type |-> i.type, package |-> i.package,
                           provider |-> i.provider, currency |-> currency]
  <2>2. purchase \in Purchase
    BY Bounds DEF TypeOK, Purchase, Intent
  <2>3. Reusable(purchase) \subseteq Orders
    BY DEF Reusable
  <2>. HIDE DEF purchase
  <2>4. PICK s \in Shopping : buyers' = [buyers EXCEPT ![b] = s]
    <3>1. buyers' \in {[buyers EXCEPT ![b] = [step |-> "create", order |-> 0,
                                              purchase |-> purchase]]}
             \cup {[buyers EXCEPT ![b] = [step |-> "issue", order |-> o,
                                          purchase |-> purchase]] : o \in Reusable(purchase)}
      BY <2>1 DEF purchase
    <3>. QED  BY <2>2, <2>3, <3>1 DEF Shopping
  <2>. QED  BY <1>0, <1>1, <2>4, BuyerMoved DEF Checkout, TypeOK, money
<1>2. CASE Create(b)
  <2>1. minted + 1 \in Orders /\ minted' \in 0 .. MaxOrders
    BY <1>2, Bounds DEF Create, TypeOK, Orders
  <2>2. bought' \in [Orders -> Purchase]
    BY <1>0, <1>2 DEF Create, TypeOK, Shopping
  <2>3. PICK s \in Shopping : buyers' = [buyers EXCEPT ![b] = s]
    <3>. DEFINE s == [buyers[b] EXCEPT !.step = "issue", !.order = minted + 1]
    <3>1. s \in Shopping
      BY <1>0, <2>1 DEF Shopping
    <3>2. buyers' = [buyers EXCEPT ![b] = s]
      BY <1>2 DEF Create
    <3>. QED  BY <3>1, <3>2
  <2>. QED  BY <1>0, <1>2, <2>1, <2>2, <2>3, BuyerMoved DEF Create, TypeOK, money
<1>3. CASE Issue(b)
  <2>1. psp' \in [Orders -> Outcome]
    BY <1>3 DEF Issue, TypeOK, Outcome
  <2>2. PICK s \in Shopping : buyers' = [buyers EXCEPT ![b] = s]
    <3>. DEFINE s == [buyers[b] EXCEPT !.step = "persist"]
    <3>1. s \in Shopping
      BY <1>0 DEF Shopping
    <3>2. buyers' = [buyers EXCEPT ![b] = s] \/ buyers' = [buyers EXCEPT ![b] = Away]
      BY <1>3 DEF Issue
    <3>. QED  BY <3>1, <3>2, ShoppingTypes
  <2>. QED  BY <1>0, <1>3, <2>1, <2>2, BuyerMoved DEF Issue, TypeOK, money, Outcome
<1>4. CASE PersistSession(b)
  BY <1>0, <1>4, ShoppingTypes, BuyerMoved DEF PersistSession, TypeOK, money
<1>5. CASE Abandon(b)
  BY <1>0, <1>5, ShoppingTypes, BuyerMoved DEF Abandon, TypeOK, money
<1>. QED  BY <1>1, <1>2, <1>3, <1>4, <1>5 DEF Buy

\* Payments, the operator's edit of the currency, the end of a period.
LEMMA WorldTypes ==
    ASSUME TypeOK, (\E o \in Orders : Pay(o)) \/ ChangeCurrency \/ PeriodEnds
    PROVE  TypeOK'
<1>1. ASSUME NEW o \in Orders, Pay(o) PROVE TypeOK'
  <2>1. psp' \in [Orders -> Outcome]
    BY <1>1 DEF Pay, TypeOK, Outcome
  <2>. QED  BY <1>1, <2>1 DEF Pay, TypeOK, money, Outcome
<1>2. CASE ChangeCurrency
  <2>1. changes' \in 0 .. MaxCurrencyChanges
    BY <1>2, Bounds DEF ChangeCurrency, TypeOK
  <2>. QED  BY <1>2, <2>1 DEF ChangeCurrency, TypeOK, money
<1>3. CASE PeriodEnds
  <2>1. sub' \in Subscription
    BY <1>3 DEF PeriodEnds, TypeOK, Subscription
  <2>. QED  BY <1>3, <2>1 DEF PeriodEnds, TypeOK, money, Subscription
<1>. QED  BY <1>1, <1>2, <1>3

\* Callbacks and operator decisions.
LEMMA CallTypes ==
    ASSUME TypeOK, NEW h \in Handlers, Call(h)
    PROVE  TypeOK'
<1>1. PICK step \in Steps, o \in Orders, via \in {"paytr", "stripe", "operator"} :
        Start(h, step, o, via)
  BY DEF Call, PaytrCallback, StripeCompleted, Approve, Reject, Steps
<1>2. task' \in [Actors -> Task]
  BY <1>1, StartMoves DEF Moves
<1>. QED  BY <1>1, <1>2 DEF Start, TypeOK, money

\* The steps of a settlement.
LEMMA SettleTypes ==
    ASSUME TypeOK, OneOrderChanges, NEW h \in Handlers, ActorKnows(h), Settle(h)
    PROVE  TypeOK'
<1>0. h \in Actors /\ orders' \in [Orders -> Order]
  BY DEF Actors, OneOrderChanges
<1>1. task[h].order \in Orders
  BY DEF Settle, Repoint, Read, Flip, Fail, ActorKnows
<1>2. ASSUME Answer(h) PROVE task' \in [Actors -> Task] /\ acked' \subseteq Orders
  BY <1>0, <1>1, <1>2, AnswerMoves DEF Moves
<1>3. ASSUME NEW step \in {"read", "grant"}, Goto(h, step)
      PROVE  task' \in [Actors -> Task] /\ acked' \subseteq Orders
  BY <1>0, <1>3, GotoMoves DEF Moves, Steps, TypeOK
<1>4. CASE Repoint(h)
  BY <1>0, <1>3, <1>4 DEF Repoint, TypeOK, money
<1>5. CASE Read(h)
  <2>1. CASE Answer(h)
    BY <1>2, <1>5, <2>1 DEF Read, TypeOK, money
  <2>2. CASE /\ task' = [task EXCEPT ![h].step = "flip", ![h].ref = orders[task[h].order].ref]
             /\ UNCHANGED acked
    <3>. DEFINE t == [task[h] EXCEPT !.step = "flip", !.ref = orders[task[h].order].ref]
    <3>0. task[h] \in Task /\ orders[task[h].order].ref \in Ref
      BY <1>0, <1>1, OrderFields DEF TypeOK
    <3>1. t \in Task
      BY <3>0 DEF Task, Steps
    <3>2. task' = [task EXCEPT ![h] = t]
      BY <2>2
    <3>. HIDE DEF t
    <3>3. task' \in [Actors -> Task]
      BY <1>0, <3>1, <3>2, ActorMoved
    <3>. QED  BY <1>5, <2>2, <3>3 DEF Read, TypeOK, money
  <2>. QED  BY <1>5, <2>1, <2>2 DEF Read
<1>6. CASE Flip(h)
  BY <1>0, <1>2, <1>3, <1>6 DEF Flip, TypeOK, money
<1>7. CASE Fail(h)
  BY <1>0, <1>2, <1>7 DEF Fail, TypeOK, money
<1>. QED  BY <1>4, <1>5, <1>6, <1>7 DEF Settle

\* The steps of a grant.
LEMMA ProvisionTypes ==
    ASSUME TypeOK, OneOrderChanges, NEW a \in Actors, ActorKnows(a), Provision(a)
    PROVE  TypeOK'
<1>. DEFINE o == task[a].order
<1>0. orders' \in [Orders -> Order] /\ bought \in [Orders -> Purchase] /\ task[a] \in Task
  BY DEF OneOrderChanges, TypeOK
<1>1. o \in Orders
  BY DEF Provision, Grant, CreateWallet, Modules, Mark, ActorKnows
<1>2. ASSUME Answer(a) PROVE task' \in [Actors -> Task] /\ acked' \subseteq Orders
  BY <1>1, <1>2, AnswerMoves DEF Moves
<1>3. ASSUME NEW step \in {"wallet", "modules", "mark", "grant"}, Goto(a, step)
      PROVE  task' \in [Actors -> Task] /\ acked' \subseteq Orders
  BY <1>3, GotoMoves DEF Moves, Steps, TypeOK
<1>4. ASSUME Credit(o) PROVE credited' \in [Orders -> Nat] /\ ledger' \subseteq Orders
  BY <1>1, <1>4 DEF Credit, TypeOK
<1>5. bought[o].package \in Packages \cup {NoPackage} /\ bought[o].currency \in Currencies
      /\ task[a].ref \in Ref
  BY <1>0, <1>1 DEF Purchase, Task
<1>6. CASE Grant(a)
  <2>0. UNCHANGED <<currency, bought, orders, minted, psp, buyers, sweep, faults, changes>>
    BY <1>6 DEF Grant
  <2>1. CASE Activate(a)
    <3>. DEFINE s == [package |-> bought[o].package, active |-> TRUE, open |-> TRUE,
                      ref |-> task[a].ref, by |-> o]
    <3>1. s \in Subscription
      BY <1>1, <1>5 DEF Subscription
    <3>2. sub' = s /\ landed' = landed \cup {o} /\ Goto(a, "modules")
          /\ UNCHANGED <<money, addons>>
      BY <2>1 DEF Activate
    <3>. HIDE DEF s, o
    <3>. QED  BY <1>1, <1>3, <2>0, <3>1, <3>2 DEF TypeOK, money, Subscription
  <2>2. CASE GrantBoost(a)
    <3>1. addons' \in [Orders -> Nat] /\ landed' \subseteq Orders
      BY <1>1, <2>2 DEF GrantBoost, TypeOK
    <3>. QED  BY <1>3, <2>0, <2>2, <3>1 DEF GrantBoost, TypeOK, money
  <2>3. CASE CreditGrowthWallet(a) \/ CreditAiWallet(a)
    <3>1. UNCHANGED <<sub, addons, landed, wallet, aiWallet>>
      BY <2>3 DEF CreditGrowthWallet, CreditAiWallet, money
    <3>2. credited' \in [Orders -> Nat] /\ ledger' \subseteq Orders
      BY <1>4, <2>3 DEF CreditGrowthWallet, CreditAiWallet, money, TypeOK
    <3>3. task' \in [Actors -> Task] /\ acked' \subseteq Orders
      BY <1>2, <1>3, <2>3 DEF CreditGrowthWallet, CreditAiWallet
    <3>. QED  BY <2>0, <3>1, <3>2, <3>3 DEF TypeOK
  <2>. QED  BY <1>6, <2>1, <2>2, <2>3 DEF Grant
<1>7. CASE CreateWallet(a)
  <2>1. task' \in [Actors -> Task] /\ acked' \subseteq Orders
    BY <1>2, <1>3, <1>7 DEF CreateWallet
  <2>2. credited' \in [Orders -> Nat] /\ ledger' \subseteq Orders
    BY <1>4, <1>7 DEF CreateWallet, money, TypeOK
  <2>3. wallet' \in {"none"} \cup Currencies /\ aiWallet' \in BOOLEAN
    BY <1>5, <1>7 DEF CreateWallet, money, TypeOK
  <2>. QED  BY <1>7, <2>1, <2>2, <2>3 DEF CreateWallet, TypeOK
<1>8. CASE Modules(a)
  BY <1>3, <1>8 DEF Modules, TypeOK, money
<1>9. CASE Mark(a)
  BY <1>0, <1>2, <1>9 DEF Mark, TypeOK, money
<1>. QED  BY <1>6, <1>7, <1>8, <1>9 DEF Provision

\* Failures.
LEMMA FailureTypes ==
    ASSUME TypeOK, NEW a \in Actors, ActorKnows(a), Throw(a) \/ Crash(a)
    PROVE  TypeOK'
<1>1. faults' \in 0 .. MaxFaults
  BY Bounds DEF Throw, Crash, Fault, TypeOK
<1>2. CASE Throw(a)
  <2>1. task[a].order \in Orders
    BY <1>2 DEF Throw, ActorKnows
  <2>2. task' \in [Actors -> Task] /\ acked' \subseteq Orders
    BY <1>2, <2>1, AnswerMoves DEF Throw, Moves
  <2>. QED  BY <1>1, <1>2, <2>2 DEF Throw, TypeOK, money
<1>3. CASE Crash(a)
  <2>1. task' \in [Actors -> Task]
    BY <1>3, TaskTypes, ActorMoved DEF Crash
  <2>2. sweep' \in [pass : 0 .. 3, todo : SUBSET Candidate]
    BY <1>3 DEF Crash, TypeOK
  <2>. QED  BY <1>1, <1>3, <2>1, <2>2 DEF Crash, TypeOK, money
<1>. QED  BY <1>2, <1>3

\* Every step keeps the types.
LEMMA NextTypes ==
    ASSUME TypeOK, Shopped, ActorsKnow, SweepKnows, [Next]_vars
    PROVE  TypeOK'
<1>0. OneOrderChanges
  BY OrderSteps
<1>1. ASSUME NEW b \in Buyers, Buy(b) PROVE TypeOK'
  BY <1>0, <1>1, BuyTypes
<1>2. CASE (\E o \in Orders : Pay(o)) \/ ChangeCurrency \/ PeriodEnds
  BY <1>2, WorldTypes
<1>3. ASSUME NEW h \in Handlers, Call(h) \/ Settle(h) PROVE TypeOK'
  BY <1>0, <1>3, CallTypes, SettleTypes DEF ActorsKnow, Actors
<1>4. ASSUME NEW a \in Actors, Provision(a) PROVE TypeOK'
  BY <1>0, <1>4, ProvisionTypes DEF ActorsKnow
<1>5. ASSUME NEW a \in Actors, Throw(a) \/ Crash(a) PROVE TypeOK'
  BY <1>5, FailureTypes DEF ActorsKnow
<1>6. CASE Sweep
  <2>1. /\ task' \in [Actors -> Task] /\ acked' = acked
        /\ sweep' \in [pass : 0 .. 3, todo : SUBSET Candidate]
    BY <1>6, SweepMoves DEF Moves
  <2>. QED  BY <1>6, <2>1 DEF Sweep, TypeOK, money
<1>7. CASE UNCHANGED vars
  BY <1>7 DEF vars, TypeOK, money
<1>. QED  BY <1>1, <1>2, <1>3, <1>4, <1>5, <1>6, <1>7 DEF Next

-----------------------------------------------------------------------------
(***************************************************************************)
(* What a step does to an order, to its payment and to the balances        *)
(***************************************************************************)
OrderMoves(o) ==
    /\ orders'[o] = orders[o] \/ OrderChange(o)
    /\ Minted(o) \/ bought'[o] = bought[o]

LEMMA OrdersMove == ASSUME TypeOK, OneOrderChanges PROVE \A o \in Orders : OrderMoves(o)
<1>1. CASE UNCHANGED <<orders, bought, minted>>
  BY <1>1 DEF OrderMoves
<1>2. ASSUME NEW x \in Orders, OrderChange(x), \A y \in Orders : y # x => orders'[y] = orders[y]
      PROVE  \A o \in Orders : OrderMoves(o)
  <2>1. Minted(x) \/ bought' = bought
    BY <1>2 DEF OrderChange, Renamed, Marked, Announced, Settles, Fails
  <2>2. CASE Minted(x)
    BY <1>2, <2>2 DEF OrderMoves, Minted
  <2>3. CASE bought' = bought
    BY <1>2, <2>3 DEF OrderMoves
  <2>. QED  BY <2>1, <2>2, <2>3
<1>. QED  BY <1>1, <1>2 DEF OneOrderChanges

\* An order that exists stays and keeps its intent; a settled one keeps its outcome.
OrderKept(o) ==
    /\ Exists(o) => Exists(o)' /\ bought'[o] = bought[o]
    /\ orders[o].status \in Outcomes =>
         orders'[o].status = orders[o].status /\ orders'[o].at = orders[o].at

LEMMA OrderStays ==
    ASSUME TypeOK, Numbered, NEW o \in Orders, OrderMoves(o) PROVE OrderKept(o)
<1>0. orders[o] \in Order /\ minted \in Nat
  BY Bounds DEF TypeOK
<1>1. CASE orders'[o] = orders[o] /\ bought'[o] = bought[o]
  BY <1>1 DEF OrderKept, Exists
<1>2. CASE Minted(o)
  <2>1. ~Exists(o)
    BY <1>0, <1>2 DEF Minted, Numbered
  <2>. QED  BY <2>1 DEF OrderKept, Exists, Outcomes
<1>3. CASE ~Minted(o) /\ OrderChange(o)
  <2>1. bought'[o] = bought[o]
    BY <1>3 DEF OrderMoves
  <2>2. CASE Renamed(o) \/ Marked(o)
    <3>1. orders'[o].status = orders[o].status /\ orders'[o].at = orders[o].at
      BY <1>0, <2>2 DEF Renamed, Marked, Order
    <3>. QED  BY <2>1, <3>1 DEF OrderKept, Exists
  <2>3. CASE Announced(o) \/ Settles(o) \/ Fails(o)
    BY <1>0, <2>1, <2>3 DEF Announced, Settles, Fails, OrderKept, Exists, Order, Outcomes, Unsettled
  <2>. QED  BY <1>3, <2>2, <2>3 DEF OrderChange
<1>. QED  BY <1>1, <1>2, <1>3 DEF OrderMoves

\* A payment that is decided stays decided; one that begins belongs to an order that
\* exists and, for a bank transfer, is announced in the same step.
PaymentMoves(o) ==
    psp'[o] # psp[o] =>
        /\ Exists(o) /\ psp[o] \in {"none", "open"} /\ psp'[o] # "none"
        /\ AtProvider(o) \/ psp[o] = "open" \/ orders'[o].status = "AWAITING_TRANSFER"

LEMMA PaymentsMove ==
    ASSUME TypeOK, Unminted, OnTransfer, Shopped, [Next]_vars
    PROVE  \A o \in Orders : PaymentMoves(o)
<1>0. psp \in [Orders -> Outcome]
  BY DEF TypeOK, Outcome
<1>1. ASSUME psp' = psp PROVE \A o \in Orders : PaymentMoves(o)
  BY <1>1 DEF PaymentMoves
<1>2. ASSUME NEW b \in Buyers, Buy(b) PROVE \A o \in Orders : PaymentMoves(o)
  <2>1. CASE Checkout(b) \/ Create(b) \/ PersistSession(b) \/ Abandon(b)
    BY <1>1, <2>1 DEF Checkout, Create, PersistSession, Abandon
  <2>2. CASE Issue(b)
    <3>. DEFINE x == buyers[b].order
    <3>1. x \in Orders /\ Exists(x)
      BY <2>2 DEF Issue, Shopped
    <3>2. \/ psp' = psp
          \/ AtProvider(x) /\ psp' = [psp EXCEPT ![x] = IF psp[x] = "none" THEN "open" ELSE psp[x]]
          \/ /\ ~AtProvider(x) /\ orders[x].status = "PENDING"
             /\ psp' = [psp EXCEPT ![x] = "open"]
             /\ orders' = [orders EXCEPT ![x].status = "AWAITING_TRANSFER",
                                         ![x].ref = "transfer"]
      BY <2>2 DEF Issue, AtProvider
    <3>3. CASE AtProvider(x) /\ psp' = [psp EXCEPT ![x] = IF psp[x] = "none" THEN "open" ELSE psp[x]]
      BY <1>0, <3>1, <3>3 DEF PaymentMoves, Outcome
    <3>4. CASE /\ ~AtProvider(x) /\ orders[x].status = "PENDING"
               /\ psp' = [psp EXCEPT ![x] = "open"]
               /\ orders' = [orders EXCEPT ![x].status = "AWAITING_TRANSFER",
                                           ![x].ref = "transfer"]
      <4>1. psp[x] = "none"
        BY <3>1, <3>4 DEF OnTransfer
      <4>2. orders'[x].status = "AWAITING_TRANSFER"
        BY <3>1, <3>4 DEF TypeOK, Order
      <4>. QED  BY <1>0, <3>1, <3>4, <4>1, <4>2 DEF PaymentMoves
    <3>. QED  BY <1>1, <3>2, <3>3, <3>4
  <2>. QED  BY <1>2, <2>1, <2>2 DEF Buy
<1>3. ASSUME NEW x \in Orders, Pay(x) PROVE \A o \in Orders : PaymentMoves(o)
  <2>1. psp[x] = "open" /\ Exists(x)
    BY <1>3 DEF Pay, Unminted
  <2>2. PICK v \in {"paid", "mispaid", "failed"} : psp' = [psp EXCEPT ![x] = v]
    BY <1>3 DEF Pay
  <2>. QED  BY <1>0, <2>1, <2>2 DEF PaymentMoves
<1>4. CASE ChangeCurrency \/ PeriodEnds \/ Sweep \/ UNCHANGED vars
  BY <1>1, <1>4 DEF ChangeCurrency, PeriodEnds, Sweep, vars
<1>5. ASSUME NEW h \in Handlers, Call(h) \/ Settle(h) PROVE psp' = psp
  BY <1>5 DEF Call, PaytrCallback, StripeCompleted, Approve, Reject, Start,
              Settle, Repoint, Read, Flip, Fail
<1>6. ASSUME NEW a \in Actors, Provision(a) \/ Throw(a) \/ Crash(a) PROVE psp' = psp
  BY <1>6 DEF Provision, Grant, CreateWallet, Modules, Mark, Throw, Crash
<1>. QED  BY <1>1, <1>2, <1>3, <1>4, <1>5, <1>6 DEF Next

\* A balance is raised for a prepaid order that succeeded and has no ledger entry,
\* which it gets, in the wallet of its currency; a boost is created for an order that
\* has none by an actor that is about to; nothing else touches money.
Credits(o) ==
    /\ orders[o].status = "SUCCEEDED" /\ bought[o].type \in Prepaid /\ o \notin ledger
    /\ ledger' = ledger \cup {o}
    /\ credited' = [credited EXCEPT ![o] = credited[o] + 1]
    /\ bought[o].type = "CREDITS" => aiWallet' /\ wallet' = wallet
    /\ bought[o].type = "WALLET_TOPUP" =>
         wallet \in {"none", wallet'} /\ wallet' = bought[o].currency /\ aiWallet' = aiWallet
    /\ addons' = addons

Boosts(o) ==
    /\ orders[o].status = "SUCCEEDED" /\ bought[o].type = "ADDON" /\ addons[o] = 0
    /\ addons' = [addons EXCEPT ![o] = addons[o] + 1]
    /\ UNCHANGED money

MoneyMoves == UNCHANGED <<money, addons>> \/ \E o \in Orders : Credits(o) \/ Boosts(o)

LEMMA ProvisionMoney ==
    ASSUME TypeOK, GrantsFollow, OneCurrency, NEW a \in Actors, ActorKnows(a), Provision(a)
    PROVE  MoneyMoves
<1>. DEFINE o == task[a].order
<1>0. o \in Orders /\ orders[o].status = "SUCCEEDED"
  BY DEF Provision, Grant, CreateWallet, Modules, Mark, ActorKnows
<1>1. bought[o].currency \in Currencies /\ "none" \notin Currencies
  BY <1>0 DEF TypeOK, Purchase, Currencies
<1>2. CASE Modules(a) \/ Mark(a)
  BY <1>2 DEF Modules, Mark, MoneyMoves
<1>3. CASE Grant(a)
  <2>1. CASE Activate(a)
    BY <2>1 DEF Activate, MoneyMoves
  <2>2. CASE GrantBoost(a)
    <3>1. addons[o] = 0 /\ bought[o].type = "ADDON"
      BY <1>3, <2>2 DEF Grant, GrantBoost, ActorKnows
    <3>2. Boosts(o)
      BY <1>0, <2>2, <3>1 DEF GrantBoost, Boosts
    <3>. QED  BY <1>0, <3>2 DEF MoneyMoves
  <2>3. CASE CreditGrowthWallet(a)
    <3>1. CASE UNCHANGED money
      BY <2>3, <3>1 DEF CreditGrowthWallet, MoneyMoves
    <3>2. CASE ~Applied(o) /\ SameCurrency(o) /\ Credit(o) /\ UNCHANGED <<wallet, aiWallet>>
      <4>1. Credits(o)
        BY <1>0, <2>3, <3>2 DEF CreditGrowthWallet, Credits, Credit, Applied, SameCurrency, Prepaid
      <4>. QED  BY <1>0, <4>1 DEF MoneyMoves
    <3>. QED  BY <2>3, <3>1, <3>2 DEF CreditGrowthWallet
  <2>4. CASE CreditAiWallet(a)
    <3>1. CASE UNCHANGED money
      BY <2>4, <3>1 DEF CreditAiWallet, MoneyMoves
    <3>2. CASE ~Applied(o) /\ aiWallet /\ Credit(o) /\ UNCHANGED <<wallet, aiWallet>>
      <4>1. Credits(o)
        BY <1>0, <2>4, <3>2 DEF CreditAiWallet, Credits, Credit, Applied, Prepaid
      <4>. QED  BY <1>0, <4>1 DEF MoneyMoves
    <3>. QED  BY <2>4, <3>1, <3>2 DEF CreditAiWallet
  <2>. QED  BY <1>3, <2>1, <2>2, <2>3, <2>4 DEF Grant
<1>4. CASE CreateWallet(a)
  <2>1. CASE UNCHANGED money
    BY <1>4, <2>1 DEF CreateWallet, MoneyMoves
  <2>2. CASE /\ ~HasWallet(bought[o].type)
             /\ wallet' = IF bought[o].type = "WALLET_TOPUP" THEN bought[o].currency ELSE wallet
             /\ aiWallet' = (aiWallet \/ bought[o].type = "CREDITS")
             /\ Credit(o)
    <3>1. bought[o].type \in Prepaid
      BY <1>4 DEF CreateWallet, ActorKnows
    <3>2. o \notin ledger
      BY <1>0, <1>1, <2>2, <3>1 DEF GrantsFollow, OneCurrency, HasWallet, Prepaid
    <3>3. addons' = addons
      BY <1>4 DEF CreateWallet
    <3>4. CASE bought[o].type = "CREDITS"
      BY <1>0, <2>2, <3>1, <3>2, <3>3, <3>4 DEF Credits, Credit, MoneyMoves
    <3>5. CASE bought[o].type = "WALLET_TOPUP"
      <4>1. wallet = "none" /\ aiWallet' = aiWallet
        BY <2>2, <3>5 DEF HasWallet, TypeOK
      <4>. QED  BY <1>0, <2>2, <3>1, <3>2, <3>3, <3>5, <4>1 DEF Credits, Credit, MoneyMoves
    <3>. QED  BY <3>1, <3>4, <3>5 DEF Prepaid
  <2>. QED  BY <1>4, <2>1, <2>2 DEF CreateWallet
<1>. QED  BY <1>2, <1>3, <1>4 DEF Provision

LEMMA MoneySteps ==
    ASSUME TypeOK, GrantsFollow, OneCurrency, ActorsKnow, [Next]_vars
    PROVE  MoneyMoves
<1>1. ASSUME NEW a \in Actors, Provision(a) PROVE MoneyMoves
  BY <1>1, ProvisionMoney DEF ActorsKnow
<1>2. ASSUME NEW b \in Buyers, Buy(b) PROVE MoneyMoves
  BY <1>2 DEF Buy, Checkout, Create, Issue, PersistSession, Abandon, MoneyMoves
<1>3. ASSUME NEW h \in Handlers, Call(h) \/ Settle(h) PROVE MoneyMoves
  BY <1>3 DEF Call, PaytrCallback, StripeCompleted, Approve, Reject, Start,
              Settle, Repoint, Read, Flip, Fail, MoneyMoves
<1>4. CASE (\E o \in Orders : Pay(o)) \/ ChangeCurrency \/ PeriodEnds \/ Sweep \/ UNCHANGED vars
  BY <1>4 DEF Pay, ChangeCurrency, PeriodEnds, Sweep, vars, MoneyMoves, money
<1>5. ASSUME NEW a \in Actors, Throw(a) \/ Crash(a) PROVE MoneyMoves
  BY <1>5 DEF Throw, Crash, MoneyMoves
<1>. QED  BY <1>1, <1>2, <1>3, <1>4, <1>5 DEF Next

-----------------------------------------------------------------------------
(***************************************************************************)
(* The invariant, part by part                                             *)
(***************************************************************************)

\* What the parts need of a step.
StepMoves ==
    /\ TypeOK' /\ OneOrderChanges /\ MoneyMoves
    /\ \A o \in Orders : OrderMoves(o) /\ OrderKept(o) /\ PaymentMoves(o)

LEMMA NextMoves == ASSUME IInv, [Next]_vars PROVE StepMoves
BY NextTypes, OrderSteps, OrdersMove, OrderStays, PaymentsMove, MoneySteps DEF IInv, StepMoves

\* How the fields of an order change.
LEMMA FieldMoves ==
    ASSUME TypeOK, NEW o \in Orders, OrderMoves(o)
    PROVE  \/ orders'[o] = orders[o]
           \/ /\ Exists(o) /\ orders'[o].status = orders[o].status
              /\ orders'[o].granted = orders[o].granted
           \/ /\ bought[o].type = "CREDITS" => o \in ledger
              /\ orders[o].status = "SUCCEEDED" /\ orders'[o].status = "SUCCEEDED"
              /\ orders'[o].ref = orders[o].ref
           \/ Minted(o) /\ orders'[o].status = "PENDING" /\ orders'[o].granted = orders[o].granted
           \/ /\ orders[o].status = "PENDING" /\ orders'[o].status = "AWAITING_TRANSFER"
              /\ orders'[o].granted = orders[o].granted /\ ~AtProvider(o)
           \/ /\ orders[o].status \in Unsettled /\ orders'[o].status = "SUCCEEDED"
              /\ orders'[o].granted = orders[o].granted /\ psp[o] = "paid"
           \/ /\ orders[o].status \in Unsettled /\ orders'[o].status = "FAILED"
              /\ orders'[o].granted = orders[o].granted
              /\ psp[o] = "failed" \/ ~AtProvider(o)
<1>0. orders[o] \in Order
  BY DEF TypeOK
<1>1. CASE Renamed(o)
  BY <1>0, <1>1 DEF Renamed, Order
<1>2. CASE Marked(o)
  BY <1>0, <1>2 DEF Marked, Order
<1>3. CASE Minted(o)
  BY <1>0, <1>3 DEF Minted, Order
<1>4. CASE Announced(o)
  BY <1>0, <1>4 DEF Announced, Order
<1>5. CASE Settles(o)
  BY <1>0, <1>5 DEF Settles, Order
<1>6. CASE Fails(o)
  BY <1>0, <1>6 DEF Fails, Order
<1>. QED  BY <1>1, <1>2, <1>3, <1>4, <1>5, <1>6 DEF OrderMoves, OrderChange

\* Orders keep their numbers, and providers know no others.
LEMMA NumberedStep == ASSUME IInv, StepMoves PROVE Numbered'
<1>0. minted \in Nat /\ Orders \subseteq Nat
  BY Bounds, OrdersAreNaturals DEF IInv, TypeOK
<1>1. CASE UNCHANGED <<orders, minted>>
  BY <1>1 DEF Numbered, Exists, IInv
<1>2. ASSUME NEW x \in Orders, OrderChange(x), \A y \in Orders : y # x => orders'[y] = orders[y]
      PROVE  Numbered'
  <2>0. OrderMoves(x) /\ TypeOK /\ Numbered
    BY <1>2 DEF StepMoves, IInv
  <2>1. CASE Minted(x)
    <3>1. orders'[x].status = "PENDING" /\ x = minted + 1 /\ minted' = x
      BY <2>0, <2>1 DEF TypeOK, Order, Minted
    <3>2. ASSUME NEW o \in Orders PROVE Exists(o)' <=> o <= minted'
      BY <1>0, <1>2, <2>0, <3>1 DEF Numbered, Exists
    <3>. QED  BY <3>2 DEF Numbered
  <2>2. CASE ~Minted(x)
    <3>1. minted' = minted /\ (Exists(x)' <=> Exists(x))
      BY <1>2, <2>0, <2>2, FieldMoves DEF OrderChange, Renamed, Marked, Announced, Settles, Fails,
         Exists, Unsettled
    <3>2. ASSUME NEW o \in Orders PROVE Exists(o)' <=> o <= minted'
      BY <1>2, <2>0, <3>1 DEF Numbered, Exists
    <3>. QED  BY <3>2 DEF Numbered
  <2>. QED  BY <2>1, <2>2
<1>. QED  BY <1>1, <1>2 DEF StepMoves, OneOrderChanges

LEMMA UnmintedStep == ASSUME IInv, StepMoves PROVE Unminted'
<1>1. ASSUME NEW o \in Orders, ~Exists(o)' PROVE psp'[o] = "none" /\ orders'[o].ref = "none"
  <2>1. ~Exists(o) /\ orders[o] \in Order /\ OrderMoves(o) /\ TypeOK
    BY <1>1 DEF StepMoves, OrderKept, IInv, TypeOK
  <2>2. orders'[o] = orders[o]
    BY <1>1, <2>1, FieldMoves DEF Exists, Unsettled
  <2>3. psp'[o] = psp[o]
    BY <2>1 DEF StepMoves, PaymentMoves
  <2>. QED  BY <2>1, <2>2, <2>3 DEF IInv, Unminted
<1>. QED  BY <1>1 DEF Unminted

LEMMA OnTransferStep == ASSUME IInv, StepMoves PROVE OnTransfer'
<1>. SUFFICES ASSUME NEW o \in Orders
              PROVE  /\ orders'[o].status = "AWAITING_TRANSFER" => ~AtProvider(o)'
                     /\ psp'[o] # "none" /\ ~AtProvider(o)' => orders'[o].status # "PENDING"
  BY DEF OnTransfer
<1>1. TypeOK /\ OrderMoves(o) /\ OrderKept(o) /\ PaymentMoves(o)
  BY DEF IInv, StepMoves
<1>2. ~Exists(o) => psp[o] = "none"
  BY DEF IInv, Unminted
<1>3. /\ orders[o].status = "AWAITING_TRANSFER" => ~AtProvider(o)
      /\ psp[o] # "none" /\ ~AtProvider(o) => orders[o].status # "PENDING"
  BY DEF IInv, OnTransfer
<1>4. Exists(o) => (AtProvider(o)' <=> AtProvider(o))
  BY <1>1 DEF OrderKept, AtProvider
<1>5. CASE ~Exists(o)
  <2>1. psp'[o] = "none"
    BY <1>1, <1>2, <1>5 DEF PaymentMoves
  <2>2. orders'[o].status # "AWAITING_TRANSFER"
    BY <1>1, <1>5, FieldMoves DEF Exists, Unsettled
  <2>. QED  BY <2>1, <2>2
<1>6. CASE Exists(o)
  <2>1. orders'[o].status = "AWAITING_TRANSFER" => ~AtProvider(o)
    BY <1>1, <1>3, FieldMoves DEF Unsettled
  <2>2. orders'[o].status = "PENDING" => orders[o].status = "PENDING"
    <3>1. ~Minted(o)
      BY <1>6, Bounds, OrdersAreNaturals DEF IInv, Numbered, Minted, TypeOK
    <3>. QED  BY <1>1, <3>1, FieldMoves DEF Unsettled
  <2>3. ASSUME psp'[o] # "none", ~AtProvider(o), orders'[o].status = "PENDING" PROVE FALSE
    BY <1>1, <1>3, <2>2, <2>3 DEF PaymentMoves
  <2>. QED  BY <1>4, <1>6, <2>1, <2>3
<1>. QED  BY <1>5, <1>6

\* What happens to the money of one order.
LEMMA BalanceMoves ==
    ASSUME TypeOK, MoneyMoves, NEW o \in Orders
    PROVE  /\ \/ /\ o \in ledger' <=> o \in ledger
                 /\ credited'[o] = credited[o] /\ addons'[o] = addons[o]
              \/ /\ o \notin ledger /\ o \in ledger' /\ credited'[o] = credited[o] + 1
                 /\ addons'[o] = addons[o]
                 /\ orders[o].status = "SUCCEEDED" /\ bought[o].type \in Prepaid
                 /\ bought[o].type = "CREDITS" => aiWallet'
                 /\ bought[o].type = "WALLET_TOPUP" => wallet' = bought[o].currency
              \/ /\ o \in ledger' <=> o \in ledger
                 /\ credited'[o] = credited[o] /\ addons[o] = 0 /\ addons'[o] = 1
                 /\ orders[o].status = "SUCCEEDED" /\ bought[o].type = "ADDON"
           /\ wallet # "none" => wallet' = wallet
           /\ aiWallet => aiWallet'
<1>0. credited \in [Orders -> Nat] /\ addons \in [Orders -> Nat]
  BY DEF TypeOK
<1>1. CASE UNCHANGED <<money, addons>>
  BY <1>1 DEF money
<1>2. ASSUME NEW x \in Orders, Credits(x)
      PROVE  /\ wallet # "none" => wallet' = wallet
             /\ aiWallet => aiWallet'
  BY <1>2 DEF Credits, Prepaid
<1>3. ASSUME NEW x \in Orders, Boosts(x)
      PROVE  wallet' = wallet /\ (aiWallet => aiWallet')
  BY <1>3 DEF Boosts, money
<1>4. ASSUME NEW x \in Orders, Credits(x), x # o
      PROVE  /\ o \in ledger' <=> o \in ledger
             /\ credited'[o] = credited[o] /\ addons'[o] = addons[o]
  BY <1>0, <1>4 DEF Credits
<1>5. ASSUME NEW x \in Orders, Boosts(x), x # o
      PROVE  /\ o \in ledger' <=> o \in ledger
             /\ credited'[o] = credited[o] /\ addons'[o] = addons[o]
  BY <1>0, <1>5 DEF Boosts, money
<1>6. CASE Credits(o)
  BY <1>0, <1>2, <1>6 DEF Credits
<1>7. CASE Boosts(o)
  <2>1. addons'[o] = 1
    BY <1>0, <1>7 DEF Boosts
  <2>. QED  BY <1>3, <1>7, <2>1 DEF Boosts, money
<1>. QED  BY <1>1, <1>2, <1>3, <1>4, <1>5, <1>6, <1>7 DEF MoneyMoves

\* A minted order existed neither before nor for anybody.
LEMMA MintedIsNew ==
    ASSUME IInv, NEW o \in Orders, Minted(o)
    PROVE  /\ ~Exists(o) /\ ~orders[o].granted /\ addons[o] = 0 /\ o \notin ledger
           /\ psp[o] = "none"
<1>1. ~Exists(o)
  BY Bounds, OrdersAreNaturals DEF IInv, Numbered, Minted, TypeOK
<1>2. orders[o].granted \in BOOLEAN
  BY OrderFields DEF IInv
<1>. QED  BY <1>1, <1>2 DEF IInv, GrantsFollow, Exists, Unminted

LEMMA GrantsFollowStep == ASSUME IInv, StepMoves PROVE GrantsFollow'
<1>. SUFFICES ASSUME NEW o \in Orders
              PROVE  /\ orders'[o].granted \/ addons'[o] # 0 \/ o \in ledger' =>
                          orders'[o].status = "SUCCEEDED"
                     /\ o \in ledger' => bought'[o].type \in Prepaid
                     /\ o \in ledger' /\ bought'[o].type = "CREDITS" => aiWallet'
  BY DEF GrantsFollow
<1>1. TypeOK /\ OrderMoves(o) /\ OrderKept(o) /\ MoneyMoves
  BY DEF IInv, StepMoves
<1>2. /\ orders[o].granted \/ addons[o] # 0 \/ o \in ledger => orders[o].status = "SUCCEEDED"
      /\ o \in ledger => bought[o].type \in Prepaid
      /\ o \in ledger /\ bought[o].type = "CREDITS" => aiWallet
  BY DEF IInv, GrantsFollow
<1>3. orders[o].granted \in BOOLEAN /\ orders'[o].granted \in BOOLEAN
  BY <1>1, OrderFields DEF StepMoves, TypeOK, Order
<1>4. CASE Minted(o)
  <2>1. orders'[o].granted = orders[o].granted
    BY <1>1, <1>4 DEF Minted, TypeOK, Order
  <2>2. ~Exists(o) /\ ~orders[o].granted /\ addons[o] = 0 /\ o \notin ledger
    BY <1>4, MintedIsNew
  <2>3. addons'[o] = 0 /\ o \notin ledger'
    BY <1>1, <2>2, BalanceMoves DEF Exists
  <2>. QED  BY <1>3, <2>1, <2>2, <2>3
<1>5. CASE ~Minted(o)
  <2>1. bought'[o] = bought[o]
    BY <1>1, <1>5 DEF OrderMoves
  <2>2. orders[o].status = "SUCCEEDED" => orders'[o].status = "SUCCEEDED"
    BY <1>1 DEF OrderKept, Outcomes
  <2>3. orders'[o].granted => orders[o].granted \/ orders'[o].status = "SUCCEEDED"
    BY <1>1, <1>5, FieldMoves
  <2>. QED  BY <1>1, <1>2, <2>1, <2>2, <2>3, BalanceMoves
<1>. QED  BY <1>4, <1>5

\* Money decides how an order ends.
LEMMA StatusStep == ASSUME IInv, StepMoves PROVE StatusFollowsMoney'
<1>. SUFFICES ASSUME NEW o \in Orders
              PROVE  /\ orders'[o].status = "SUCCEEDED" => psp'[o] = "paid"
                     /\ orders'[o].status = "FAILED" /\ AtProvider(o)' => psp'[o] = "failed"
  BY DEF StatusFollowsMoney
<1>1. TypeOK /\ OrderMoves(o) /\ OrderKept(o) /\ PaymentMoves(o)
  BY DEF IInv, StepMoves
<1>2. /\ orders[o].status = "SUCCEEDED" => psp[o] = "paid"
      /\ orders[o].status = "FAILED" /\ AtProvider(o) => psp[o] = "failed"
  BY DEF IInv, StatusFollowsMoney
<1>3. psp[o] \in {"paid", "failed"} => psp'[o] = psp[o]
  BY <1>1 DEF PaymentMoves
<1>4. Exists(o) => (AtProvider(o)' <=> AtProvider(o))
  BY <1>1 DEF OrderKept, AtProvider
<1>5. orders'[o].status \in Outcomes =>
        /\ Exists(o)
        /\ \/ orders'[o].status = orders[o].status
           \/ orders'[o].status = "SUCCEEDED" /\ psp[o] = "paid"
           \/ orders'[o].status = "FAILED" /\ (psp[o] = "failed" \/ ~AtProvider(o))
  BY <1>1, FieldMoves DEF Exists, Outcomes, Unsettled
<1>. QED  BY <1>2, <1>3, <1>4, <1>5 DEF Outcomes

\* A balance is raised with the ledger entry, a boost is created where there is none.
LEMMA GrantedOnceStep == ASSUME IInv, StepMoves PROVE GrantedOnce'
<1>. SUFFICES ASSUME NEW o \in Orders
              PROVE  credited'[o] = (IF o \in ledger' THEN 1 ELSE 0) /\ addons'[o] <= 1
  BY DEF GrantedOnce
<1>1. TypeOK /\ MoneyMoves
  BY DEF IInv, StepMoves
<1>2. credited[o] = (IF o \in ledger THEN 1 ELSE 0) /\ addons[o] <= 1
  BY DEF IInv, GrantedOnce
<1>. QED  BY <1>1, <1>2, BalanceMoves

\* The marker of a credit order is written when the entry exists.
LEMMA StampedStep == ASSUME IInv, StepMoves PROVE StampedCreditsLanded'
<1>. SUFFICES ASSUME NEW o \in Orders, bought'[o].type = "CREDITS", orders'[o].granted
              PROVE  o \in ledger'
  BY DEF StampedCreditsLanded
<1>1. TypeOK /\ OrderMoves(o) /\ MoneyMoves
  BY DEF IInv, StepMoves
<1>2. bought[o].type = "CREDITS" /\ orders[o].granted => o \in ledger
  BY DEF IInv, StampedCreditsLanded
<1>3. ~Minted(o)
  <2>1. ASSUME Minted(o) PROVE ~orders'[o].granted
    <3>0. orders[o] \in Order
      BY <1>1 DEF TypeOK
    <3>1. orders'[o].granted = orders[o].granted
      BY <2>1, <3>0 DEF Minted, Order
    <3>. QED  BY <2>1, <3>1, MintedIsNew
  <2>. QED  BY <2>1
<1>4. bought'[o] = bought[o]
  BY <1>1, <1>3 DEF OrderMoves
<1>5. o \in ledger
  BY <1>1, <1>2, <1>3, <1>4, FieldMoves
<1>. QED  BY <1>1, <1>5, BalanceMoves

\* The wallet keeps its currency, and an entry is written in it.
LEMMA CurrencyStep == ASSUME IInv, StepMoves PROVE OneCurrency'
<1>. SUFFICES ASSUME NEW o \in ledger', bought'[o].type = "WALLET_TOPUP"
              PROVE  wallet' = bought'[o].currency
  BY DEF OneCurrency
<1>0. o \in Orders
  BY DEF StepMoves, TypeOK
<1>1. TypeOK /\ OrderMoves(o) /\ MoneyMoves /\ OneCurrency
  BY <1>0 DEF IInv, StepMoves
<1>2. ~Minted(o)
  BY <1>0, <1>1, MintedIsNew, BalanceMoves DEF Exists
<1>3. bought'[o] = bought[o] /\ bought[o].currency # "none"
  BY <1>0, <1>1, <1>2 DEF OrderMoves, TypeOK, Purchase, Currencies
<1>4. o \in ledger => wallet = bought[o].currency
  BY <1>1, <1>3 DEF OneCurrency
<1>. QED  BY <1>0, <1>1, <1>3, <1>4, BalanceMoves

\* A checkout that issues or persists knows a minted order.
LEMMA ShoppedStep == ASSUME IInv, StepMoves, [Next]_vars PROVE Shopped'
<1>0. TypeOK /\ Shopped /\ buyers \in [Buyers -> Shopping]
  BY DEF IInv, TypeOK
<1>1. ASSUME NEW b \in Buyers, buyers'[b] = buyers[b], buyers'[b].step \in {"issue", "persist"}
      PROVE  buyers'[b].order \in Orders /\ orders'[buyers'[b].order].status # "none"
  BY <1>0, <1>1 DEF Shopped, StepMoves, OrderKept, Exists
<1>2. ASSUME NEW b \in Buyers, Buy(b),
             buyers'[b].step \in {"issue", "persist"} =>
               buyers'[b].order \in Orders /\ orders'[buyers'[b].order].status # "none",
             \A x \in Buyers : x # b => buyers'[x] = buyers[x]
      PROVE  Shopped'
  BY <1>1, <1>2 DEF Shopped, Exists
<1>3. ASSUME NEW b \in Buyers, Buy(b) PROVE Shopped'
  <2>1. CASE Checkout(b)
    <3>1. PICK i \in Intents :
            LET purchase == [type |-> i.type, package |-> i.package,
                             provider |-> i.provider, currency |-> currency]
            IN  buyers' \in
                  {[buyers EXCEPT ![b] = [step |-> "create", order |-> 0,
                                          purchase |-> purchase]]}
                  \cup {[buyers EXCEPT ![b] = [step |-> "issue", order |-> o,
                                               purchase |-> purchase]] :
                          o \in Reusable(purchase)}
      BY <2>1 DEF Checkout
    <3>. DEFINE purchase == [type |-> i.type, package |-> i.package,
                             provider |-> i.provider, currency |-> currency]
    <3>2. \A o \in Reusable(purchase) : o \in Orders /\ Exists(o)
      BY DEF Reusable, Exists
    <3>3. orders' = orders
      BY <2>1 DEF Checkout
    <3>. HIDE DEF purchase
    <3>4. buyers' \in {[buyers EXCEPT ![b] = [step |-> "create", order |-> 0,
                                              purchase |-> purchase]]}
             \cup {[buyers EXCEPT ![b] = [step |-> "issue", order |-> o,
                                          purchase |-> purchase]] : o \in Reusable(purchase)}
      BY <3>1 DEF purchase
    <3>5. /\ buyers'[b].step \in {"issue", "persist"} =>
               buyers'[b].order \in Orders /\ orders'[buyers'[b].order].status # "none"
          /\ \A x \in Buyers : x # b => buyers'[x] = buyers[x]
      BY <1>0, <3>2, <3>3, <3>4 DEF Exists
    <3>. QED  BY <1>2, <1>3, <3>5
  <2>2. CASE Create(b)
    <3>1. minted + 1 \in Orders
      BY <2>2, Bounds DEF Create, TypeOK, Orders, IInv
    <3>2. orders'[minted + 1].status = "PENDING"
      BY <1>0, <2>2, <3>1 DEF Create, TypeOK, Order
    <3>3. buyers'[b].order = minted + 1 /\ \A x \in Buyers : x # b => buyers'[x] = buyers[x]
      <4>. DEFINE s == [buyers[b] EXCEPT !.step = "issue", !.order = minted + 1]
      <4>1. s.order = minted + 1
        BY <1>0 DEF Shopping
      <4>2. buyers' = [buyers EXCEPT ![b] = s]
        BY <2>2 DEF Create
      <4>. HIDE DEF s
      <4>. QED  BY <1>0, <4>1, <4>2
    <3>. QED  BY <1>2, <1>3, <3>1, <3>2, <3>3 DEF Exists
  <2>3. CASE Issue(b)
    <3>1. buyers[b].order \in Orders /\ Exists(buyers[b].order)
      BY <1>0, <2>3 DEF Issue, Shopped
    <3>2. orders'[buyers[b].order].status # "none"
      BY <3>1 DEF StepMoves, OrderKept, Exists
    <3>3. CASE buyers' = [buyers EXCEPT ![b] = Away]
      BY <1>0, <1>2, <1>3, <3>3, ShoppingTypes
    <3>4. CASE buyers' = [buyers EXCEPT ![b].step = "persist"]
      <4>. DEFINE s == [buyers[b] EXCEPT !.step = "persist"]
      <4>1. s.order = buyers[b].order
        BY <1>0 DEF Shopping
      <4>2. buyers' = [buyers EXCEPT ![b] = s]
        BY <3>4
      <4>. HIDE DEF s
      <4>3. buyers'[b].order = buyers[b].order /\ \A x \in Buyers : x # b => buyers'[x] = buyers[x]
        BY <1>0, <4>1, <4>2
      <4>. QED  BY <1>2, <1>3, <3>1, <3>2, <4>3 DEF Exists
    <3>. QED  BY <2>3, <3>3, <3>4 DEF Issue
  <2>4. CASE PersistSession(b) \/ Abandon(b)
    <3>1. buyers' = [buyers EXCEPT ![b] = Away]
      BY <2>4 DEF PersistSession, Abandon
    <3>. QED  BY <1>0, <1>2, <1>3, <3>1, ShoppingTypes
  <2>. QED  BY <1>3, <2>1, <2>2, <2>3, <2>4 DEF Buy
<1>4. ASSUME buyers' = buyers PROVE Shopped'
  BY <1>1, <1>4 DEF Shopped, Exists
<1>5. CASE (\E o \in Orders : Pay(o)) \/ ChangeCurrency \/ PeriodEnds \/ Sweep \/ UNCHANGED vars
  BY <1>4, <1>5 DEF Pay, ChangeCurrency, PeriodEnds, Sweep, vars
<1>6. ASSUME NEW h \in Handlers, Call(h) \/ Settle(h) PROVE Shopped'
  BY <1>4, <1>6 DEF Call, PaytrCallback, StripeCompleted, Approve, Reject, Start,
                    Settle, Repoint, Read, Flip, Fail
<1>7. ASSUME NEW a \in Actors, Provision(a) \/ Throw(a) \/ Crash(a) PROVE Shopped'
  BY <1>4, <1>7 DEF Provision, Grant, CreateWallet, Modules, Mark, Throw, Crash
<1>. QED  BY <1>3, <1>5, <1>6, <1>7 DEF Next

-----------------------------------------------------------------------------
(***************************************************************************)
(* What the actors know                                                    *)
(***************************************************************************)

\* An actor that stays where it was knows what it knew, as long as no boost of its
\* order is created.
LEMMA WaitingKnow ==
    ASSUME IInv, StepMoves, NEW a \in Actors, task'[a] = task[a],
           task[a].step = "grant" => addons'[task[a].order] = addons[task[a].order]
                                     \/ bought[task[a].order].type # "ADDON"
    PROVE  ActorKnows(a)'
<1>. DEFINE o == task[a].order
<1>1. ActorKnows(a) /\ TypeOK /\ MoneyMoves
  BY DEF IInv, StepMoves, ActorsKnow
<1>2. CASE task[a].step \in {"idle", "next"}
  BY <1>2 DEF ActorKnows
<1>3. CASE task[a].step \notin {"idle", "next"}
  <2>1. o \in Orders /\ Exists(o)
    BY <1>1, <1>3 DEF ActorKnows
  <2>2. orders'[o].status # "none" /\ bought'[o] = bought[o]
    BY <2>1 DEF StepMoves, OrderKept, Exists
  <2>3. orders[o].status = "SUCCEEDED" => orders'[o].status = "SUCCEEDED"
    BY <2>1 DEF StepMoves, OrderKept, Outcomes
  <2>4. psp[o] \in {"paid", "failed"} => psp'[o] = psp[o]
    BY <2>1 DEF StepMoves, PaymentMoves
  <2>5. o \in ledger => o \in ledger'
    BY <1>1, <2>1, BalanceMoves
  <2>. QED  BY <1>1, <2>1, <2>2, <2>3, <2>4, <2>5 DEF ActorKnows, Exists, AtProvider
<1>. QED  BY <1>2, <1>3

\* An actor that just goes elsewhere, or is done.
LEMMA DoneKnows ==
    ASSUME NEW a \in Actors, task'[a].step \in {"idle", "next"}
    PROVE  ActorKnows(a)'
BY DEF ActorKnows

\* All actors know, when the one that moved does.
LEMMA OneMoved ==
    ASSUME IInv, StepMoves, NEW m \in Actors, Moves(m), ActorKnows(m)', addons' = addons
    PROVE  ActorsKnow'
<1>1. ASSUME NEW a \in Actors, a # m PROVE ActorKnows(a)'
  <2>1. task'[a] = task[a]
    BY <1>1 DEF Moves
  <2>. QED  BY <2>1, WaitingKnow
<1>. QED  BY <1>1 DEF ActorsKnow

\* Callbacks start with what the provider, or the operator, saw.
LEMMA CallKnow ==
    ASSUME IInv, StepMoves, NEW h \in Handlers, Call(h)
    PROVE  ActorsKnow'
<1>1. PICK step \in Steps, o \in Orders, via \in {"paytr", "stripe", "operator"} :
        /\ Start(h, step, o, via) /\ Exists(o)
        /\ \/ step \in {"repoint", "read"} /\ psp[o] = "paid"
           \/ step = "fail" /\ (psp[o] = "failed" \/ ~AtProvider(o))
  <2>1. CASE PaytrCallback(h)
    <3>1. PICK o \in Orders :
            /\ orders[o].ref = "oid"
            /\ \/ AmountMatches(o) /\ Start(h, "read", o, "paytr")
               \/ psp[o] = "failed" /\ Start(h, "fail", o, "paytr")
      BY <2>1 DEF PaytrCallback
    <3>2. Exists(o)
      BY <3>1 DEF IInv, Unminted
    <3>. QED  BY <3>1, <3>2 DEF AmountMatches, Steps
  <2>2. CASE StripeCompleted(h)
    <3>1. PICK o \in Orders :
            /\ psp[o] = "paid"
            /\ Start(h, IF bought[o].type = "SUBSCRIPTION" THEN "repoint" ELSE "read",
                     o, "stripe")
      BY <2>2 DEF StripeCompleted
    <3>2. Exists(o)
      BY <3>1 DEF IInv, Unminted
    <3>3. CASE bought[o].type = "SUBSCRIPTION"
      <4>1. Start(h, "repoint", o, "stripe")
        BY <3>1, <3>3
      <4>. QED  BY <3>1, <3>2, <4>1 DEF Steps
    <3>4. CASE bought[o].type # "SUBSCRIPTION"
      <4>1. Start(h, "read", o, "stripe")
        BY <3>1, <3>4
      <4>. QED  BY <3>1, <3>2, <4>1 DEF Steps
    <3>. QED  BY <3>3, <3>4
  <2>3. CASE Approve(h)
    <3>1. PICK o \in Orders :
            ManuallySettleable(o) /\ (AtProvider(o) \/ psp[o] = "paid")
            /\ Start(h, "read", o, "operator")
      BY <2>3 DEF Approve
    <3>2. Exists(o) /\ psp[o] = "paid"
      BY <3>1 DEF IInv, OnTransfer, ManuallySettleable, Exists
    <3>. QED  BY <3>1, <3>2 DEF Steps
  <2>4. CASE Reject(h)
    <3>1. PICK o \in Orders : ManuallySettleable(o) /\ Start(h, "fail", o, "operator")
      BY <2>4 DEF Reject
    <3>2. Exists(o) /\ ~AtProvider(o)
      BY <3>1 DEF IInv, OnTransfer, ManuallySettleable, Exists
    <3>. QED  BY <3>1, <3>2 DEF Steps
  <2>. QED  BY <2>1, <2>2, <2>3, <2>4 DEF Call
<1>2. Moves(h) /\ task'[h].step = step /\ task'[h].order = o /\ h \in Actors
  BY <1>1, StartMoves DEF IInv, Actors
<1>3. UNCHANGED <<orders, psp, bought, addons>>
  BY <1>1 DEF Start
<1>4. ActorKnows(h)'
  BY <1>1, <1>2, <1>3 DEF ActorKnows, Exists, AtProvider
<1>. QED  BY <1>2, <1>3, <1>4, OneMoved

\* A settlement reads, flips and fails what it started with.
LEMMA SettleKnow ==
    ASSUME IInv, StepMoves, NEW h \in Handlers, Settle(h)
    PROVE  ActorsKnow'
<1>. DEFINE o == task[h].order
<1>0. TypeOK /\ h \in Actors /\ ActorKnows(h)
  BY DEF IInv, Actors, ActorsKnow
<1>1. /\ o \in Orders /\ Exists(o) /\ addons' = addons /\ psp' = psp /\ bought' = bought
      /\ task[h].step \in {"repoint", "read", "flip"} => psp[o] = "paid"
  BY <1>0 DEF Settle, Repoint, Read, Flip, Fail, ActorKnows
<1>2. orders'[o].status # "none"
  BY <1>1 DEF StepMoves, OrderKept, Exists
<1>3. CASE Answer(h)
  BY <1>0, <1>1, <1>3, AnswerMoves, DoneKnows, OneMoved
<1>4. ASSUME Moves(h), task'[h].order = o, task'[h].step \in {"read", "flip"}, psp[o] = "paid"
      PROVE  ActorsKnow'
  <2>1. ActorKnows(h)'
    BY <1>1, <1>2, <1>4 DEF ActorKnows, Exists
  <2>. QED  BY <1>0, <1>1, <1>4, <2>1, OneMoved
<1>5. CASE Repoint(h)
  <2>1. Moves(h) /\ task'[h].order = o /\ task'[h].step = "read"
    BY <1>0, <1>5, GotoMoves DEF Repoint, Steps
  <2>. QED  BY <1>1, <1>4, <1>5, <2>1 DEF Repoint
<1>6. CASE Read(h)
  <2>1. CASE task' = [task EXCEPT ![h].step = "flip", ![h].ref = orders[o].ref]
    <3>. DEFINE t == [task[h] EXCEPT !.step = "flip", !.ref = orders[o].ref]
    <3>0. task[h] \in Task /\ orders[o].ref \in Ref
      BY <1>0, <1>1, OrderFields DEF TypeOK
    <3>1. t \in Task /\ t.step = "flip" /\ t.order = o
      BY <3>0 DEF Task, Steps
    <3>2. task' = [task EXCEPT ![h] = t]
      BY <2>1
    <3>. HIDE DEF t
    <3>3. Moves(h) /\ task'[h] = t
      BY <1>0, <3>1, <3>2, ActorMoved DEF Moves
    <3>. QED  BY <1>1, <1>4, <1>6, <3>1, <3>3 DEF Read
  <2>. QED  BY <1>3, <1>6, <2>1 DEF Read
<1>7. CASE Flip(h) /\ Flippable(o)
  <2>1. Moves(h) /\ task'[h].order = o /\ task'[h].step = "grant"
    BY <1>0, <1>7, GotoMoves DEF Flip, Steps
  <2>2. orders'[o].status = "SUCCEEDED"
    <3>. DEFINE n == Cardinality(Succeeded \ {o}) + 1
    <3>1. orders' = [orders EXCEPT ![o] = [orders[o] EXCEPT !.status = "SUCCEEDED", !.at = n]]
      BY <1>7 DEF Flip, MarkSucceeded
    <3>2. orders \in [Orders -> Order] /\ orders[o] \in Order
      BY <1>0, <1>1 DEF TypeOK
    <3>3. [orders[o] EXCEPT !.status = "SUCCEEDED", !.at = n].status = "SUCCEEDED"
      BY <3>2 DEF Order
    <3>. HIDE DEF n, o
    <3>. QED  BY <1>1, <3>1, <3>2, <3>3
  <2>3. addons[o] = 0
    BY <1>1, <1>7 DEF IInv, GrantsFollow, Flippable, Unsettled
  <2>4. ActorKnows(h)'
    BY <1>1, <2>1, <2>2, <2>3 DEF ActorKnows, Exists
  <2>. QED  BY <1>0, <1>1, <2>1, <2>4, OneMoved
<1>8. CASE (Flip(h) /\ ~Flippable(o)) \/ Fail(h)
  BY <1>3, <1>8 DEF Flip, Fail
<1>. QED  BY <1>5, <1>6, <1>7, <1>8 DEF Settle

\* A grant passes on what is true of its order.
LEMMA ProvisionKnow ==
    ASSUME IInv, StepMoves, NEW a \in Actors, Provision(a)
    PROVE  ActorsKnow'
<1>. DEFINE o == task[a].order
<1>0. TypeOK /\ ActorKnows(a) /\ MoneyMoves
  BY DEF IInv, ActorsKnow, StepMoves
<1>1. o \in Orders /\ Exists(o) /\ orders[o].status = "SUCCEEDED" /\ bought' = bought
  BY <1>0 DEF Provision, Grant, CreateWallet, Modules, Mark, ActorKnows
<1>2. orders'[o].status = "SUCCEEDED" /\ (o \in ledger => o \in ledger')
  BY <1>0, <1>1, BalanceMoves DEF StepMoves, OrderKept, Outcomes
<1>3. ASSUME Answer(a), addons' = addons PROVE ActorsKnow'
  BY <1>0, <1>1, <1>3, AnswerMoves, DoneKnows, OneMoved
<1>4. ASSUME NEW step \in {"grant", "wallet", "modules", "mark"}, Goto(a, step),
             step = "wallet" => bought[o].type \in Prepaid,
             step = "modules" => bought[o].type = "SUBSCRIPTION",
             step = "grant" => bought[o].type # "ADDON",
             step = "mark" /\ bought[o].type = "CREDITS" => o \in ledger'
      PROVE  ActorKnows(a)' /\ Moves(a)
  <2>1. Moves(a) /\ task'[a].step = step /\ task'[a].order = o
    BY <1>0, <1>4, GotoMoves DEF Steps
  <2>2. ActorKnows(a)'
    BY <1>1, <1>2, <1>4, <2>1 DEF ActorKnows, Exists
  <2>. QED  BY <2>1, <2>2
<1>5. CASE Activate(a) /\ Grant(a)
  <2>1. bought[o].type = "SUBSCRIPTION" /\ Goto(a, "modules") /\ addons' = addons
    BY <1>5 DEF Activate
  <2>. QED  BY <1>4, <2>1, OneMoved
<1>6. CASE GrantBoost(a) /\ Grant(a)
  <2>1. /\ bought[o].type = "ADDON" /\ Goto(a, "mark") /\ task[a].step = "grant"
        /\ addons' = [addons EXCEPT ![o] = addons[o] + 1]
    BY <1>6 DEF GrantBoost, Grant
  <2>2. ActorKnows(a)' /\ Moves(a)
    BY <1>4, <2>1
  <2>3. ASSUME NEW b \in Actors, b # a PROVE ActorKnows(b)'
    <3>1. task'[b] = task[b]
      BY <2>2, <2>3 DEF Moves
    <3>2. ASSUME task[b].step = "grant", bought[task[b].order].type = "ADDON"
          PROVE  addons'[task[b].order] = addons[task[b].order]
      <4>1. task[b].order # o
        BY <2>1, <2>3, <3>2 DEF IInv, OneGranter
      <4>2. task[b].order \in Orders
        BY <3>2 DEF IInv, ActorsKnow, ActorKnows
      <4>. QED  BY <1>0, <2>1, <4>1, <4>2 DEF TypeOK
    <3>. QED  BY <3>1, <3>2, WaitingKnow
  <2>. QED  BY <2>2, <2>3 DEF ActorsKnow
<1>7. CASE CreditGrowthWallet(a)
  <2>0. bought[o].type = "WALLET_TOPUP" /\ addons' = addons
    BY <1>7 DEF CreditGrowthWallet
  <2>1. CASE Answer(a)
    BY <1>3, <2>0, <2>1
  <2>2. CASE Goto(a, "mark") \/ Goto(a, "wallet")
    BY <1>4, <2>0, <2>2, OneMoved DEF Prepaid
  <2>. QED  BY <1>7, <2>1, <2>2 DEF CreditGrowthWallet
<1>8. CASE CreditAiWallet(a)
  <2>0. bought[o].type = "CREDITS" /\ addons' = addons
    BY <1>8 DEF CreditAiWallet
  <2>1. CASE Goto(a, "wallet")
    BY <1>4, <2>0, <2>1, OneMoved DEF Prepaid
  <2>2. CASE Goto(a, "mark") /\ (Applied(o) \/ Credit(o))
    <3>1. o \in ledger'
      BY <1>2, <2>2 DEF Applied, Credit
    <3>. QED  BY <1>4, <2>0, <2>2, <3>1, OneMoved
  <2>. QED  BY <1>8, <2>1, <2>2 DEF CreditAiWallet
<1>9. CASE CreateWallet(a)
  <2>0. bought[o].type \in Prepaid /\ addons' = addons
    BY <1>0, <1>9 DEF CreateWallet, ActorKnows
  <2>1. CASE Credit(o) /\ Goto(a, "mark")
    <3>1. o \in ledger'
      BY <2>1 DEF Credit
    <3>. QED  BY <1>4, <2>0, <2>1, <3>1, OneMoved
  <2>2. CASE Goto(a, "grant")
    BY <1>4, <2>0, <2>2, OneMoved DEF Prepaid
  <2>3. CASE IF AnyConflictIsReplay(bought[o].type) THEN Goto(a, "mark") ELSE Answer(a)
    <3>1. CASE bought[o].type = "WALLET_TOPUP"
      <4>1. Goto(a, "mark")
        BY <2>3, <3>1 DEF AnyConflictIsReplay
      <4>. QED  BY <1>4, <2>0, <3>1, <4>1, OneMoved
    <3>2. CASE bought[o].type # "WALLET_TOPUP"
      BY <1>3, <2>0, <2>3, <3>2 DEF AnyConflictIsReplay
    <3>. QED  BY <3>1, <3>2
  <2>. QED  BY <1>9, <2>1, <2>2, <2>3 DEF CreateWallet
<1>10. CASE Modules(a)
  <2>1. bought[o].type = "SUBSCRIPTION" /\ Goto(a, "mark") /\ addons' = addons
    BY <1>0, <1>10 DEF Modules, ActorKnows
  <2>. QED  BY <1>4, <2>1, OneMoved
<1>11. CASE Mark(a)
  BY <1>3, <1>11 DEF Mark
<1>. QED  BY <1>5, <1>6, <1>7, <1>8, <1>9, <1>10, <1>11 DEF Provision, Grant

\* The sweep stamps a credit order only on the strength of its ledger entry.
LEMMA SweepStepKnows ==
    ASSUME IInv, StepMoves, Sweep
    PROVE  ActorsKnow'
<1>0. TypeOK /\ SweepKnows /\ Sweeper \in Actors
  BY DEF IInv, Actors
<1>1. UNCHANGED <<orders, bought, psp, addons, ledger>>
  BY DEF Sweep, money
<1>2. Moves(Sweeper)
  BY <1>0, SweepMoves
<1>3. CASE task'[Sweeper].step \in {"idle", "next"}
  BY <1>0, <1>1, <1>2, <1>3, DoneKnows, OneMoved
<1>4. ASSUME NEW c \in sweep.todo, c \in Candidate, task'[Sweeper].order = c.order,
             IF AlreadyGranted(c.order) THEN task'[Sweeper].step = "mark"
                                        ELSE task'[Sweeper].step = "grant"
      PROVE  ActorsKnow'
  <2>1. c.order \in Orders /\ orders[c.order].status = "SUCCEEDED"
        /\ bought[c.order].type # "ADDON"
    BY <1>0, <1>4 DEF Candidate, SweepKnows
  <2>2. bought[c.order].type = "CREDITS" /\ AlreadyGranted(c.order) => c.order \in ledger
    BY DEF AlreadyGranted
  <2>3. ActorKnows(Sweeper)'
    BY <1>1, <1>4, <2>1, <2>2 DEF ActorKnows, Exists
  <2>. QED  BY <1>0, <1>1, <1>2, <2>3, OneMoved
<1>. QED  BY <1>0, <1>3, <1>4, SweepMoves

\* Failures end a settlement or the sweep.
LEMMA FailureKnow ==
    ASSUME IInv, StepMoves, NEW a \in Actors, Throw(a) \/ Crash(a)
    PROVE  ActorsKnow'
<1>0. TypeOK /\ ActorKnows(a) /\ addons' = addons
  BY DEF IInv, ActorsKnow, Throw, Crash
<1>1. CASE Throw(a)
  <2>1. task[a].order \in Orders
    BY <1>0, <1>1 DEF Throw, ActorKnows
  <2>. QED  BY <1>0, <1>1, <2>1, AnswerMoves, DoneKnows, OneMoved DEF Throw
<1>2. CASE Crash(a)
  <2>1. Moves(a) /\ task'[a] = Free
    BY <1>0, <1>2, TaskTypes, ActorMoved DEF Crash, Moves
  <2>. QED  BY <1>0, <2>1, TaskTypes, DoneKnows, OneMoved
<1>. QED  BY <1>1, <1>2

LEMMA ActorsKnowStep == ASSUME IInv, StepMoves, [Next]_vars PROVE ActorsKnow'
<1>1. ASSUME task' = task, addons' = addons PROVE ActorsKnow'
  <2>1. ASSUME NEW a \in Actors PROVE ActorKnows(a)'
    BY <1>1, WaitingKnow
  <2>. QED  BY <2>1 DEF ActorsKnow
<1>2. ASSUME NEW b \in Buyers, Buy(b) PROVE ActorsKnow'
  BY <1>1, <1>2 DEF Buy, Checkout, Create, Issue, PersistSession, Abandon
<1>3. CASE (\E o \in Orders : Pay(o)) \/ ChangeCurrency \/ PeriodEnds \/ UNCHANGED vars
  BY <1>1, <1>3 DEF Pay, ChangeCurrency, PeriodEnds, vars
<1>4. ASSUME NEW h \in Handlers, Call(h) \/ Settle(h) PROVE ActorsKnow'
  BY <1>4, CallKnow, SettleKnow
<1>5. ASSUME NEW a \in Actors, Provision(a) \/ Throw(a) \/ Crash(a) PROVE ActorsKnow'
  BY <1>5, ProvisionKnow, FailureKnow
<1>6. CASE Sweep
  BY <1>6, SweepStepKnows
<1>. QED  BY <1>2, <1>3, <1>4, <1>5, <1>6 DEF Next

\* An actor that comes to grant a boost has just let its order succeed, so nobody
\* else is there.
LEMMA OneJoins ==
    ASSUME IInv, StepMoves, NEW m \in Actors, Moves(m), bought' = bought,
           task'[m].step = "grant" =>
             \/ bought[task'[m].order].type # "ADDON"
             \/ orders[task'[m].order].status # "SUCCEEDED"
    PROVE  OneGranter'
<1>1. ASSUME NEW a \in Actors, a # m, task'[a].step = "grant"
      PROVE  task'[a] = task[a] /\ orders[task[a].order].status = "SUCCEEDED"
  <2>1. task'[a] = task[a]
    BY <1>1 DEF Moves
  <2>. QED  BY <1>1, <2>1 DEF IInv, ActorsKnow, ActorKnows
<1>2. ASSUME NEW a \in Actors, NEW b \in Actors, a # b, task'[a].step = "grant",
             task'[b].step = "grant", task'[a].order = task'[b].order
      PROVE  bought[task'[a].order].type # "ADDON"
  <2>1. CASE a # m /\ b # m
    BY <1>1, <1>2, <2>1 DEF IInv, OneGranter
  <2>2. CASE a = m
    BY <1>1, <1>2, <2>2
  <2>3. CASE b = m
    BY <1>1, <1>2, <2>3
  <2>. QED  BY <2>1, <2>2, <2>3
<1>. QED  BY <1>2 DEF OneGranter

LEMMA OneGranterStep == ASSUME IInv, StepMoves, [Next]_vars PROVE OneGranter'
<1>0. TypeOK /\ ActorsKnow
  BY DEF IInv
<1>1. ASSUME task' = task PROVE OneGranter'
  <2>1. ASSUME NEW a \in Actors, task[a].step = "grant"
        PROVE  bought'[task[a].order] = bought[task[a].order]
    BY <1>0, <2>1 DEF ActorsKnow, ActorKnows, StepMoves, OrderKept
  <2>2. OneGranter
    BY DEF IInv
  <2>. QED  BY <1>1, <2>1, <2>2 DEF OneGranter
<1>2. ASSUME NEW b \in Buyers, Buy(b) PROVE OneGranter'
  BY <1>1, <1>2 DEF Buy, Checkout, Create, Issue, PersistSession, Abandon
<1>3. CASE (\E o \in Orders : Pay(o)) \/ ChangeCurrency \/ PeriodEnds \/ UNCHANGED vars
  BY <1>1, <1>3 DEF Pay, ChangeCurrency, PeriodEnds, vars
<1>4. ASSUME NEW a \in Actors, Answer(a), task[a].order \in Orders, bought' = bought
      PROVE  OneGranter'
  BY <1>0, <1>4, AnswerMoves, OneJoins
<1>5. ASSUME NEW a \in Actors, NEW step \in Steps, Goto(a, step), bought' = bought,
             step = "grant" => \/ bought[task[a].order].type # "ADDON"
                               \/ orders[task[a].order].status # "SUCCEEDED"
      PROVE  OneGranter'
  BY <1>0, <1>5, GotoMoves, OneJoins
<1>6. ASSUME NEW h \in Handlers, Call(h) PROVE OneGranter'
  <2>1. PICK step \in Steps, o \in Orders, via \in {"paytr", "stripe", "operator"} :
          Start(h, step, o, via) /\ step # "grant"
    BY <1>6 DEF Call, PaytrCallback, StripeCompleted, Approve, Reject, Steps
  <2>. QED  BY <1>0, <2>1, StartMoves, OneJoins DEF Start, Actors
<1>7. ASSUME NEW h \in Handlers, Settle(h) PROVE OneGranter'
  <2>0. h \in Actors /\ ActorKnows(h)
    BY <1>0 DEF Actors, ActorsKnow
  <2>1. task[h].order \in Orders /\ bought' = bought
    BY <1>7, <2>0 DEF Settle, Repoint, Read, Flip, Fail, ActorKnows
  <2>2. CASE Answer(h)
    BY <1>4, <2>0, <2>1, <2>2
  <2>3. CASE Repoint(h)
    BY <1>5, <2>0, <2>1, <2>3 DEF Repoint, Steps
  <2>4. CASE task' = [task EXCEPT ![h].step = "flip", ![h].ref = orders[task[h].order].ref]
    <3>. DEFINE t == [task[h] EXCEPT !.step = "flip", !.ref = orders[task[h].order].ref]
    <3>0. task[h] \in Task /\ orders[task[h].order].ref \in Ref
      BY <1>0, <2>0, <2>1, OrderFields DEF TypeOK
    <3>1. t \in Task /\ t.step = "flip"
      BY <3>0 DEF Task, Steps
    <3>2. task' = [task EXCEPT ![h] = t]
      BY <2>4
    <3>. HIDE DEF t
    <3>. QED  BY <1>0, <2>0, <2>1, <3>1, <3>2, ActorMoved, OneJoins DEF Moves
  <2>5. CASE Flip(h) /\ Flippable(task[h].order)
    BY <1>5, <2>0, <2>1, <2>5 DEF Flip, Flippable, Unsettled, Steps
  <2>. QED  BY <1>7, <2>2, <2>3, <2>4, <2>5 DEF Settle, Read, Flip, Fail
<1>8. ASSUME NEW a \in Actors, Provision(a) PROVE OneGranter'
  <2>1. task[a].order \in Orders /\ bought' = bought
    BY <1>0, <1>8 DEF Provision, Grant, CreateWallet, Modules, Mark, ActorsKnow, ActorKnows
  <2>2. CASE Answer(a)
    BY <1>4, <2>1, <2>2
  <2>3. CASE \E step \in {"wallet", "modules", "mark"} : Goto(a, step)
    BY <1>5, <2>1, <2>3 DEF Steps
  <2>4. CASE CreateWallet(a) /\ Goto(a, "grant")
    <3>1. bought[task[a].order].type # "ADDON"
      BY <1>0, <2>4 DEF CreateWallet, ActorsKnow, ActorKnows, Prepaid
    <3>. QED  BY <1>5, <2>1, <2>4, <3>1 DEF Steps
  <2>. QED  BY <1>8, <2>2, <2>3, <2>4 DEF Provision, Grant, Activate, GrantBoost,
            CreditGrowthWallet, CreditAiWallet, CreateWallet, Modules, Mark
<1>9. CASE Sweep
  <2>1. bought' = bought /\ Sweeper \in Actors /\ SweepKnows
    BY <1>9 DEF Sweep, Actors, IInv
  <2>2. Moves(Sweeper)
    BY <1>0, <1>9, <2>1, SweepMoves
  <2>3. ASSUME task'[Sweeper].step = "grant" PROVE bought[task'[Sweeper].order].type # "ADDON"
    BY <1>0, <1>9, <2>1, <2>3, SweepMoves DEF SweepKnows
  <2>. QED  BY <2>1, <2>2, <2>3, OneJoins
<1>10. ASSUME NEW a \in Actors, Throw(a) \/ Crash(a) PROVE OneGranter'
  <2>1. bought' = bought
    BY <1>10 DEF Throw, Crash
  <2>2. CASE Throw(a)
    BY <1>0, <1>4, <2>1, <2>2 DEF Throw, ActorsKnow, ActorKnows
  <2>3. CASE Crash(a)
    BY <1>0, <2>1, <2>3, TaskTypes, ActorMoved, OneJoins DEF Crash, Moves
  <2>. QED  BY <1>10, <2>2, <2>3
<1>. QED  BY <1>2, <1>3, <1>6, <1>7, <1>8, <1>9, <1>10 DEF Next

LEMMA SweepKnowsStep == ASSUME IInv, StepMoves, [Next]_vars PROVE SweepKnows'
<1>0. TypeOK /\ SweepKnows /\ sweep.todo \subseteq Candidate
  BY DEF IInv, TypeOK
<1>1. ASSUME NEW c \in sweep.todo
      PROVE  orders'[c.order].status = "SUCCEEDED" /\ bought'[c.order].type # "ADDON"
  <2>1. c.order \in Orders /\ orders[c.order].status = "SUCCEEDED"
        /\ bought[c.order].type # "ADDON"
    BY <1>0 DEF SweepKnows, Candidate
  <2>. QED  BY <2>1 DEF StepMoves, OrderKept, Exists, Outcomes
<1>2. CASE sweep' = sweep
  BY <1>1, <1>2 DEF SweepKnows
<1>3. CASE Sweep
  <2>1. orders' = orders /\ bought' = bought
    BY <1>3 DEF Sweep
  <2>. QED  BY <1>0, <1>3, <2>1, SweepMoves DEF SweepKnows
<1>4. CASE \E a \in Actors : Crash(a)
  <2>1. sweep' = sweep \/ sweep'.todo = {}
    BY <1>4 DEF Crash
  <2>. QED  BY <1>2, <2>1 DEF SweepKnows
<1>5. ASSUME NEW b \in Buyers, Buy(b) PROVE sweep' = sweep
  BY <1>5 DEF Buy, Checkout, Create, Issue, PersistSession, Abandon
<1>6. CASE (\E o \in Orders : Pay(o)) \/ ChangeCurrency \/ PeriodEnds \/ UNCHANGED vars
  BY <1>2, <1>6 DEF Pay, ChangeCurrency, PeriodEnds, vars
<1>7. ASSUME NEW h \in Handlers, Call(h) \/ Settle(h) PROVE sweep' = sweep
  BY <1>7 DEF Call, PaytrCallback, StripeCompleted, Approve, Reject, Start,
              Settle, Repoint, Read, Flip, Fail
<1>8. ASSUME NEW a \in Actors, Provision(a) \/ Throw(a) PROVE sweep' = sweep
  BY <1>8 DEF Provision, Grant, CreateWallet, Modules, Mark, Throw
<1>. QED  BY <1>2, <1>3, <1>4, <1>5, <1>6, <1>7, <1>8 DEF Next

-----------------------------------------------------------------------------
(***************************************************************************)
(* The theorems                                                            *)
(***************************************************************************)
LEMMA Invariance == Spec => []IInv
<1>1. IInv /\ [Next]_vars => IInv'
  <2>. SUFFICES ASSUME IInv, [Next]_vars PROVE IInv'
    OBVIOUS
  <2>1. StepMoves
    BY NextMoves
  <2>2. TypeOK'
    BY <2>1 DEF StepMoves
  <2>. QED  BY <2>1, <2>2, NumberedStep, UnmintedStep, OnTransferStep, ShoppedStep,
               GrantsFollowStep, ActorsKnowStep, OneGranterStep, SweepKnowsStep, StatusStep,
               GrantedOnceStep, StampedStep, CurrencyStep DEF IInv
<1>. QED  BY InitInv, <1>1, PTL DEF Spec

\* Every variable keeps its shape, whatever providers, operators and failures do.
THEOREM TypeCorrect == Spec => []TypeOK
BY Invariance, PTL DEF IInv

\* An order succeeds only on money that arrived in full, and one that is payable or
\* paid at a provider is never failed: for every market, every number of concurrent
\* callbacks, operator decisions, sweeps and crashes.
THEOREM MoneyDecides == Spec => []StatusFollowsMoney
BY Invariance, PTL DEF IInv

\* A top-up raises a balance at most once and with its ledger entry, and a boost is
\* created at most once, however often it is granted and wherever a grant dies.
THEOREM GrantsAreOnce == Spec => []GrantedOnce
BY Invariance, PTL DEF IInv

\* The marker of a credit order never hides a credit that is missing.
THEOREM StampsAreTrue == Spec => []StampedCreditsLanded
BY Invariance, PTL DEF IInv

\* One growth wallet holds one currency, however often the workspace's changes.
THEOREM WalletHasOneCurrency == Spec => []OneCurrency
BY Invariance, PTL DEF IInv

\* What settleSuccess and settleFailure decided of an order no later step revises.
THEOREM SettlementStands == Spec => SettlementIsFinal
<1>1. IInv /\ [Next]_vars =>
        [\A o \in Orders : orders[o].status \in {"SUCCEEDED", "FAILED"} =>
            orders'[o].status = orders[o].status /\ orders'[o].at = orders[o].at]_vars
  BY NextMoves DEF StepMoves, OrderKept, Outcomes
<1>. QED  BY Invariance, <1>1, PTL DEF Spec, SettlementIsFinal
=============================================================================
