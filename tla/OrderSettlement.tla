--------------------------- MODULE OrderSettlement ---------------------------
(***************************************************************************)
(* Payment orders of one workspace: checkout (BillingService and the three *)
(* providers), the callbacks and operator decisions that settle an order   *)
(* (WebhooksController, PaymentsAdminController), the settlement itself    *)
(* and the sweep that recovers failed grants (BillingSettlementService),   *)
(* and the two prepaid wallets a top-up credits.                           *)
(*                                                                         *)
(* One SQL statement or one database transaction is one step.  Grants of   *)
(* different workspaces touch different rows, so one workspace is enough.  *)
(***************************************************************************)
EXTENDS Integers, FiniteSets

\* A definition named Bug_X is the definition after it with a plausible mistake;
\* no action uses it.  Each property fails under one of them (PROJECT.json).

CONSTANTS
    Buyers,             \* concurrent checkout requests
    Handlers,           \* concurrent webhook deliveries and operator requests
    Sweeper,            \* the replica that holds billing:reconcile-ungranted
    Packages, NoPackage,
    Intents,            \* what customers buy: sets of records, see Intent
    MaxOrders,          \* bound: orders minted
    MaxFaults,          \* bound: crashes and failing statements
    MaxCurrencyChanges  \* bound: operator edits of defaultCurrency

Currencies == {"TRY", "USD"}        \* any other default counts as USD
Types == {"SUBSCRIPTION", "ADDON", "CREDITS", "WALLET_TOPUP"}
Providers == {"paytr", "stripe", "manual"}

\* "SUBSCRIPTION" stands for UPGRADE and RENEWAL too, which no code treats
\* differently; "CREDITS" is an ADDON whose code is in AI_CREDIT_TOPUPS.
Intent == [type : Types, package : Packages \cup {NoPackage}, provider : Providers]

ASSUME SettlementAssumption ==
    /\ MaxOrders \in Nat /\ MaxFaults \in Nat /\ MaxCurrencyChanges \in Nat
    /\ Sweeper \notin Handlers /\ NoPackage \notin Packages
    /\ Intents \subseteq Intent
    /\ \A i \in Intents : i.type = "SUBSCRIPTION" <=> i.package # NoPackage

VARIABLES
    currency,   \* workspace.defaultCurrency
    bought,     \* [Orders -> what the order is for]
    orders,     \* [Orders -> status, providerRef, grantedAt, succeededAt]
    minted,     \* number of orders
    psp,        \* external: [Orders -> what the provider did with the money]
    acked,      \* PayTR orders whose success callback was answered OK
    buyers,     \* [Buyers -> step of its checkout call]
    task,       \* [Actors -> step of its settlement or sweep]
    sweep,      \* the sweep's pass and the candidates still ahead of it
    sub,        \* the workspace's subscription row
    wallet,     \* currency of the growth wallet
    aiWallet,   \* whether the AI credit wallet exists
    ledger,     \* orders with a ledger entry under ref order:{id}
    credited,   \* [Orders -> how often a balance was raised for it]
    addons,     \* [Orders -> workspace_add_ons rows created for it]
    landed,     \* ghost: orders whose subscription upsert or boost took effect
    faults,     \* crashes and failed statements so far
    changes     \* edits of defaultCurrency so far

money == <<wallet, aiWallet, ledger, credited>>
vars == <<currency, bought, orders, minted, psp, acked, buyers, task, sweep, sub,
          money, addons, landed, faults, changes>>

Orders == 1 .. MaxOrders
Actors == Handlers \cup {Sweeper}
Purchase == [type : Types, package : Packages \cup {NoPackage},
             provider : Providers, currency : Currencies]
NoPurchase == [type |-> "ADDON", package |-> NoPackage, provider |-> "manual",
               currency |-> "USD"]

Unsettled == {"PENDING", "AWAITING_TRANSFER"}
Status == {"none", "SUCCEEDED", "FAILED"} \cup Unsettled
\* What kind of id providerRef holds: PayTR's merchant_oid, a Stripe session,
\* a Stripe subscription, the reference of a bank transfer.
Ref == {"none", "oid", "session", "subscription", "transfer"}
Order == [status : Status, ref : Ref, granted : BOOLEAN, at : 0 .. MaxOrders]

Candidate == [order : Orders, ref : Ref]
Steps == {"idle", "repoint", "read", "flip", "fail", "grant", "wallet", "modules",
          "mark", "next"}
Task == [step : Steps, order : {0} \cup Orders, ref : Ref,
         via : {"none", "paytr", "stripe", "operator", "sweep", "stamp"}]
Free == [step |-> "idle", order |-> 0, ref |-> "none", via |-> "none"]
Shopping == [step : {"idle", "create", "issue", "persist"}, order : {0} \cup Orders,
             purchase : Purchase]
Away == [step |-> "idle", order |-> 0, purchase |-> NoPurchase]

Init ==
    /\ currency \in Currencies
    /\ bought = [o \in Orders |-> NoPurchase]
    /\ orders = [o \in Orders |-> [status |-> "none", ref |-> "none",
                                   granted |-> FALSE, at |-> 0]]
    /\ minted = 0
    /\ psp = [o \in Orders |-> "none"]
    /\ acked = {}
    /\ buyers = [b \in Buyers |-> Away]
    /\ task = [a \in Actors |-> Free]
    /\ sweep = [pass |-> 0, todo |-> {}]
    /\ sub \in [package : Packages \cup {NoPackage}, active : {FALSE},
                open : {FALSE}, ref : {"none"}, by : {0}]      \* none, or a trial
    /\ wallet = "none"
    /\ aiWallet = FALSE
    /\ ledger = {}
    /\ credited = [o \in Orders |-> 0]
    /\ addons = [o \in Orders |-> 0]
    /\ landed = {}
    /\ faults = 0
    /\ changes = 0

AtProvider(o) == bought[o].provider # "manual"    \* a provider reports the payment

-----------------------------------------------------------------------------
(***************************************************************************)
(* Checkout: BillingService.checkout and walletTopup, then createCheckout  *)
(***************************************************************************)
Supports(provider) ==
    \/ provider = "manual"
    \/ provider = "paytr" /\ currency = "TRY"
    \/ provider = "stripe" /\ currency = "USD"

\* walletTopup refuses a currency the wallet does not have.
Sellable(i) ==
    /\ Supports(i.provider)
    /\ i.type = "WALLET_TOPUP" => wallet \in {"none", currency}
    /\ i.type \in {"ADDON", "CREDITS"} => sub.package # NoPackage

\* The newest PENDING order of the same intent.
Reusable(purchase) ==
    LET same == {o \in Orders : orders[o].status = "PENDING" /\ bought[o] = purchase}
    IN  {o \in same : \A other \in same : other <= o}

\* The lookup for a recent order of the same intent: one that is older than
\* CHECKOUT_DEDUP_MS is not found, so finding none is always possible.
Checkout(b) ==
    /\ buyers[b].step = "idle"
    /\ \E i \in Intents :
         /\ Sellable(i)
         /\ LET purchase == [type |-> i.type, package |-> i.package,
                             provider |-> i.provider, currency |-> currency]
            IN  buyers' \in
                  {[buyers EXCEPT ![b] = [step |-> "create", order |-> 0,
                                          purchase |-> purchase]]}
                  \cup {[buyers EXCEPT ![b] = [step |-> "issue", order |-> o,
                                               purchase |-> purchase]] :
                          o \in Reusable(purchase)}
    /\ UNCHANGED <<currency, bought, orders, minted, psp, acked, task, sweep, sub,
                   money, addons, landed, faults, changes>>

Create(b) ==
    /\ buyers[b].step = "create"
    /\ minted < MaxOrders
    /\ minted' = minted + 1
    /\ bought' = [bought EXCEPT ![minted + 1] = buyers[b].purchase]
    /\ orders' = [orders EXCEPT ![minted + 1].status = "PENDING"]
    /\ buyers' = [buyers EXCEPT ![b].step = "issue", ![b].order = minted + 1]
    /\ UNCHANGED <<currency, psp, acked, task, sweep, sub, money, addons, landed,
                   faults, changes>>

\* createCheckout.  PayTR: persist the merchant_oid, then ask for a token.
\* Bank transfer: issue the instructions.  Both write only a PENDING order.
\* Stripe: open a session; its id is persisted by a later statement.
Issue(b) ==
    /\ buyers[b].step = "issue"
    /\ LET o == buyers[b].order
           pending == orders[o].status = "PENDING"
       IN  \/ /\ bought[o].provider = "paytr"
              /\ IF pending THEN orders' = [orders EXCEPT ![o].ref = "oid"] ELSE UNCHANGED orders
              /\ psp' = [psp EXCEPT ![o] = IF @ = "none" THEN "open" ELSE @]
              /\ buyers' = [buyers EXCEPT ![b] = Away]
           \/ /\ bought[o].provider = "manual"
              /\ IF pending
                 THEN /\ orders' = [orders EXCEPT ![o].status = "AWAITING_TRANSFER",
                                                  ![o].ref = "transfer"]
                      /\ psp' = [psp EXCEPT ![o] = "open"]
                 ELSE UNCHANGED <<orders, psp>>
              /\ buyers' = [buyers EXCEPT ![b] = Away]
           \/ /\ bought[o].provider = "stripe"
              /\ psp' = [psp EXCEPT ![o] = IF @ = "none" THEN "open" ELSE @]
              /\ buyers' = [buyers EXCEPT ![b].step = "persist"]
              /\ UNCHANGED orders
    /\ UNCHANGED <<currency, bought, minted, acked, task, sweep, sub, money, addons,
                   landed, faults, changes>>

\* The session id overwrites providerRef whatever became of the order.
PersistSession(b) ==
    /\ buyers[b].step = "persist"
    /\ orders' = [orders EXCEPT ![buyers[b].order].ref = "session"]
    /\ buyers' = [buyers EXCEPT ![b] = Away]
    /\ UNCHANGED <<currency, bought, minted, psp, acked, task, sweep, sub, money,
                   addons, landed, faults, changes>>

\* The provider's API refuses, or the request dies.
Abandon(b) ==
    /\ buyers[b].step # "idle"
    /\ buyers' = [buyers EXCEPT ![b] = Away]
    /\ UNCHANGED <<currency, bought, orders, minted, psp, acked, task, sweep, sub,
                   money, addons, landed, faults, changes>>

-----------------------------------------------------------------------------
(***************************************************************************)
(* External: the payment, and the operator who edits the workspace         *)
(***************************************************************************)

\* The provider decides an order once.  "mispaid": PayTR collected another
\* amount than the order asks for.
Pay(o) ==
    /\ psp[o] = "open"
    /\ \E outcome \in {"paid"}
            \cup (IF bought[o].provider = "paytr" THEN {"mispaid", "failed"} ELSE {}) :
         psp' = [psp EXCEPT ![o] = outcome]
    /\ UNCHANGED <<currency, bought, orders, minted, acked, buyers, task, sweep, sub,
                   money, addons, landed, faults, changes>>

ChangeCurrency ==
    /\ changes < MaxCurrencyChanges
    /\ changes' = changes + 1
    /\ currency' \in Currencies \ {currency}
    /\ UNCHANGED <<bought, orders, minted, psp, acked, buyers, task, sweep, sub, money,
                   addons, landed, faults>>

\* The subscription's current period runs out.
PeriodEnds ==
    /\ sub.open
    /\ sub' = [sub EXCEPT !.open = FALSE]
    /\ UNCHANGED <<currency, bought, orders, minted, psp, acked, buyers, task, sweep,
                   money, addons, landed, faults, changes>>

-----------------------------------------------------------------------------
(***************************************************************************)
(* Callbacks and operator decisions.  Providers repeat and duplicate their *)
(* callbacks; any number of them may run at once.                          *)
(***************************************************************************)
Start(h, step, o, via) ==
    /\ task' = [task EXCEPT ![h] = [step |-> step, order |-> o, ref |-> "none",
                                    via |-> via]]
    /\ UNCHANGED <<currency, bought, orders, minted, psp, acked, buyers, sweep, sub,
                   money, addons, landed, faults, changes>>


\* amountToKurus(order.amount) against total_amount.
AmountMatches(o) == psp[o] = "paid"

\* A mismatch only leaves a review marker on the order and is acknowledged.
PaytrCallback(h) ==
    /\ task[h].step = "idle"
    /\ \E o \in Orders :
         /\ orders[o].ref = "oid"
         /\ \/ AmountMatches(o) /\ Start(h, "read", o, "paytr")
            \/ psp[o] = "failed" /\ Start(h, "fail", o, "paytr")

\* Subscription sessions carry the id of the Stripe subscription they minted.
StripeCompleted(h) ==
    /\ task[h].step = "idle"
    /\ \E o \in Orders :
         /\ bought[o].provider = "stripe" /\ psp[o] = "paid"
         /\ Start(h, IF bought[o].type = "SUBSCRIPTION" THEN "repoint" ELSE "read",
                  o, "stripe")

Bug_ManuallySettleable(o) == orders[o].status \in Unsettled

\* assertManuallySettleable, the gate of both operator decisions.
ManuallySettleable(o) == orders[o].status = "AWAITING_TRANSFER"

\* The operator approves a transfer that arrived and rejects one that did not;
\* what operators know of provider payments is nothing.
Approve(h) ==
    /\ task[h].step = "idle"
    /\ \E o \in Orders :
         /\ ManuallySettleable(o)
         /\ AtProvider(o) \/ psp[o] = "paid"
         /\ Start(h, "read", o, "operator")

Reject(h) ==
    /\ task[h].step = "idle"
    /\ \E o \in Orders :
         /\ ManuallySettleable(o)
         /\ AtProvider(o) \/ psp[o] # "paid"
         /\ Start(h, "fail", o, "operator")

-----------------------------------------------------------------------------
(***************************************************************************)
(* Settlement, by a handler; its last steps are also those of the sweep    *)
(***************************************************************************)

\* The actor is done with the order: a handler answers (PayTR is told OK
\* however the settlement ended), the sweep goes on to the next candidate.
Answer(a) ==
    /\ task' = [task EXCEPT ![a] =
                   IF a = Sweeper THEN [Free EXCEPT !.step = "next"] ELSE Free]
    /\ acked' = IF task[a].via = "paytr" THEN acked \cup {task[a].order} ELSE acked

Goto(a, step) == task' = [task EXCEPT ![a].step = step] /\ UNCHANGED acked

\* onCheckoutSessionCompleted repoints the order to the subscription's id.
Repoint(h) ==
    /\ task[h].step = "repoint"
    /\ orders' = [orders EXCEPT ![task[h].order].ref = "subscription"]
    /\ Goto(h, "read")
    /\ UNCHANGED <<currency, bought, minted, psp, buyers, sweep, sub, money, addons,
                   landed, faults, changes>>

\* settleSuccess reads the order; the grant later uses this snapshot.
Read(h) ==
    /\ task[h].step = "read"
    /\ LET o == task[h].order
       IN  IF orders[o].status \in Unsettled
           THEN /\ task' = [task EXCEPT ![h].step = "flip", ![h].ref = orders[o].ref]
                /\ UNCHANGED acked
           ELSE Answer(h)
    /\ UNCHANGED <<currency, bought, orders, minted, psp, buyers, sweep, sub, money,
                   addons, landed, faults, changes>>

Succeeded == {o \in Orders : orders[o].status = "SUCCEEDED"}

Bug_Flippable(o) == orders[o].status # "none"

\* The guard of both flips: only the call that moves the order proceeds.
Flippable(o) == orders[o].status \in Unsettled

MarkSucceeded(o) ==
    orders' = [orders EXCEPT ![o].status = "SUCCEEDED",
                             ![o].at = Cardinality(Succeeded \ {o}) + 1]

Flip(h) ==
    /\ task[h].step = "flip"
    /\ LET o == task[h].order
       IN  IF Flippable(o)
           THEN MarkSucceeded(o) /\ Goto(h, "grant")
           ELSE Answer(h) /\ UNCHANGED orders
    /\ UNCHANGED <<currency, bought, minted, psp, buyers, sweep, sub, money, addons,
                   landed, faults, changes>>

\* settleFailure.
Fail(h) ==
    /\ task[h].step = "fail"
    /\ LET o == task[h].order
       IN  IF Flippable(o)
           THEN orders' = [orders EXCEPT ![o].status = "FAILED"]
           ELSE UNCHANGED orders
    /\ Answer(h)
    /\ UNCHANGED <<currency, bought, minted, psp, buyers, sweep, sub, money, addons,
                   landed, faults, changes>>

-----------------------------------------------------------------------------
(***************************************************************************)
(* grantEntitlement and markGranted                                        *)
(***************************************************************************)

Bug_Applied(o) == orders[o].granted

\* The ledger's unique ref arbitrates every replay of a credit.
Applied(o) == o \in ledger

Credit(o) ==
    /\ credited' = [credited EXCEPT ![o] = @ + 1]
    /\ ledger' = ledger \cup {o}

\* The upsert of activateSubscription: the one subscription row takes the
\* order's package and, from the snapshot, its providerRef.
Activate(a) ==
    LET o == task[a].order
    IN  /\ bought[o].type = "SUBSCRIPTION"
        /\ sub' = [package |-> bought[o].package, active |-> TRUE, open |-> TRUE,
                   ref |-> task[a].ref, by |-> o]
        /\ landed' = landed \cup {o}
        /\ Goto(a, "modules")
        /\ UNCHANGED <<money, addons>>

\* grantAddOn of a boost: an unconditional create.
GrantBoost(a) ==
    LET o == task[a].order
    IN  /\ bought[o].type = "ADDON"
        /\ addons' = [addons EXCEPT ![o] = @ + 1]
        /\ landed' = landed \cup {o}
        /\ Goto(a, "mark")
        /\ UNCHANGED <<sub, money>>

Bug_SameCurrency(o) == wallet # "none"

\* assertCurrencyMatches.
SameCurrency(o) == wallet = bought[o].currency

\* A replay of a ref moves nothing; the first credit makes the wallet; a
\* growth wallet in another currency refuses the credit.
CreditGrowthWallet(a) ==
    LET o == task[a].order
    IN  /\ bought[o].type = "WALLET_TOPUP"
        /\ \/ Applied(o) /\ Goto(a, "mark") /\ UNCHANGED money
           \/ ~Applied(o) /\ wallet = "none" /\ Goto(a, "wallet") /\ UNCHANGED money
           \/ ~Applied(o) /\ SameCurrency(o) /\ Goto(a, "mark")
              /\ Credit(o) /\ UNCHANGED <<wallet, aiWallet>>
           \/ ~Applied(o) /\ wallet # "none" /\ ~SameCurrency(o)
              /\ Answer(a) /\ UNCHANGED money
        /\ UNCHANGED <<sub, addons, landed>>

CreditAiWallet(a) ==
    LET o == task[a].order
    IN  /\ bought[o].type = "CREDITS"
        /\ \/ Applied(o) /\ Goto(a, "mark") /\ UNCHANGED money
           \/ ~Applied(o) /\ ~aiWallet /\ Goto(a, "wallet") /\ UNCHANGED money
           \/ ~Applied(o) /\ aiWallet /\ Goto(a, "mark")
              /\ Credit(o) /\ UNCHANGED <<wallet, aiWallet>>
        /\ UNCHANGED <<sub, addons, landed>>

Grant(a) ==
    /\ task[a].step = "grant"
    /\ Activate(a) \/ GrantBoost(a) \/ CreditGrowthWallet(a) \/ CreditAiWallet(a)
    /\ UNCHANGED <<currency, bought, orders, minted, psp, buyers, sweep, faults, changes>>

Bug_AnyConflictIsReplay(type) == TRUE

\* Whether a unique violation that is not the ledger's is answered like a
\* replay: GrowthWalletService takes every P2002 for one, AiCreditWalletService
\* looks at the violated index.
AnyConflictIsReplay(type) == type = "WALLET_TOPUP"

HasWallet(type) == IF type = "WALLET_TOPUP" THEN wallet # "none" ELSE aiWallet

\* The upsert found no wallet row and inserts one.  If another transaction has
\* inserted it since, the insert violates the index on workspaceId, or, where
\* the client compiles the upsert to ON CONFLICT, finds the row after all.
CreateWallet(a) ==
    /\ task[a].step = "wallet"
    /\ LET o == task[a].order
           type == bought[o].type
       IN  \/ /\ ~HasWallet(type)
              /\ wallet' = IF type = "WALLET_TOPUP" THEN bought[o].currency ELSE wallet
              /\ aiWallet' = (aiWallet \/ type = "CREDITS")
              /\ Credit(o)
              /\ Goto(a, "mark")
           \/ /\ HasWallet(type)
              /\ Goto(a, "grant")
              /\ UNCHANGED money
           \/ /\ HasWallet(type)
              /\ IF AnyConflictIsReplay(type) THEN Goto(a, "mark") ELSE Answer(a)
              /\ UNCHANGED money
    /\ UNCHANGED <<currency, bought, orders, minted, psp, buyers, sweep, sub, addons,
                   landed, faults, changes>>

\* activateEntitledModules, after the upsert.  The list of modules it widens is
\* left out; what counts here is that it may fail when the upsert is done.
Modules(a) ==
    /\ task[a].step = "modules"
    /\ Goto(a, "mark")
    /\ UNCHANGED <<currency, bought, orders, minted, psp, buyers, sweep, sub, money,
                   addons, landed, faults, changes>>

Mark(a) ==
    /\ task[a].step = "mark"
    /\ orders' = [orders EXCEPT ![task[a].order].granted = TRUE]
    /\ Answer(a)
    /\ UNCHANGED <<currency, bought, minted, psp, buyers, sweep, sub, money, addons,
                   landed, faults, changes>>

-----------------------------------------------------------------------------
(***************************************************************************)
(* reconcileUngrantedOrders: three passes, each a list and a loop          *)
(***************************************************************************)

Bug_NoCreditPass(pass) ==
    CASE pass = 1 -> {"SUBSCRIPTION"} [] pass = 2 -> {"WALLET_TOPUP"} [] OTHER -> {}

SweptTypes(pass) ==
    CASE pass = 1 -> {"SUBSCRIPTION"} [] pass = 2 -> {"WALLET_TOPUP"}
      [] OTHER -> {"CREDITS"}

\* findMany: whole rows, read when the pass begins.
Candidates(pass) ==
    {[order |-> o, ref |-> orders[o].ref] :
        o \in {o \in Succeeded : ~orders[o].granted /\ bought[o].type \in SweptTypes(pass)}}

Bug_LastPass == sweep.pass > 3

LastPass == sweep.pass = 3

ListPass(pass) ==
    /\ sweep' = [pass |-> pass, todo |-> Candidates(pass)]
    /\ task' = [task EXCEPT ![Sweeper] = [Free EXCEPT !.step = "next"]]
    /\ UNCHANGED acked

SweepStart == task[Sweeper].step = "idle" /\ ListPass(1)
SweepPass ==
    /\ task[Sweeper].step = "next" /\ sweep.todo = {} /\ ~LastPass
    /\ ListPass(sweep.pass + 1)
SweepEnd ==
    /\ task[Sweeper].step = "next" /\ sweep.todo = {} /\ LastPass
    /\ sweep' = [pass |-> 0, todo |-> {}]
    /\ task' = [task EXCEPT ![Sweeper] = Free]
    /\ UNCHANGED acked

Bug_AlreadyGranted(o) == sub.package # NoPackage

\* What the sweep takes for an order whose grant landed after all.
AlreadyGranted(o) ==
    IF bought[o].type = "SUBSCRIPTION"
    THEN sub.package = bought[o].package /\ sub.active /\ sub.open
    ELSE o \in ledger

\* The oldest candidate: stamp it, or grant it once more.
SweepProbe ==
    /\ task[Sweeper].step = "next"
    /\ \E c \in sweep.todo :
         /\ \A d \in sweep.todo : orders[c.order].at <= orders[d.order].at
         /\ sweep' = [sweep EXCEPT !.todo = @ \ {c}]
         /\ task' = [task EXCEPT ![Sweeper] =
                IF AlreadyGranted(c.order)
                THEN [step |-> "mark", order |-> c.order, ref |-> c.ref, via |-> "stamp"]
                ELSE [step |-> "grant", order |-> c.order, ref |-> c.ref, via |-> "sweep"]]
    /\ UNCHANGED acked

Sweep ==
    /\ SweepStart \/ SweepPass \/ SweepEnd \/ SweepProbe
    /\ UNCHANGED <<currency, bought, orders, minted, psp, buyers, sub, money, addons,
                   landed, faults, changes>>

-----------------------------------------------------------------------------
(***************************************************************************)
(* Failures.  A statement that took effect although it reported an error   *)
(* is the statement followed by a failure of the next one.                 *)
(***************************************************************************)
Fault == faults < MaxFaults /\ faults' = faults + 1

\* The error of a grant is caught by settleSuccess and by the sweep's loop,
\* that of a settlement by the PayTR callback; the others reach the provider
\* or the operator as an error, and end the sweep when it only stamps.
Throw(a) ==
    /\ task[a].step \notin {"idle", "next"}
    /\ task[a].via # "stamp"
    /\ Fault
    /\ Answer(a)
    /\ UNCHANGED <<currency, bought, orders, minted, psp, buyers, sweep, sub, money,
                   addons, landed, changes>>

\* The process dies, or the error ends the sweep.
Crash(a) ==
    /\ task[a].step # "idle"
    /\ Fault
    /\ task' = [task EXCEPT ![a] = Free]
    /\ sweep' = IF a = Sweeper THEN [pass |-> 0, todo |-> {}] ELSE sweep
    /\ UNCHANGED <<currency, bought, orders, minted, psp, acked, buyers, sub, money,
                   addons, landed, changes>>

-----------------------------------------------------------------------------
Buy(b) == Checkout(b) \/ Create(b) \/ Issue(b) \/ PersistSession(b) \/ Abandon(b)
Call(h) == PaytrCallback(h) \/ StripeCompleted(h) \/ Approve(h) \/ Reject(h)
Settle(h) == Repoint(h) \/ Read(h) \/ Flip(h) \/ Fail(h)
Provision(a) == Grant(a) \/ CreateWallet(a) \/ Modules(a) \/ Mark(a)

Next ==
    \/ \E b \in Buyers : Buy(b)
    \/ \E o \in Orders : Pay(o)
    \/ ChangeCurrency
    \/ PeriodEnds
    \/ \E h \in Handlers : Call(h) \/ Settle(h)
    \/ \E a \in Actors : Provision(a) \/ Throw(a) \/ Crash(a)
    \/ Sweep

Spec == Init /\ [][Next]_vars

\* The sweep runs every five minutes for ever, and what it calls goes on.
SweepFairness == WF_vars(Sweep) /\ WF_vars(Provision(Sweeper))
SweptSpec == Spec /\ SweepFairness

\* Requests that began go on too, and Stripe repeats an event until it is
\* acknowledged.
StripeDelivers(o) == \E h \in Handlers : StripeCompleted(h) /\ task'[h].order = o
Fairness ==
    /\ SweepFairness
    /\ \A h \in Handlers : WF_vars(Settle(h)) /\ WF_vars(Provision(h))
    /\ \A o \in Orders : SF_vars(StripeDelivers(o))

FairSpec == Spec /\ Fairness
-----------------------------------------------------------------------------
(***************************************************************************)
(* Properties                                                              *)
(***************************************************************************)

\* Every variable keeps its shape.
TypeOK ==
    /\ currency \in Currencies
    /\ bought \in [Orders -> Purchase]
    /\ orders \in [Orders -> Order]
    /\ minted \in 0 .. MaxOrders
    /\ psp \in [Orders -> {"none", "open", "paid", "mispaid", "failed"}]
    /\ acked \subseteq Orders
    /\ buyers \in [Buyers -> Shopping]
    /\ task \in [Actors -> Task]
    /\ sweep \in [pass : 0 .. 3, todo : SUBSET Candidate]
    /\ sub \in [package : Packages \cup {NoPackage}, active : BOOLEAN,
                open : BOOLEAN, ref : Ref, by : {0} \cup Orders]
    /\ wallet \in {"none"} \cup Currencies
    /\ aiWallet \in BOOLEAN
    /\ ledger \subseteq Orders
    /\ credited \in [Orders -> Nat]
    /\ addons \in [Orders -> Nat]
    /\ landed \subseteq Orders
    /\ faults \in 0 .. MaxFaults
    /\ changes \in 0 .. MaxCurrencyChanges

\* Nothing is provisioned for money that did not come in: an order succeeds
\* only if its provider collected the full amount, or the transfer arrived.  And an
\* order the customer can still pay at a provider, or has paid there, is never
\* failed: not by an operator, not by a callback of another order.
StatusFollowsMoney ==
    \A o \in Orders :
        /\ orders[o].status = "SUCCEEDED" => psp[o] = "paid"
        /\ orders[o].status = "FAILED" /\ AtProvider(o) => psp[o] = "failed"

\* However often callbacks, operators and the sweep grant a top-up, and
\* wherever they crash, a balance is raised for it at most once, and only
\* together with its ledger entry; a boost is created at most once, although its
\* create is not idempotent.
GrantedOnce ==
    \A o \in Orders : credited[o] = (IF o \in ledger THEN 1 ELSE 0) /\ addons[o] <= 1

\* A prepaid credit order that carries the grant marker was credited: what the
\* marker hides from the sweep for good needs no recovery.
StampedCreditsLanded ==
    \A o \in Orders : bought[o].type = "CREDITS" /\ orders[o].granted => o \in ledger

\* There is no conversion: whatever the workspace's currency was when its
\* top-ups were minted, one growth wallet holds one currency.
OneCurrency ==
    \A o \in ledger : bought[o].type = "WALLET_TOPUP" => wallet = bought[o].currency

\* A settled order keeps its outcome: neither a late failure, nor a success
\* after a failure, nor a second success moves it.
SettlementIsFinal ==
    [][\A o \in Orders : orders[o].status \in {"SUCCEEDED", "FAILED"} =>
          orders'[o].status = orders[o].status /\ orders'[o].at = orders[o].at]_vars

\* A top-up that can never be credited: minted before there was a wallet, in
\* another currency than the top-up that then made the wallet.
Mismatched(o) ==
    bought[o].type = "WALLET_TOPUP" /\ wallet \notin {"none", bought[o].currency}

\* Every order that succeeded gets its grant marker, except boosts, which the
\* sweep does not look at, and top-ups that the wallet refuses for their
\* currency, which the sweep tries again for ever.
SucceededIsStamped ==
    \A o \in Orders :
        o \in Succeeded /\ bought[o].type # "ADDON"
            ~> orders[o].granted \/ Mismatched(o)

PaidByStripe(o) == psp[o] = "paid" /\ bought[o].provider = "stripe"

\* What is paid through Stripe arrives: credits are in the wallet, and a
\* subscription, however it was paid, carries its marker once it succeeded.
PaidOrdersArrive ==
    \A o \in Orders :
        /\ bought[o].type = "CREDITS" /\ PaidByStripe(o) ~> o \in ledger
        /\ bought[o].type = "SUBSCRIPTION" /\ (PaidByStripe(o) \/ o \in Succeeded)
               ~> orders[o].granted

(***************************************************************************)
(* What the comments of the code claim                                     *)
(***************************************************************************)

\* "Stamped when the entitlement/wallet grant SUCCEEDS", for wallet top-ups.
StampedTopUpLanded ==
    \A o \in Orders : bought[o].type = "WALLET_TOPUP" /\ orders[o].granted => o \in ledger

GrantInHand(o) == \E a \in Actors : task[a].order = o /\ task[a].step = "grant"

\* "Only treat as already-granted when the live subscription actually reflects
\* THIS paid order."  An order that the sweep stamps while the callback that
\* flipped it has still to grant it is not counted: that grant lands yet.
StampedSubscriptionLanded ==
    \A o \in Orders :
        bought[o].type = "SUBSCRIPTION" /\ orders[o].granted
            => o \in landed \/ GrantInHand(o)
=============================================================================
