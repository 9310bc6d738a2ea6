-------------------------- MODULE MCOrderSettlement --------------------------
(* Values of the constants of OrderSettlement for TLC. *)
EXTENDS OrderSettlement, TLC

CONSTANT pro

\* Requests are alike, and so are checkouts.
CallsAlike == Permutations(Handlers) \cup Permutations(Buyers)

Buys(type, package, provider) ==
    [type |-> type, package |-> package, provider |-> provider]

\* Every kind of order over every provider; a market with every kind and every
\* provider in it; smaller markets.
EveryKind == {i \in Intent : i.type = "SUBSCRIPTION" <=> i.package # NoPackage}
Recoverable == {Buys("SUBSCRIPTION", pro, "stripe"), Buys("CREDITS", NoPackage, "stripe")}
EveryMarket == Recoverable \cup
    {Buys("SUBSCRIPTION", pro, "paytr"), Buys("WALLET_TOPUP", NoPackage, "paytr"),
     Buys("ADDON", NoPackage, "manual")}
GrowthTopUps == {i \in EveryKind : i.type = "WALLET_TOPUP"}
\* A transfer is taken in either currency, so one kind of top-up is enough for
\* two that do not fit into one wallet.
Wallets == {Buys("WALLET_TOPUP", NoPackage, "manual"), Buys("CREDITS", NoPackage, "stripe")}
OnePlan == {Buys("SUBSCRIPTION", pro, "stripe")}
=============================================================================
