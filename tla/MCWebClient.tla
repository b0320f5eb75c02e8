----------------------------- MODULE MCWebClient -----------------------------
\* A small instance of WebClient: a user with coins for two pairs at the price
\* of scripts/deploy.py, two clicks on Submit and one on Redeem Tokens.
EXTENDS WebClient, TLC

CONSTANTS alice, admin, manager, pool, zero, oracle, operator, p1, p2, r1

T == INSTANCE TokenOps

MCAddress     == {alice, admin, manager, pool, zero}
MCUsers       == {alice}
MCPurchases   == {p1, p2}
MCRedemptions == {r1}
MCInitialCoin == T!Move(T!Deployed(admin, 20), admin, alice, 20)
MCLinkAddress == {manager, oracle, operator}
MCInitialLink == (manager :> 1) @@ (oracle :> 0) @@ (operator :> 0)
=============================================================================
