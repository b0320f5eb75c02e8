------------------------------- MODULE MCSystem -------------------------------
\* A small instance of System: one user, one pair of tokens, a loan of 30 that
\* earns 3, so that the multiplier is 2 with the pair sold, and LINK for one
\* request.
EXTENDS System, TLC

CONSTANTS alice, admin, manager, pool, zero, oracle, operator

T == INSTANCE TokenOps

MCAddress     == {alice, admin, manager, pool, zero}
MCUsers       == {alice}
MCInitialCoin == T!Move(T!Move(T!Deployed(admin, 103), admin, alice, 100),
                        admin, pool, 3)
MCLinkAddress == {manager, oracle, operator}
MCInitialLink == (manager :> 1) @@ (oracle :> 0) @@ (operator :> 0)
=============================================================================
