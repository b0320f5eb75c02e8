----------------------------- MODULE MCChainlink -----------------------------
\* A small instance of Chainlink: two consumers with LINK for two requests and
\* one, an operator that deployed the oracle and another account that may
\* become a node, the owner, or both.
EXTENDS Chainlink, TLC

CONSTANTS manager, updater, oracle, operator, other

MCAddress     == {manager, updater, oracle, operator, other}
MCConsumers   == {manager, updater}
MCInitialLink == (manager :> 2) @@ (updater :> 1) @@ (oracle :> 0)
                   @@ (operator :> 0) @@ (other :> 0)
=============================================================================
