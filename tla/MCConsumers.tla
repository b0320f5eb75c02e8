----------------------------- MODULE MCConsumers -----------------------------
\* A small instance of Consumers: an updateState with LINK for two requests, an
\* ATestnetConsumer with LINK for one, the oracle's operator, and the account
\* that deployed the two.
EXTENDS Consumers, TLC

CONSTANTS updater, consumer, oracle, operator, admin

MCAddress     == {updater, consumer, oracle, operator, admin}
MCInitialLink == (updater :> 2) @@ (consumer :> 1) @@ (oracle :> 0)
                   @@ (operator :> 0) @@ (admin :> 0)
=============================================================================
