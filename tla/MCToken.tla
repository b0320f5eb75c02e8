------------------------------- MODULE MCToken -------------------------------
\* A small instance of Token: three addresses, one of which grants
\* allowances, and a word so narrow that sums overflow.
EXTENDS Token

CONSTANTS alice, bob, carol

MCAddress == {alice, bob, carol}
MCApprovers == {alice}
=============================================================================
