-------------------------------- MODULE MCMPH --------------------------------
\* A small instance of MPH: two depositors who can each make two deposits of
\* 10 coins, which earn 1 coin each, and a pool that was sent 1 coin, so that
\* it can pay interest once and then pays it from the other's principal.  The
\* word of 6 bits is small enough to compare SafeMath with exact arithmetic.
EXTENDS MPH

CONSTANTS alice, bob, pool

MCAddress     == {alice, bob, pool}
MCDepositors  == {alice, bob}
MCGivers      == {alice}
MCInitialCoin == Move(Move(Deployed(alice, 41), alice, bob, 20), alice, pool, 1)
=============================================================================
