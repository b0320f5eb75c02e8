------------------------------ MODULE MCManager ------------------------------
(***************************************************************************)
(* Small instances of Manager.  A pair of tokens costs 100, and the pool   *)
(* was sent 6: lending it 30 earns the Manager 3, twice.  With two pairs   *)
(* sold the multiplier is then 0, 1 or 2, with one pair 0, 2 or 5.         *)
(***************************************************************************)
EXTENDS Manager, TLC

CONSTANTS alice, bob, admin, manager, pool, zero, oracle, operator

MCAddress     == {alice, bob, admin, manager, pool, zero}
MCUsers       == {alice, bob}
MCInitialCoin ==
  Move(Move(Move(Deployed(admin, 206), admin, alice, 100), admin, bob, 100),
       admin, pool, 6)
MCLinkAddress == {manager, oracle, operator}
MCInitialLink == (manager :> 2) @@ (oracle :> 0) @@ (operator :> 0)
MCSymmetry    == Permutations(MCUsers)

\* For the run about requests: users with one pair's worth of coins, a pool
\* without any, LINK for one request, and ownership that may be given away to
\* a contract that cannot use it
MCPlainCoin   ==
  Move(Move(Deployed(admin, 200), admin, alice, 100), admin, bob, 100)
MCScarceLink  == (manager :> 1) @@ (oracle :> 0) @@ (operator :> 1)
MCOwners      == {manager}

\* For the run about liveness: one user
MCOneAddress  == {alice, admin, manager, pool, zero}
MCOneUser     == {alice}
MCOneCoin     == Move(Move(Deployed(admin, 106), admin, alice, 100),
                      admin, pool, 6)
=============================================================================
