-------------------------------- MODULE Fund --------------------------------
(***************************************************************************)
(* What the Manager contract does with the coins, without users, the pool, *)
(* outcomes, requests or the width of the word: tokens are sold in pairs   *)
(* at a price, and redeemed, each once, at a multiplier that a settlement  *)
(* sets.  Manager is shown to implement this.                              *)
(***************************************************************************)
EXTENDS Integers

CONSTANT price          \* of a pair

VARIABLES sold,         \* pairs
          redeemed,     \* tokens of either kind
          held,         \* coins
          multiplier    \* of the price: what redeeming a token pays

vars == <<sold, redeemed, held, multiplier>>

Init == /\ sold = 0
        /\ redeemed = 0
        /\ held \in Nat
        /\ multiplier = 0

Sell ==
  /\ sold' \in Nat
  /\ sold' >= sold
  /\ held' = held + price * (sold' - sold)
  /\ UNCHANGED <<redeemed, multiplier>>

\* Nothing is paid from coins that are not there
Redeem ==
  /\ redeemed' \in redeemed .. 2 * sold
  /\ held' \in Nat
  /\ held' = held - price * multiplier' * (redeemed' - redeemed)
  /\ UNCHANGED sold

Pay == Redeem /\ UNCHANGED multiplier

\* The multiplier is the interest as a percentage of the coins, at most, and
\* interest is what there is beyond the price of everything sold.  Who asked
\* for the settlement is paid with it.
Settle ==
  /\ held > 0
  /\ multiplier' \in Nat
  /\ multiplier' * held <= 100 * (held - price * sold)
  /\ Redeem

Next == Sell \/ Pay \/ Settle

Spec == Init /\ [][Next]_vars
-----------------------------------------------------------------------------
\* As long as redemptions pay at most the price, the price of every pair is
\* there but for those of which a token has been redeemed.
Solvent == multiplier <= 1 \/ redeemed = 0 => held >= price * (sold - redeemed)

\* A percentage used as a factor pays a token at most a hundred times its price.
Bounded == multiplier <= 100
=============================================================================
