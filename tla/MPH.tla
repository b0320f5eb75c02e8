--------------------------------- MODULE MPH ---------------------------------
(***************************************************************************)
(* The test88MPH pool and its depositors.  A step is one transaction: a    *)
(* depositor approves, deposits or withdraws, or somebody sends coins.     *)
(*                                                                         *)
(* The coin is a Token contract whose admin is taken to leave it alone,    *)
(* as nobody can move another's DAI.                                       *)
(*                                                                         *)
(* lent and surplus are history variables, which no action reads.          *)
(***************************************************************************)
EXTENDS MPHOps, Functions

CONSTANTS Depositors,   \* the addresses that use the pool
          InitialCoin,  \* the coin's storage at first
          Amounts,      \* bound: the amounts approved and deposited,
          MaxLent,      \* and how much a depositor may have in the pool
          Givers,       \* bound: the addresses that make plain transfers,
          Gifts         \* and the amounts they send

ASSUME DepositorsAssumption == Depositors \subseteq Address \ {Pool}
ASSUME CoinAssumption ==
  /\ InitialCoin \in TokenState
  /\ SumFunction(InitialCoin.balances) <= InitialCoin.totalSupply
ASSUME AmountsAssumption    == Amounts \subseteq Uint /\ Gifts \subseteq Uint
ASSUME MaxLentAssumption    == MaxLent \in Nat
ASSUME GiversAssumption     == Givers \subseteq Address \ {Pool}

VARIABLES coin,             \* the stableCoin contract's storage
          deposit_records,
          lent,     \* what each depositor paid in and did not get back
          surplus   \* what the pool was sent beyond deposits, less the
                    \* interest it paid

vars == <<coin, deposit_records, lent, surplus>>

Init ==
  /\ coin = InitialCoin
  /\ deposit_records = [a \in Address |-> 0]
  /\ lent    = [a \in Depositors |-> 0]
  /\ surplus = InitialCoin.balances[Pool]

approve(who, amount) ==
  /\ coin' = Approve(coin, who, Pool, amount)
  /\ UNCHANGED <<deposit_records, lent, surplus>>

deposit(who, amount) ==
  /\ CanDeposit(coin, who, amount)
  /\ coin' = DepositCoin(coin, who, amount)
  /\ deposit_records' = DepositRecord(deposit_records, who, amount)
  /\ lent' = [lent EXCEPT ![who] = @ + amount]
  /\ UNCHANGED surplus

withdraw(who) ==
  LET principal == deposit_records[who]
  IN  /\ CanWithdraw(coin, deposit_records, who)
      /\ coin' = WithdrawCoin(coin, deposit_records, who)
      /\ deposit_records' = Cleared(deposit_records, who)
      /\ lent'    = [lent EXCEPT ![who] = @ - principal]
      /\ surplus' = surplus - (Matured(principal) - principal)

earlyWithdraw(who) ==
  /\ CanEarlyWithdraw(coin, deposit_records, who)
  /\ coin' = EarlyWithdrawCoin(coin, deposit_records, who)
  /\ deposit_records' = Cleared(deposit_records, who)
  /\ lent' = [lent EXCEPT ![who] = @ - deposit_records[who]]
  /\ UNCHANGED surplus

\* Token.transfer of the coin, by anyone but the pool, which makes none
send(from, to, value) ==
  /\ CanMove(coin, from, to, value)
  /\ coin' = Move(coin, from, to, value)
  /\ surplus' = IF to = Pool THEN surplus + value ELSE surplus
  /\ UNCHANGED <<deposit_records, lent>>

Next ==
  \/ \E who \in Depositors, amount \in Amounts :
       \/ approve(who, amount)
       \/ lent[who] + amount <= MaxLent /\ deposit(who, amount)
  \/ \E who \in Depositors : withdraw(who) \/ earlyWithdraw(who)
  \/ \E from \in Givers, to \in Address, value \in Gifts :
       send(from, to, value)

Spec == Init /\ [][Next]_vars
-----------------------------------------------------------------------------
TypeOK == /\ coin \in TokenState
          /\ deposit_records \in Records
          /\ lent \in [Depositors -> Nat]
          /\ surplus \in Int

\* The pool never owes a depositor more than that depositor still has in it:
\* a record is paid out once, whatever the order of deposits and withdrawals
\* (test88MPH.sol:31 and :39 clear it, :23 replaces it).
RecordsAreBacked == \A a \in Depositors : deposit_records[a] <= lent[a]

\* A depositor can always take the principal back with earlyWithdraw, however
\* many others deposit and withdraw, as long as the pool was sent at least
\* the interest it paid: interest (test88MPH.sol:28) is the only thing that
\* eats into other depositors' principal.
PrincipalIsAvailable ==
  surplus >= 0 =>
    \A a \in Depositors :
      deposit_records[a] > 0 => CanEarlyWithdraw(coin, deposit_records, a)

\* Whatever a balance is added to, SafeMath.add goes on exactly when the sum
\* fits in a uint, though it sees only a result that has wrapped
\* (SafeMath.sol:5, called by Token._transfer on every deposit and payment).
AddIsExact ==
  \A a \in Address, n \in Uint :
    AddOK(coin.balances[a], n) <=> coin.balances[a] + n \in Uint

\* Whatever a balance is multiplied by, as the Manager does with the price and
\* the multiplier (Manager.sol:120), SafeMath.mul goes on exactly when the
\* product fits (SafeMath.sol:17): none that wraps happens to divide back.
MulIsExact ==
  \A a \in Address, n \in Uint :
    MulOK(coin.balances[a], n) <=> coin.balances[a] * n \in Uint
=============================================================================
