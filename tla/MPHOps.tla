------------------------------- MODULE MPHOps -------------------------------
(***************************************************************************)
(* The functions of contracts/test88MPH.sol, the stand-in for the 88mph    *)
(* pool, as operators on the coin it takes (the state of a Token contract) *)
(* and on its own deposit_records, so that Manager.sol can call them in    *)
(* the middle of a transaction.  The depositID, fundingID and              *)
(* maturationTimestamp arguments are never read by the code and are left   *)
(* out.                                                                    *)
(***************************************************************************)
EXTENDS TokenOps

CONSTANT Pool       \* the address of the test88MPH contract

ASSUME PoolAssumption == Pool \in Address

Records == [Address -> Uint]

\* deposit: the pool pulls an allowance that must be the amount, exactly,
\* and the new record replaces the old one
CanDeposit(coin, who, amount) ==
  /\ coin.allowed[who][Pool] = amount
  /\ CanMoveFrom(coin, Pool, who, Pool, amount)

DepositCoin(coin, who, amount) == MoveFrom(coin, Pool, who, Pool, amount)

DepositRecord(records, who, amount) == [records EXCEPT ![who] = amount]

\* withdraw pays the record and a tenth of it, earlyWithdraw the record
Matured(principal) == Wrap(principal + (principal \div 10))

CanWithdraw(coin, records, who) ==
  /\ records[who] > 0
  /\ CanMove(coin, Pool, who, Matured(records[who]))

WithdrawCoin(coin, records, who) ==
  Move(coin, Pool, who, Matured(records[who]))

CanEarlyWithdraw(coin, records, who) ==
  /\ records[who] > 0
  /\ CanMove(coin, Pool, who, records[who])

\* mutation of EarlyWithdrawCoin: it pays the interest too
EarlyWithdrawCoinMatured(coin, records, who) ==
  Move(coin, Pool, who, Matured(records[who]))

EarlyWithdrawCoin(coin, records, who) == Move(coin, Pool, who, records[who])

\* mutation of Cleared: the record stays
ClearedNot(records, who) == records

\* both clear the record, after the payment
Cleared(records, who) == [records EXCEPT ![who] = 0]
=============================================================================
