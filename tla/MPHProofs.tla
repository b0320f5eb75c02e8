------------------------------ MODULE MPHProofs ------------------------------
(***************************************************************************)
(* The 88mph stand-in pays no deposit out twice: for any depositors,       *)
(* amounts and width of the word, a record never exceeds what its          *)
(* depositor has in the pool.                                              *)
(***************************************************************************)
EXTENDS MPH, TokenOpsProofs

\* What the pool pays for a record is a uint.
LEMMA MaturedType ==
  ASSUME NEW principal \in Uint
  PROVE  Matured(principal) \in Uint
<1>1. principal + (principal \div 10) \in Nat
  BY MaxUintAssumption DEF Uint
<1>2. QED
  BY <1>1, WrapType DEF Matured

\* Neither kind of withdrawal, nor a deposit, breaks the coin's storage.
LEMMA PoolMovesType ==
  ASSUME coin \in TokenState, deposit_records \in Records,
         NEW who \in Depositors
  PROVE  /\ \A amount \in Uint : CanDeposit(coin, who, amount) =>
              DepositCoin(coin, who, amount) \in TokenState
         /\ CanWithdraw(coin, deposit_records, who) =>
              WithdrawCoin(coin, deposit_records, who) \in TokenState
         /\ CanEarlyWithdraw(coin, deposit_records, who) =>
              EarlyWithdrawCoin(coin, deposit_records, who) \in TokenState
<1>1. who \in Address /\ Pool \in Address /\ deposit_records[who] \in Uint
  BY DepositorsAssumption, PoolAssumption DEF Records
<1>2. Matured(deposit_records[who]) \in Uint
  BY <1>1, MaturedType
<1>3. ASSUME NEW amount \in Uint, CanDeposit(coin, who, amount)
      PROVE  DepositCoin(coin, who, amount) \in TokenState
  BY <1>1, <1>3, MoveFromType DEF CanDeposit, DepositCoin
<1>4. ASSUME CanWithdraw(coin, deposit_records, who)
      PROVE  WithdrawCoin(coin, deposit_records, who) \in TokenState
  BY <1>1, <1>2, <1>4, MoveType DEF CanWithdraw, WithdrawCoin
<1>5. ASSUME CanEarlyWithdraw(coin, deposit_records, who)
      PROVE  EarlyWithdrawCoin(coin, deposit_records, who) \in TokenState
  BY <1>1, <1>5, MoveType DEF CanEarlyWithdraw, EarlyWithdrawCoin
<1>6. QED
  BY <1>3, <1>4, <1>5
-----------------------------------------------------------------------------
\* The invariant of the pool: a withdrawal keeps lent a natural number only
\* because the record is backed.
Inv == TypeOK /\ RecordsAreBacked

LEMMA MPHInv == Spec => []Inv
<1>1. Init => Inv
  BY CoinAssumption, PoolAssumption, DepositorsAssumption, MaxUintAssumption
     DEF Init, Inv, TypeOK, RecordsAreBacked, Records, TokenState, Uint
<1>2. Inv /\ [Next]_vars => Inv'
  <2> SUFFICES ASSUME Inv, [Next]_vars PROVE Inv'
    OBVIOUS
  <2>0. /\ coin \in TokenState /\ deposit_records \in Records
        /\ lent \in [Depositors -> Nat] /\ surplus \in Int
        /\ Depositors \subseteq Address /\ Pool \in Address
        /\ \A a \in Depositors : deposit_records[a] \in Uint
        /\ \A a \in Depositors : deposit_records[a] <= lent[a]
    BY DepositorsAssumption, PoolAssumption
       DEF Inv, TypeOK, RecordsAreBacked, Records
  <2>1. ASSUME NEW who \in Depositors, NEW amount \in Amounts,
               approve(who, amount)
        PROVE  Inv'
    <3>1. coin' \in TokenState
      BY <2>0, <2>1, ApproveType, AmountsAssumption DEF approve
    <3>2. QED
      BY <2>1, <3>1 DEF approve, Inv, TypeOK, RecordsAreBacked
  <2>2. ASSUME NEW who \in Depositors, NEW amount \in Amounts,
               deposit(who, amount)
        PROVE  Inv'
    <3>1. amount \in Uint /\ amount \in Nat
      BY AmountsAssumption, MaxUintAssumption DEF Uint
    <3>2. coin' \in TokenState
      BY <2>0, <2>2, <3>1, PoolMovesType DEF deposit
    <3>3. /\ deposit_records' \in Records
          /\ \A a \in Depositors :
               deposit_records'[a] =
                 IF a = who THEN amount ELSE deposit_records[a]
      BY <2>0, <2>2, <3>1 DEF deposit, DepositRecord, Records
    <3>4. /\ lent' \in [Depositors -> Nat]
          /\ \A a \in Depositors :
               lent'[a] = IF a = who THEN lent[a] + amount ELSE lent[a]
      BY <2>0, <2>2, <3>1 DEF deposit
    <3>5. RecordsAreBacked'
      BY <2>0, <3>1, <3>3, <3>4 DEF RecordsAreBacked
    <3>6. QED
      BY <2>0, <2>2, <3>2, <3>3, <3>4, <3>5 DEF deposit, Inv, TypeOK
  <2>3. ASSUME NEW who \in Depositors, withdraw(who) \/ earlyWithdraw(who)
        PROVE  Inv'
    <3>1. coin' \in TokenState
      BY <2>0, <2>3, PoolMovesType DEF withdraw, earlyWithdraw
    <3>2. /\ deposit_records' \in Records
          /\ \A a \in Depositors :
               deposit_records'[a] =
                 IF a = who THEN 0 ELSE deposit_records[a]
      BY <2>0, <2>3, MaxUintAssumption
         DEF withdraw, earlyWithdraw, Cleared, Records, Uint
    <3>3. /\ lent' \in [Depositors -> Nat]
          /\ \A a \in Depositors :
               lent'[a] = IF a = who THEN lent[a] - deposit_records[a]
                                     ELSE lent[a]
      BY <2>0, <2>3, MaxUintAssumption DEF withdraw, earlyWithdraw, Uint
    <3>4. surplus' \in Int
      BY <2>0, <2>3, MaturedType, MaxUintAssumption
         DEF withdraw, earlyWithdraw, Uint
    <3>5. RecordsAreBacked'
      BY <2>0, <3>2, <3>3 DEF RecordsAreBacked
    <3>6. QED
      BY <3>1, <3>2, <3>3, <3>4, <3>5 DEF Inv, TypeOK
  <2>4. ASSUME NEW from \in Givers, NEW to \in Address, NEW value \in Gifts,
               send(from, to, value)
        PROVE  Inv'
    <3>1. value \in Uint /\ from \in Address
      BY AmountsAssumption, GiversAssumption
    <3>2. coin' \in TokenState
      BY <2>0, <2>4, <3>1, MoveType DEF send
    <3>3. surplus' \in Int
      BY <2>0, <2>4, <3>1, MaxUintAssumption DEF send, Uint
    <3>4. QED
      BY <2>0, <2>4, <3>2, <3>3 DEF send, Inv, TypeOK, RecordsAreBacked
  <2>5. CASE UNCHANGED vars
    BY <2>5 DEF vars, Inv, TypeOK, RecordsAreBacked
  <2>6. QED
    BY <2>1, <2>2, <2>3, <2>4, <2>5 DEF Next
<1>3. QED
  BY <1>1, <1>2, PTL DEF Spec

\* Coins, records and history stay well typed, whatever order depositors act
\* in.
THEOREM MPHTypeOK == Spec => []TypeOK
<1>1. Inv => TypeOK
  BY DEF Inv
<1>2. QED
  BY <1>1, MPHInv, PTL

\* No depositor is owed more than that depositor still has in the pool, so no
\* deposit is paid out twice (test88MPH.sol:31 and :39).
THEOREM MPHRecordsAreBacked == Spec => []RecordsAreBacked
<1>1. Inv => RecordsAreBacked
  BY DEF Inv
<1>2. QED
  BY <1>1, MPHInv, PTL

\* Every balance and every amount meets a check of SafeMath.add that decides
\* exactly, at every width (SafeMath.sol:5).
THEOREM MPHAddIsExact == Spec => []AddIsExact
<1>1. TypeOK => AddIsExact
  <2> SUFFICES ASSUME TypeOK, NEW a \in Address, NEW n \in Uint
               PROVE  AddOK(coin.balances[a], n) <=> coin.balances[a] + n \in Uint
    BY DEF AddIsExact
  <2>1. coin.balances[a] \in Uint
    BY DEF TypeOK, TokenState
  <2>2. QED
    BY <2>1, AddExact
<1>2. QED
  BY <1>1, MPHTypeOK, PTL

\* The same of SafeMath.mul (SafeMath.sol:17).
THEOREM MPHMulIsExact == Spec => []MulIsExact
<1>1. TypeOK => MulIsExact
  <2> SUFFICES ASSUME TypeOK, NEW a \in Address, NEW n \in Uint
               PROVE  MulOK(coin.balances[a], n) <=> coin.balances[a] * n \in Uint
    BY DEF MulIsExact
  <2>1. coin.balances[a] \in Uint
    BY DEF TypeOK, TokenState
  <2>2. QED
    BY <2>1, MulExact
<1>2. QED
  BY <1>1, MPHTypeOK, PTL
-----------------------------------------------------------------------------
\* What the pool holds is what its depositors have in it and the surplus, and
\* the coin's supply is not exceeded.
PoolIsAccountedFor ==
  /\ coin.balances[Pool] = SumFunction(lent) + surplus
  /\ SumFunction(coin.balances) <= MaxUint

\* The depositors' part of an address book is finite.
LEMMA DepositorsFinite == IsFiniteSet(Depositors)
BY FiniteAssumption, DepositorsAssumption, FS_Subset

\* What one depositor's movements do to what all have in the pool.
LEMMA LentTotal ==
  ASSUME lent \in [Depositors -> Nat], NEW who \in Depositors, NEW v \in Nat,
         lent' = [lent EXCEPT ![who] = v]
  PROVE  SumFunction(lent') = SumFunction(lent) - lent[who] + v
<1>1. SumFunction([lent EXCEPT ![who] = v]) = SumFunction(lent) - lent[who] + v
  BY DepositorsFinite, SumUpdate
<1>2. QED
  BY <1>1

LEMMA MPHPoolIsAccountedFor == Spec => []PoolIsAccountedFor
<1>1. Init => PoolIsAccountedFor
  <2> SUFFICES ASSUME Init PROVE PoolIsAccountedFor
    OBVIOUS
  <2>1. lent \in [Depositors -> Nat] /\ \A a \in Depositors : lent[a] = 0
    BY DEF Init
  <2>2. SumFunction(lent) = 0
    BY <2>1, DepositorsFinite, SumType
  <2>3. /\ coin \in TokenState
        /\ SumFunction(coin.balances) <= coin.totalSupply
    BY CoinAssumption DEF Init
  <2>4. SumFunction(coin.balances) <= MaxUint
    BY <2>3, TotalCovers, MaxUintAssumption DEF TokenState, Uint
  <2>5. coin.balances[Pool] \in Nat
    BY <2>3, PoolAssumption, MaxUintAssumption DEF TokenState, Uint
  <2>6. QED
    BY <2>2, <2>4, <2>5 DEF Init, PoolIsAccountedFor
<1>2. Inv /\ PoolIsAccountedFor /\ [Next]_vars => PoolIsAccountedFor'
  <2> SUFFICES ASSUME Inv, PoolIsAccountedFor, [Next]_vars
               PROVE  PoolIsAccountedFor'
    OBVIOUS
  <2>0. /\ coin \in TokenState /\ deposit_records \in Records
        /\ lent \in [Depositors -> Nat] /\ surplus \in Int
        /\ SumFunction(lent) \in Nat
        /\ coin.balances[Pool] \in Nat
        /\ \A a \in Depositors : a \in Address /\ a # Pool
        /\ \A a \in Depositors :
             /\ deposit_records[a] \in Uint
             /\ deposit_records[a] <= lent[a]
    BY DepositorsAssumption, PoolAssumption, DepositorsFinite, SumType,
       MaxUintAssumption
       DEF Inv, TypeOK, RecordsAreBacked, Records, TokenState, Uint
  <2>1. ASSUME NEW who \in Depositors, NEW amount \in Amounts,
               approve(who, amount)
        PROVE  PoolIsAccountedFor'
    <3>1. coin'.balances = coin.balances
      BY <2>0, <2>1 DEF approve, Approve, TokenState
    <3>2. QED
      BY <2>1, <3>1 DEF approve, PoolIsAccountedFor
  <2>2. ASSUME NEW who \in Depositors, NEW amount \in Amounts,
               deposit(who, amount)
        PROVE  PoolIsAccountedFor'
    <3>1. amount \in Uint /\ amount \in Nat
      BY AmountsAssumption, MaxUintAssumption DEF Uint
    <3>2. CanMoveFrom(coin, Pool, who, Pool, amount)
          /\ coin' = MoveFrom(coin, Pool, who, Pool, amount)
      BY <2>2 DEF deposit, CanDeposit, DepositCoin
    <3>3. coin'.balances[Pool] = coin.balances[Pool] + amount
      BY <2>0, <3>1, <3>2, MoveFromEffect, MoveEffect, PoolAssumption
         DEF CanMoveFrom
    <3>4. SumFunction(coin'.balances) = SumFunction(coin.balances)
      BY <2>0, <3>1, <3>2, MoveFromTotal, PoolAssumption
    <3>5. SumFunction(lent') = SumFunction(lent) + amount
      <4>1. PICK v \in Nat : v = lent[who] + amount
        BY <2>0, <3>1
      <4>2. lent' = [lent EXCEPT ![who] = v]
        BY <2>0, <2>2, <4>1 DEF deposit
      <4>3. SumFunction(lent') = SumFunction(lent) - lent[who] + v
        BY <2>0, <4>2, LentTotal
      <4>4. QED
        BY <2>0, <3>1, <4>1, <4>3
    <3>6. QED
      BY <2>0, <2>2, <3>1, <3>3, <3>4, <3>5 DEF deposit, PoolIsAccountedFor
  <2>3. ASSUME NEW who \in Depositors, NEW pays \in Uint,
               CanMove(coin, Pool, who, pays),
               coin' = Move(coin, Pool, who, pays),
               lent' = [lent EXCEPT ![who] = @ - deposit_records[who]],
               surplus' = surplus - (pays - deposit_records[who])
        PROVE  PoolIsAccountedFor'
    <3>1. pays \in Nat /\ deposit_records[who] \in Nat
      BY <2>0, MaxUintAssumption DEF Uint
    <3>2. coin'.balances[Pool] = coin.balances[Pool] - pays
      BY <2>0, <2>3, MoveEffect, PoolAssumption
    <3>3. SumFunction(coin'.balances) = SumFunction(coin.balances)
      BY <2>0, <2>3, MoveTotal, PoolAssumption
    <3>4. SumFunction(lent') = SumFunction(lent) - deposit_records[who]
      <4>1. PICK v \in Nat : v = lent[who] - deposit_records[who]
        BY <2>0, <3>1
      <4>2. lent' = [lent EXCEPT ![who] = v]
        BY <2>0, <2>3, <4>1
      <4>3. SumFunction(lent') = SumFunction(lent) - lent[who] + v
        BY <2>0, <4>2, LentTotal
      <4>4. QED
        BY <2>0, <3>1, <4>1, <4>3
    <3>5. QED
      BY <2>0, <2>3, <3>1, <3>2, <3>3, <3>4 DEF PoolIsAccountedFor
  <2>4. ASSUME NEW who \in Depositors, withdraw(who)
        PROVE  PoolIsAccountedFor'
    <3>1. Matured(deposit_records[who]) \in Uint
      BY <2>0, MaturedType
    <3>2. QED
      BY <2>3, <2>4, <3>1 DEF withdraw, CanWithdraw, WithdrawCoin
  <2>5. ASSUME NEW who \in Depositors, earlyWithdraw(who)
        PROVE  PoolIsAccountedFor'
    <3>1. deposit_records[who] \in Uint /\ deposit_records[who] \in Nat
      BY <2>0, MaxUintAssumption DEF Uint
    <3>2. surplus' = surplus - (deposit_records[who] - deposit_records[who])
      BY <2>0, <2>5, <3>1 DEF earlyWithdraw
    <3>3. QED
      BY <2>3, <2>5, <3>1, <3>2
         DEF earlyWithdraw, CanEarlyWithdraw, EarlyWithdrawCoin
  <2>6. ASSUME NEW from \in Givers, NEW to \in Address, NEW value \in Gifts,
               send(from, to, value)
        PROVE  PoolIsAccountedFor'
    <3>1. value \in Uint /\ value \in Nat /\ from \in Address /\ from # Pool
      BY AmountsAssumption, GiversAssumption, MaxUintAssumption DEF Uint
    <3>2. coin'.balances[Pool] = IF to = Pool THEN coin.balances[Pool] + value
                                              ELSE coin.balances[Pool]
      BY <2>0, <2>6, <3>1, MoveEffect, PoolAssumption DEF send
    <3>3. SumFunction(coin'.balances) = SumFunction(coin.balances)
      BY <2>0, <2>6, <3>1, MoveTotal DEF send
    <3>4. QED
      BY <2>0, <2>6, <3>1, <3>2, <3>3 DEF send, PoolIsAccountedFor
  <2>7. CASE UNCHANGED vars
    BY <2>7 DEF vars, PoolIsAccountedFor
  <2>8. QED
    BY <2>1, <2>2, <2>4, <2>5, <2>6, <2>7 DEF Next
<1>3. QED
  BY <1>1, <1>2, MPHInv, PTL DEF Spec

\* As long as the pool was sent at least the interest it paid, every depositor
\* can take the principal back with earlyWithdraw (test88MPH.sol:34): the pool
\* holds all the depositors have in it, and the sum of all balances leaves
\* room for the payment.
THEOREM MPHPrincipalIsAvailable == Spec => []PrincipalIsAvailable
<1>1. Inv /\ PoolIsAccountedFor => PrincipalIsAvailable
  <2> SUFFICES ASSUME Inv, PoolIsAccountedFor, surplus >= 0,
                      NEW a \in Depositors, deposit_records[a] > 0
               PROVE  CanEarlyWithdraw(coin, deposit_records, a)
    BY DEF PrincipalIsAvailable
  <2> DEFINE rec == deposit_records[a]
             b == coin.balances
  <2>1. /\ coin \in TokenState /\ a \in Address /\ a # Pool
        /\ Pool \in Address /\ surplus \in Int
        /\ lent \in [Depositors -> Nat]
        /\ rec \in Uint /\ rec \in Nat /\ rec <= lent[a]
        /\ b \in [Address -> Uint] /\ b[a] \in Nat /\ b[Pool] \in Nat
    BY DepositorsAssumption, PoolAssumption, MaxUintAssumption
       DEF Inv, TypeOK, RecordsAreBacked, Records, TokenState, Uint
  <2>2. lent[a] <= SumFunction(lent) /\ SumFunction(lent) \in Nat
    <3>1. SumFunction([lent EXCEPT ![a] = 0]) = SumFunction(lent) - lent[a]
      BY <2>1, DepositorsFinite, SumDrop
    <3>2. [lent EXCEPT ![a] = 0] \in [Depositors -> Nat]
      BY <2>1
    <3>3. SumFunction([lent EXCEPT ![a] = 0]) \in Nat
      BY <3>2, DepositorsFinite, SumType
    <3>4. SumFunction(lent) \in Nat /\ lent[a] \in Nat
      BY <2>1, DepositorsFinite, SumType
    <3>5. QED
      BY <3>1, <3>3, <3>4
  <2>3. b[Pool] >= rec
    BY <2>1, <2>2 DEF PoolIsAccountedFor
  <2>4. b[a] + b[Pool] <= MaxUint
    BY <2>1, TotalCovers, MaxUintAssumption DEF PoolIsAccountedFor
  <2>5. b[a] + rec \in Uint
    BY <2>1, <2>3, <2>4, MaxUintAssumption DEF Uint
  <2>6. Debited(coin, Pool, rec)[a] = b[a]
    BY <2>1 DEF Debited
  <2>7. AddOK(b[a], rec)
    BY <2>1, <2>5, AddExact
  <2>8. QED
    BY <2>3, <2>6, <2>7 DEF CanEarlyWithdraw, CanMove
<1>2. QED
  BY <1>1, MPHInv, MPHPoolIsAccountedFor, PTL
=============================================================================
