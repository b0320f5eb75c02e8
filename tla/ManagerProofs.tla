---------------------------- MODULE ManagerProofs ----------------------------
(***************************************************************************)
(* What Manager.sol guarantees for any users, prices, loans, answers and   *)
(* width of the word: its requests are a run of the Chainlink protocol, it *)
(* never holds less than the price of the tokens yet to be redeemed while  *)
(* redemptions pay at most the price, so that every winner can redeem, and *)
(* an answer touches nobody but the user who asked for it.                 *)
(***************************************************************************)
EXTENDS Manager, TokenOpsProofs

\* The theorems about the request protocol, for the Manager's requests
CLP == INSTANCE ChainlinkProofs WITH
         Address <- LinkAddress, Consumers <- {Manager},
         InitialOwner <- Operator, owner <- oracle_owner

\* Whom a redemption may pay
Payees == Users \cup {Zero}

\* The addresses are addresses, and those that matter differ.
LEMMA ManagerFacts ==
  /\ Manager \in Address /\ Pool \in Address /\ Admin \in Address
  /\ Users \subseteq Address /\ Payees \subseteq Address
  /\ Manager # Pool /\ Manager # Zero
  /\ Manager \notin Payees /\ Pool \notin Payees
BY ManagerAssumption, PoolAssumption DEF Payees
-----------------------------------------------------------------------------
\* The operator owns the oracle contract for good: the Manager's steps do not
\* include handing it over.
OracleIsOperated == oracle_owner = Operator

\* Every step of the Manager is one of the request protocol, or leaves its
\* state alone.
LEMMA RequestStep ==
  ASSUME OracleIsOperated, [Next]_vars
  PROVE  [CL!Next]_(CL!vars) /\ OracleIsOperated'
<1> USE DEF OracleIsOperated
<1>0. Operator \in CL!Accounts /\ Manager \in LinkAddress
  BY ChainlinkAssumption DEF CL!AddressAssumption
<1>1. CASE UNCHANGED linkVars
  BY <1>1 DEF linkVars, CL!vars, CL!clientVars, CL!oracleVars, CL!rightsVars
<1>2. CASE CL!sendChainlinkRequestTo(Manager)
  BY <1>2 DEF CL!Next, CL!sendChainlinkRequestTo, CL!transferAndCall,
              CL!oracleRequest, CL!rightsVars
<1>3. ASSUME NEW r \in CL!Requests, Fulfil(r)
      PROVE  CL!Next /\ OracleIsOperated'
  <2>1. \/ CL!Answered(oracle_owner, r)
        \/ CL!CallbackReverted(oracle_owner, r)
    BY <1>3 DEF Fulfil, fulfillState, fulfillStateReverted
  <2>2. CL!Fulfil(r)
    BY <1>0, <2>1 DEF CL!Fulfil
  <2>3. oracle_owner' = oracle_owner
    BY <2>1 DEF CL!Answered, CL!CallbackReverted, CL!fulfillOracleRequest,
                CL!rightsVars
  <2>4. QED
    BY <2>2, <2>3 DEF CL!Next
<1>4. ASSUME NEW r \in CL!Requests, CL!cancelChainlinkRequest(r)
      PROVE  CL!Next /\ OracleIsOperated'
  BY <1>4 DEF CL!Next, CL!cancelChainlinkRequest, CL!cancelOracleRequest,
              CL!rightsVars
<1>5. CASE Elsewhere
  <2>1. CL!Next
    <3>1. ASSUME NEW amount \in LinkAmounts,
                 \/ CL!withdraw(Operator, Operator, amount)
                 \/ CL!linkTransfer(Operator, Manager, amount)
          PROVE  CL!Next
      <4>1. Operator \in LinkAddress
        BY <1>0 DEF CL!Accounts
      <4>2. QED
        BY <1>0, <3>1, <4>1 DEF CL!Next
    <3>2. CASE CL!Tick
      BY <3>2 DEF CL!Next
    <3>3. QED
      BY <1>5, <3>1, <3>2 DEF Elsewhere
  <2>2. oracle_owner' = oracle_owner
    BY <1>5 DEF Elsewhere, CL!Tick, CL!withdraw, CL!linkTransfer,
                CL!rightsVars
  <2>3. QED
    BY <2>1, <2>2
<1>6. QED
  BY <1>1, <1>2, <1>3, <1>4, <1>5
     DEF Next, approve, buyTokens, trade, redeem, redeemLater, redeemNow,
         requestState, cancelRequest, trigger_active, trigger_triggered,
         trigger_timeout, trigger, admin88mphDeposit, admin88mphWithdraw,
         transferOwnership, vars

\* The Manager runs the Chainlink request protocol (Manager.sol:139 asks,
\* :156 is called back, :110 cancels).
THEOREM ManagerRequestProtocol == Spec => RequestProtocol
<1>1. Init => CL!Init /\ OracleIsOperated
  BY DEF Init, CL!Init, OracleIsOperated
<1>2. OracleIsOperated /\ [Next]_vars => [CL!Next]_(CL!vars) /\ OracleIsOperated'
  BY RequestStep
<1>3. QED
  BY <1>1, <1>2, PTL DEF Spec, RequestProtocol, CL!Spec

\* The assumptions under which the protocol's theorems hold.
LEMMA ProtocolAssumptions ==
  CLP!AddressAssumption /\ CLP!LinkAssumption /\ CLP!TimeAssumption
<1>1. CLP!IsFiniteSet({Manager})
  BY FS_Singleton DEF IsFiniteSet, CLP!IsFiniteSet
<1>2. QED
  BY <1>1, ChainlinkAssumption
     DEF CL!AddressAssumption, CL!LinkAssumption, CL!TimeAssumption,
         CL!Accounts, CLP!Accounts

\* The two instances of the protocol say the same.
LEMMA ProtocolSpec == Spec => CLP!Spec
<1>1. /\ CL!Init => CLP!Init
      /\ [CL!Next]_(CL!vars) => [CLP!Next]_(CLP!vars)
  BY Zenon
     DEF CL!Init, CLP!Init, CL!Next, CLP!Next, CL!Fulfil,
         CLP!Fulfil, CL!sendChainlinkRequestTo,
         CLP!sendChainlinkRequestTo, CL!transferAndCall,
         CLP!transferAndCall, CL!oracleRequest, CLP!oracleRequest,
         CL!LinkMoves, CLP!LinkMoves, CL!fulfillOracleRequest,
         CLP!fulfillOracleRequest, CL!recordChainlinkFulfillment,
         CLP!recordChainlinkFulfillment, CL!Answered,
         CLP!Answered, CL!CallbackReverted, CLP!CallbackReverted,
         CL!cancelOracleRequest, CLP!cancelOracleRequest,
         CL!cancelChainlinkRequest, CLP!cancelChainlinkRequest,
         CL!withdraw, CLP!withdraw, CL!linkTransfer,
         CLP!linkTransfer, CL!setFulfillmentPermission,
         CLP!setFulfillmentPermission, CL!transferOwnership,
         CLP!transferOwnership, CL!Tick, CLP!Tick, CL!Requests,
         CLP!Requests, CL!Accounts, CLP!Accounts, CL!None,
         CLP!None, CL!OneForConsistentGasCost,
         CLP!OneForConsistentGasCost, CL!vars, CLP!vars,
         CL!clientVars, CLP!clientVars, CL!oracleVars,
         CLP!oracleVars, CL!rightsVars, CLP!rightsVars
<1>2. QED
  BY <1>1, ManagerRequestProtocol, PTL DEF RequestProtocol, CL!Spec, CLP!Spec

\* So the storage it shares with the oracle and the LINK token stays well
\* typed, and
LEMMA RequestsTypeOK == Spec => []CL!TypeOK
<1>1. CLP!TypeOK => CL!TypeOK
  BY DEF CL!TypeOK, CLP!TypeOK, CL!Requests, CLP!Requests,
         CL!Accounts, CLP!Accounts
<1>2. QED
  BY <1>1, ProtocolSpec, ProtocolAssumptions, CLP!ChainlinkTypeOK, PTL

\* the oracle can refund the Manager's every open request and pay its operator
\* (Oracle.sol:198 and :249), and the Manager still awaits what is open.
THEOREM ManagerRequestsAreCovered ==
  Spec => [](CL!OracleCovers /\ CL!CommittedIsPending)
<1>1. CLP!OracleCovers /\ CLP!CommittedIsPending
        => CL!OracleCovers /\ CL!CommittedIsPending
  BY Zenon
     DEF CL!OracleCovers, CLP!OracleCovers, CL!CommittedIsPending,
         CLP!CommittedIsPending, CL!Committed, CLP!Committed, CL!Requests,
         CLP!Requests, CL!None, CLP!None, CL!OneForConsistentGasCost,
         CLP!OneForConsistentGasCost, CL!Cardinality, CLP!Cardinality,
         CL!IsFiniteSet, CLP!IsFiniteSet
<1>2. QED
  BY <1>1, ProtocolSpec, ProtocolAssumptions, CLP!ChainlinkOracleCovers,
     CLP!ChainlinkCommittedIsPending, PTL

\* The Manager can take back every request of its own that stays open: it falls
\* due within EXPIRY_TIME, and the refund then goes through (Oracle.sol:244-249).
THEOREM ManagerRefundIsReady == Spec => []CLP!RefundIsReady
BY ProtocolSpec, ProtocolAssumptions, CLP!ChainlinkRefundIsReady, PTL

\* A request that is open has been made.
OpenIsMade ==
  \A r \in CL!Requests : commitments[r] # CL!None => r[2] < requestCount[r[1]]

LEMMA ManagerOpenIsMade == Spec => []OpenIsMade
<1>1. CLP!EscrowInv => OpenIsMade
  <2> SUFFICES ASSUME CLP!EscrowInv, NEW r \in CL!Requests,
                      commitments[r] # CL!None
               PROVE  r[2] < requestCount[r[1]]
    BY DEF OpenIsMade
  <2>1. r \in CLP!Requests /\ r[1] \in {Manager} /\ r[2] \in Nat
    BY ChainlinkAssumption DEF CL!Requests, CLP!Requests, CL!TimeAssumption
  <2>2. ~ (r[2] >= requestCount[r[1]])
    BY <2>1 DEF CLP!EscrowInv, CLP!NoncesAreFresh, CL!None, CLP!None
  <2>3. requestCount[r[1]] \in Nat
    BY <2>1, ChainlinkAssumption
       DEF CLP!EscrowInv, CLP!TypeOK, CL!TimeAssumption
  <2>4. QED
    BY <2>1, <2>2, <2>3
<1>2. QED
  BY <1>1, ProtocolSpec, ProtocolAssumptions, CLP!ChainlinkEscrowInv, PTL
-----------------------------------------------------------------------------
\* The storage of the contracts other than those of the request protocol
StorageOK ==
  /\ stableCoin \in TokenState
  /\ AtokenContract \in TokenState /\ BtokenContract \in TokenState
  /\ deposit_records \in Records
  /\ state \in Uint /\ tokensSold \in Uint
  /\ interestEarned \in Uint /\ interestMultiplier \in Uint
  /\ redeem_book \in [CL!Requests -> Payees]
  /\ owner \in Address

\* Balances are natural numbers.
LEMMA BalanceType ==
  ASSUME NEW t \in TokenState, NEW a \in Address
  PROVE  t.balances[a] \in Uint /\ t.balances[a] \in Nat
BY MaxUintAssumption DEF TokenState, Uint

\* A uint is a natural number.
LEMMA UintIsNat == \A n \in Uint : n \in Nat
BY MaxUintAssumption DEF Uint

\* Taking all the tokens of an account (Manager.sol:122) moves them to the
\* Manager and leaves the others alone.
LEMMA RetiredEffect ==
  ASSUME NEW t \in TokenState, NEW who \in Payees,
         CanMove(t, who, Manager, t.balances[who])
  PROVE  LET r == Retired(t, who)
         IN  /\ r \in TokenState
             /\ r.balances[Manager] = t.balances[Manager] + t.balances[who]
             /\ r.totalSupply = t.totalSupply
             /\ r.token_admin = t.token_admin
             /\ SumFunction(r.balances) = SumFunction(t.balances)
             /\ \A a \in Users \ {who} : r.balances[a] = t.balances[a]
<1>1. /\ who \in Address /\ Manager \in Address /\ who # Manager
      /\ Users \subseteq Address /\ Manager \notin Users
      /\ t.balances[who] \in Uint
  BY ManagerFacts, BalanceType DEF Payees
<1>2. Retired(t, who) \in TokenState
  BY <1>1, MoveType DEF Retired
<1>3. SumFunction(Retired(t, who).balances) = SumFunction(t.balances)
  BY <1>1, MoveTotal DEF Retired
<1>4. QED
  BY <1>1, <1>2, <1>3, MoveEffect DEF Retired

\* What a redemption does: a payee's winning tokens go to the Manager, their
\* price times the multiplier goes from the Manager to the payee, and nothing
\* else moves.
RedemptionEffect(coin, multiplier, who) ==
  \E t \in Nat :
    /\ stableCoin' \in TokenState
    /\ AtokenContract' \in TokenState /\ BtokenContract' \in TokenState
    /\ stableCoin'.balances[Manager]
         = coin.balances[Manager] - t * tokenPrice * multiplier
    /\ stableCoin'.balances[Pool] = coin.balances[Pool]
    /\ SumFunction(stableCoin'.balances) = SumFunction(coin.balances)
    /\ Redeemed' = Redeemed + t
    /\ \A X \in {<<AtokenContract', AtokenContract>>,
                 <<BtokenContract', BtokenContract>>} :
         /\ X[1].totalSupply = X[2].totalSupply
         /\ X[1].token_admin = X[2].token_admin
         /\ SumFunction(X[1].balances) = SumFunction(X[2].balances)
         /\ \A a \in Users \ {who} : X[1].balances[a] = X[2].balances[a]
    /\ \A a \in Users \ {who} : stableCoin'.balances[a] = coin.balances[a]

LEMMA RedeemEffect ==
  ASSUME StorageOK, NEW coin \in TokenState, NEW st, NEW multiplier \in Uint,
         NEW who \in Payees, redeemExecute(coin, st, multiplier, who)
  PROVE  RedemptionEffect(coin, multiplier, who)
<1> DEFINE t == Winner(st).balances[who]
           p == Payout(st, multiplier, who)
<1>0. /\ who \in Address /\ Manager \in Address /\ who # Manager
      /\ Pool \in Address /\ Pool # who /\ Pool # Manager
      /\ Users \subseteq Address /\ Manager \notin Users
  BY ManagerFacts DEF Payees
<1>1. CanRedeem(coin, st, multiplier, who)
  BY DEF redeemExecute
<1>2. Winner(st) \in TokenState /\ t \in Uint /\ t \in Nat
  BY <1>0, BalanceType DEF StorageOK, Winner
<1>3. p = t * tokenPrice * multiplier /\ p \in Uint
  <2>1. t * tokenPrice \in Uint
    BY <1>1, <1>2, MulExact, ValueAssumption DEF CanRedeem
  <2>2. (t * tokenPrice) * multiplier \in Uint
    BY <1>1, <2>1, MulExact DEF CanRedeem
  <2>3. QED
    BY <2>2 DEF Payout
<1>4. CanMove(coin, Manager, who, p)
      /\ stableCoin' = Move(coin, Manager, who, p)
  BY <1>1 DEF redeemExecute, CanRedeem
<1>5. /\ stableCoin' \in TokenState
      /\ SumFunction(stableCoin'.balances) = SumFunction(coin.balances)
  BY <1>0, <1>3, <1>4, MoveType, MoveTotal
<1>6. /\ stableCoin'.balances[Manager] = coin.balances[Manager] - p
      /\ \A a \in Address \ {Manager, who} :
           stableCoin'.balances[a] = coin.balances[a]
  BY <1>0, <1>3, <1>4, MoveEffect
<1>7. CanMove(Winner(st), who, Manager, t)
  BY <1>1 DEF CanRedeem, CanAdminMove
<1>8. /\ AtokenContract' \in TokenState /\ BtokenContract' \in TokenState
      /\ Redeemed' = Redeemed + t
      /\ \A X \in {<<AtokenContract', AtokenContract>>,
                   <<BtokenContract', BtokenContract>>} :
           /\ X[1].totalSupply = X[2].totalSupply
           /\ X[1].token_admin = X[2].token_admin
           /\ SumFunction(X[1].balances) = SumFunction(X[2].balances)
           /\ \A a \in Users \ {who} : X[1].balances[a] = X[2].balances[a]
  <2>0. /\ AtokenContract \in TokenState /\ BtokenContract \in TokenState
        /\ AtokenContract.balances[Manager] \in Nat
        /\ BtokenContract.balances[Manager] \in Nat
    BY <1>0, BalanceType DEF StorageOK
  <2>1. CASE st = 1
    <3>1. AtokenContract' = Retired(AtokenContract, who)
          /\ BtokenContract' = BtokenContract
      BY <2>1 DEF redeemExecute
    <3>2. t = AtokenContract.balances[who]
          /\ CanMove(AtokenContract, who, Manager, AtokenContract.balances[who])
      BY <1>7, <2>1 DEF Winner
    <3> HIDE DEF t
    <3>3. QED
      BY <1>2, <2>0, <3>1, <3>2, RetiredEffect DEF Redeemed
  <2>2. CASE st # 1
    <3>1. BtokenContract' = Retired(BtokenContract, who)
          /\ AtokenContract' = AtokenContract
      BY <1>1, <2>2 DEF redeemExecute, CanRedeem
    <3>2. t = BtokenContract.balances[who]
          /\ CanMove(BtokenContract, who, Manager, BtokenContract.balances[who])
      BY <1>7, <2>2 DEF Winner
    <3> HIDE DEF t
    <3>3. QED
      BY <1>2, <2>0, <3>1, <3>2, RetiredEffect DEF Redeemed
  <2>3. QED
    BY <2>1, <2>2
<1> HIDE DEF t, p
<1>9. \A a \in Users \ {who} : a \in Address \ {Manager, who}
  BY <1>0
<1>10. stableCoin'.balances[Pool] = coin.balances[Pool]
  BY <1>0, <1>6
<1>11. QED
  BY <1>2, <1>3, <1>5, <1>6, <1>8, <1>9, <1>10 DEF RedemptionEffect

\* What the pool's payment of a record to the Manager does to the coin, with
\* or without interest.
LEMMA PoolPaysEffect ==
  ASSUME StorageOK, NEW value \in Uint, CanMove(stableCoin, Pool, Manager, value)
  PROVE  LET coin == Move(stableCoin, Pool, Manager, value)
         IN  /\ coin \in TokenState
             /\ coin.balances[Manager] + coin.balances[Pool] = Held
             /\ SumFunction(coin.balances) = SumFunction(stableCoin.balances)
             /\ \A a \in Users : coin.balances[a] = stableCoin.balances[a]
<1> DEFINE coin == Move(stableCoin, Pool, Manager, value)
<1>0. /\ stableCoin \in TokenState /\ value \in Nat
      /\ Pool \in Address /\ Manager \in Address /\ Pool # Manager
      /\ \A a \in Users : a \in Address \ {Pool, Manager}
      /\ stableCoin.balances[Manager] \in Nat
      /\ stableCoin.balances[Pool] \in Nat
  BY ManagerFacts, UintIsNat, BalanceType DEF StorageOK, Payees
<1>1. /\ coin \in TokenState
      /\ SumFunction(coin.balances) = SumFunction(stableCoin.balances)
  BY <1>0, MoveType, MoveTotal
<1>2. /\ coin.balances[Pool] = stableCoin.balances[Pool] - value
      /\ coin.balances[Manager] = stableCoin.balances[Manager] + value
      /\ \A a \in Address \ {Pool, Manager} :
           coin.balances[a] = stableCoin.balances[a]
  BY <1>0, MoveEffect
<1> HIDE DEF coin
<1>3. QED
  BY <1>0, <1>1, <1>2 DEF Held, coin

\* A cleared record is a record.
LEMMA ClearedType ==
  ASSUME StorageOK
  PROVE  /\ Cleared(deposit_records, Manager) \in Records
         /\ Cleared(deposit_records, Manager)[Manager] = 0
BY ManagerFacts, MaxUintAssumption DEF StorageOK, Records, Cleared, Uint

\* What is at least a is a and something.
LEMMA Excess ==
  ASSUME NEW a \in Int, NEW b \in Int, a <= b
  PROVE  \E k \in Nat : b = a + k
<1>1. b - a \in Nat /\ b = a + (b - a)
  OBVIOUS
<1>2. QED
  BY <1>1

\* A share of at most all the coins is at most 100 per cent.
LEMMA AtMostAll ==
  ASSUME NEW h \in Nat, h > 0, NEW m \in Nat, m * h <= 100 * h
  PROVE  m <= 100
<1> SUFFICES ASSUME m > 100 PROVE FALSE
  OBVIOUS
<1>1. PICK k \in Nat : m = 101 + k
  BY Excess
<1>2. k * h \in Nat
  OBVIOUS
<1>3. (101 + k) * h = 101 * h + k * h
  OBVIOUS
<1>4. QED
  BY <1>1, <1>2, <1>3

\* A percentage of some coins, rounded down, is at most that of more coins at
\* the same cost.
LEMMA PercentOfMore ==
  ASSUME NEW h \in Nat, h > 0, NEW cost \in Nat, cost <= h, NEW more \in Nat,
         NEW m \in Nat, m = ((h - cost) * 100) \div h
  PROVE  m * (h + more) <= 100 * ((h + more) - cost)
<1>1. PICK n \in Nat : n = (h - cost) * 100
  OBVIOUS
<1>2. m * h <= n
  <2>1. m = n \div h
    BY <1>1
  <2>2. n = h * m + (n % h) /\ n % h \in 0 .. (h - 1)
    BY <2>1
  <2>3. QED
    BY <2>2
<1>3. m <= 100
  <2>1. n <= 100 * h
    BY <1>1
  <2>2. m * h \in Nat /\ 100 * h \in Nat
    OBVIOUS
  <2>3. m * h <= 100 * h
    BY <1>2, <2>1, <2>2
  <2>4. QED
    BY <2>3, AtMostAll
<1>4. m * more <= 100 * more
  <2>1. PICK k \in Nat : 100 = m + k
    BY <1>3, Excess
  <2>2. k * more \in Nat /\ (m + k) * more = m * more + k * more
    BY <2>1
  <2>3. QED
    BY <2>1, <2>2
<1>5. m * (h + more) = m * h + m * more /\ m * h \in Nat /\ m * more \in Nat
  OBVIOUS
<1>6. QED
  BY <1>1, <1>2, <1>4, <1>5

\* A multiplier a settlement may set: the interest as a percentage of the
\* coins, or less.
SettlesAt(m) == Held > 0 /\ m * Held <= 100 * (Held - Principal)

\* What fulfillState works with when it calls redeemExecute: all that the
\* Manager and the pool held is still there, and when the answer was news its
\* interest is what exceeds the price of every token sold
\* (Manager.sol:166-171).
SettlementEffect(s) ==
  /\ s.coin \in TokenState
  /\ s.coin.balances[Manager] + s.coin.balances[Pool] = Held
  /\ SumFunction(s.coin.balances) = SumFunction(stableCoin.balances)
  /\ \A a \in Users : s.coin.balances[a] = stableCoin.balances[a]
  /\ s.records \in Records
  /\ s.interest \in Uint /\ s.multiplier \in Uint
  /\ s.multiplier = interestMultiplier \/ SettlesAt(s.multiplier)

LEMMA SettlementIsCovered ==
  ASSUME StorageOK, NEW answer, state = answer \/ CanSettle
  PROVE  /\ SettlementEffect(Settlement(answer))
         /\ state # answer => /\ deposit_records[Manager] > 0
                              /\ Settlement(answer).records[Manager] = 0
<1>0. /\ Manager \in Address /\ Pool \in Address
      /\ deposit_records[Manager] \in Uint
      /\ stableCoin.balances[Manager] \in Nat
      /\ stableCoin.balances[Pool] \in Nat
  BY ManagerFacts, BalanceType DEF StorageOK, Records
<1>1. CASE state = answer
  <2> DEFINE s == [coin       |-> stableCoin,
                   records    |-> deposit_records,
                   interest   |-> interestEarned,
                   multiplier |-> interestMultiplier]
  <2>1. Settlement(answer) = s
    BY <1>1 DEF Settlement
  <2>2. SettlementEffect(s)
    BY <1>0 DEF SettlementEffect, StorageOK, Held
  <2> HIDE DEF s
  <2>3. QED
    BY <1>1, <2>1, <2>2
<1>2. CASE state # answer
  <2> DEFINE coin == EarlyWithdrawCoin(stableCoin, deposit_records, Manager)
             held == coin.balances[Manager]
             interest == Interest(coin)
             multiplier == Multiplier(coin)
             s == [coin       |-> coin,
                   records    |-> Cleared(deposit_records, Manager),
                   interest   |-> interest,
                   multiplier |-> multiplier]
  <2>0. Settlement(answer) = s
    BY <1>2 DEF Settlement
  <2>1. /\ deposit_records[Manager] > 0
        /\ CanMove(stableCoin, Pool, Manager, deposit_records[Manager])
    BY <1>2 DEF CanSettle, CanEarlyWithdraw
  <2>2. /\ coin \in TokenState
        /\ held + coin.balances[Pool] = Held
        /\ SumFunction(coin.balances) = SumFunction(stableCoin.balances)
        /\ \A a \in Users : coin.balances[a] = stableCoin.balances[a]
    BY <1>0, <2>1, PoolPaysEffect DEF EarlyWithdrawCoin
  <2>3. held \in Uint /\ held \in Nat /\ coin.balances[Pool] \in Nat
    BY <1>0, <2>2, BalanceType
  <2>4. /\ MulOK(AtokenContract.totalSupply, tokenPrice)
        /\ Principal <= held
        /\ MulOK(interest, 100)
        /\ held > 0
    BY <1>2 DEF CanSettle, SubOK, DivOK
  <2>5. Principal \in Nat
    <3>1. AtokenContract.totalSupply \in Uint /\ tokenPrice \in Uint
      BY ValueAssumption DEF StorageOK, TokenState
    <3>2. QED
      BY <2>4, <3>1, MulExact, UintIsNat DEF Principal
  <2>6. interest = held - Principal
    BY DEF Interest
  <2> HIDE DEF coin, held, interest
  <2>7. interest \in Uint
    BY <2>3, <2>4, <2>5, <2>6, MaxUintAssumption DEF Uint
  <2>8. interest * 100 \in Uint
    BY <2>4, <2>7, MulFits
  <2>9. multiplier \in Uint
    <3>1. multiplier = (interest * 100) \div held
      BY DEF Multiplier, interest, held
    <3>2. PICK n \in Uint : n = interest * 100
      BY <2>8
    <3>3. n \div held \in Nat /\ n \div held <= n
      BY <2>3, <2>4, <3>2, UintIsNat
    <3>4. n \div held \in Uint
      BY <3>3, MaxUintAssumption DEF Uint
    <3>5. QED
      BY <3>1, <3>2, <3>4
  <2> HIDE DEF multiplier
  <2>10. SettlesAt(multiplier)
    <3>1. multiplier = ((held - Principal) * 100) \div held
      BY <2>6 DEF Multiplier, multiplier, held, interest
    <3>2. multiplier \in Nat
      BY <2>9, UintIsNat
    <3>3. PICK more \in Nat : more = coin.balances[Pool]
      BY <2>3
    <3>4. multiplier * (held + more) <= 100 * ((held + more) - Principal)
      BY <2>3, <2>4, <2>5, <3>1, <3>2, <3>3, PercentOfMore
    <3>5. Held = held + more /\ Held > 0
      BY <2>2, <2>3, <2>4, <3>3
    <3>6. QED
      BY <3>4, <3>5 DEF SettlesAt
  <2>11. SettlementEffect(s) /\ s.records[Manager] = 0
    BY <2>2, <2>7, <2>9, <2>10, ClearedType DEF SettlementEffect, held
  <2> HIDE DEF s
  <2>12. QED
    BY <2>0, <2>1, <2>11
<1>3. QED
  BY <1>1, <1>2
-----------------------------------------------------------------------------
\* What a step does to the funds: it sells n pairs, or it redeems n tokens.
\* Most steps do neither, which is to redeem none.
TokensMove(n) ==
  \A X \in {<<AtokenContract', AtokenContract>>,
            <<BtokenContract', BtokenContract>>} :
    /\ X[1].totalSupply = Wrap(X[2].totalSupply + n)
    /\ X[1].token_admin = X[2].token_admin
    /\ SumFunction(X[1].balances) = SumFunction(X[2].balances) + n

Sale(n) ==
  /\ tokensSold + n <= MaxSold
  /\ tokensSold' = Wrap(tokensSold + n)
  /\ Held' = Held + n * tokenPrice
  /\ Redeemed' = Redeemed
  /\ interestMultiplier' = interestMultiplier
  /\ TokensMove(n)

Redemption(n) ==
  /\ tokensSold' = tokensSold
  /\ Held' = Held - n * tokenPrice * interestMultiplier'
  /\ Redeemed' = Redeemed + n
  /\ interestMultiplier' = interestMultiplier \/ SettlesAt(interestMultiplier')
  /\ TokensMove(0)

FundsStep ==
  /\ SumFunction(stableCoin'.balances) = SumFunction(stableCoin.balances)
  /\ \E n \in Nat : Sale(n) \/ Redemption(n)

\* Tokens that keep their supply, admin and sum move by zero.
LEMMA TokensKept ==
  ASSUME StorageOK,
         \A X \in {<<AtokenContract', AtokenContract>>,
                   <<BtokenContract', BtokenContract>>} :
           /\ X[1].totalSupply = X[2].totalSupply
           /\ X[1].token_admin = X[2].token_admin
           /\ SumFunction(X[1].balances) = SumFunction(X[2].balances)
  PROVE  TokensMove(0)
<1> SUFFICES ASSUME NEW X \in {<<AtokenContract', AtokenContract>>,
                               <<BtokenContract', BtokenContract>>}
             PROVE  /\ X[1].totalSupply = Wrap(X[2].totalSupply + 0)
                    /\ SumFunction(X[1].balances)
                         = SumFunction(X[2].balances) + 0
  BY DEF TokensMove
<1>1. X[2] \in TokenState
  BY DEF StorageOK
<1>2. X[2].totalSupply \in Uint /\ X[2].totalSupply \in Nat
  BY <1>1, UintIsNat DEF TokenState
<1>3. Wrap(X[2].totalSupply + 0) = X[2].totalSupply
  BY <1>2, WrapUint
<1>4. SumFunction(X[2].balances) \in Nat
  BY <1>1, TotalCovers
<1>5. QED
  BY <1>3, <1>4

\* What the Manager and the pool hold, and what was redeemed, are numbers.
LEMMA FundsType ==
  ASSUME StorageOK
  PROVE  Held \in Nat /\ Redeemed \in Nat
BY ManagerFacts, BalanceType DEF StorageOK, Held, Redeemed

\* A step that redeems nothing moves the funds as one that redeems no tokens.
LEMMA NothingRedeemed ==
  ASSUME StorageOK, TokensMove(0), Redeemed' = Redeemed, Held' = Held,
         UNCHANGED <<tokensSold, interestMultiplier>>,
         SumFunction(stableCoin'.balances) = SumFunction(stableCoin.balances)
  PROVE  FundsStep
<1>1. 0 * tokenPrice * interestMultiplier' = 0
  <2>1. tokenPrice \in Nat /\ interestMultiplier' \in Nat
    BY ValueAssumption, UintIsNat DEF StorageOK
  <2>2. QED
    BY <2>1
<1>2. Redemption(0)
  BY <1>1, FundsType DEF Redemption
<1>3. QED
  BY <1>2 DEF FundsStep

\* So does one that leaves the tokens, the sales and the multiplier alone, and
\* moves coins only between the Manager and the pool, if any.
LEMMA IdleFunds ==
  ASSUME StorageOK, UNCHANGED <<tokenVars, interestMultiplier>>,
         SumFunction(stableCoin'.balances) = SumFunction(stableCoin.balances),
         Held' = Held
  PROVE  FundsStep
<1>1. TokensMove(0)
  BY TokensKept DEF tokenVars
<1>2. QED
  BY <1>1, NothingRedeemed DEF Redeemed, tokenVars

\* A redemption from funds that are all there.
LEMMA PaidFunds ==
  ASSUME StorageOK, NEW coin, NEW who, coin \in TokenState,
         RedemptionEffect(coin, interestMultiplier', who),
         coin.balances[Manager] + coin.balances[Pool] = Held,
         SumFunction(coin.balances) = SumFunction(stableCoin.balances),
         interestMultiplier' \in Uint,
         interestMultiplier' = interestMultiplier
           \/ SettlesAt(interestMultiplier'),
         tokensSold' = tokensSold
  PROVE  FundsStep
<1>1. PICK t \in Nat :
        /\ stableCoin'.balances[Manager]
             = coin.balances[Manager] - t * tokenPrice * interestMultiplier'
        /\ stableCoin'.balances[Pool] = coin.balances[Pool]
        /\ SumFunction(stableCoin'.balances) = SumFunction(coin.balances)
        /\ Redeemed' = Redeemed + t
        /\ \A X \in {<<AtokenContract', AtokenContract>>,
                     <<BtokenContract', BtokenContract>>} :
             /\ X[1].totalSupply = X[2].totalSupply
             /\ X[1].token_admin = X[2].token_admin
             /\ SumFunction(X[1].balances) = SumFunction(X[2].balances)
  BY DEF RedemptionEffect
<1>2. TokensMove(0)
  BY <1>1, TokensKept
<1>3. PICK paid \in Nat : paid = t * tokenPrice * interestMultiplier'
  BY <1>1, ValueAssumption, UintIsNat
<1>4. coin.balances[Manager] \in Nat /\ coin.balances[Pool] \in Nat
  BY ManagerFacts, BalanceType
<1>5. Held' = Held - paid
  BY <1>1, <1>3, <1>4 DEF Held
<1>6. Redemption(t)
  BY <1>1, <1>2, <1>3, <1>5 DEF Redemption
<1>7. QED
  BY <1>1, <1>6 DEF FundsStep
-----------------------------------------------------------------------------
\* The principal and a tenth of it, wrapped around (test88MPH.sol:41), is a
\* uint.
LEMMA MaturedType ==
  ASSUME NEW n \in Uint
  PROVE  Matured(n) \in Uint
<1>1. n \in Nat /\ n \div 10 \in Nat
  BY UintIsNat
<1>2. QED
  BY <1>1, WrapType DEF Matured

\* An approval moves no coins.
LEMMA ApproveEffect ==
  ASSUME NEW t \in TokenState, NEW holder \in Address, NEW spender \in Address,
         NEW value \in Uint
  PROVE  LET u == Approve(t, holder, spender, value)
         IN  /\ u \in TokenState
             /\ u.balances = t.balances
             /\ u.totalSupply = t.totalSupply
             /\ u.token_admin = t.token_admin
BY ApproveType DEF Approve, TokenState

\* What a pull of an allowance does.
LEMMA PulledEffect ==
  ASSUME NEW t \in TokenState, NEW from \in Address, NEW to \in Address,
         NEW value \in Uint, from # to, CanMoveFrom(t, to, from, to, value)
  PROVE  LET m == MoveFrom(t, to, from, to, value)
         IN  /\ m \in TokenState
             /\ m.balances[from] = t.balances[from] - value
             /\ m.balances[to] = t.balances[to] + value
             /\ \A a \in Address \ {from, to} : m.balances[a] = t.balances[a]
             /\ SumFunction(m.balances) = SumFunction(t.balances)
<1> DEFINE m == MoveFrom(t, to, from, to, value)
<1>1. m \in TokenState /\ SumFunction(m.balances) = SumFunction(t.balances)
  BY MoveFromType, MoveFromTotal
<1>2. m.balances = Move(t, from, to, value).balances
  BY MoveFromEffect
<1>3. CanMove(t, from, to, value)
  BY DEF CanMoveFrom
<1> HIDE DEF m
<1>4. /\ m.balances[from] = t.balances[from] - value
      /\ m.balances[to] = t.balances[to] + value
      /\ \A a \in Address \ {from, to} : m.balances[a] = t.balances[a]
  BY <1>2, <1>3, MoveEffect
<1>5. QED
  BY <1>1, <1>4 DEF m

\* Users approve and buy
LEMMA ApproveStep ==
  ASSUME StorageOK, NEW user \in Users, NEW n \in BuyAmounts, approve(user, n)
  PROVE  StorageOK' /\ FundsStep
<1>1. user \in Address /\ Manager \in Address /\ n * tokenPrice \in Uint
  BY ManagerFacts, ValueAssumption, MulExact DEF approve
<1>2. /\ stableCoin' \in TokenState
      /\ stableCoin'.balances = stableCoin.balances
  <2>1. PICK cost \in Uint : cost = n * tokenPrice
    BY <1>1
  <2>2. stableCoin' = Approve(stableCoin, user, Manager, cost)
    BY <2>1 DEF approve
  <2>3. stableCoin \in TokenState
    BY DEF StorageOK
  <2>4. QED
    BY <1>1, <2>2, <2>3, ApproveEffect
<1>3. Held' = Held
  BY <1>2 DEF Held
<1>4. StorageOK'
  BY <1>2 DEF approve, StorageOK, tokenVars, interestVars
<1>5. FundsStep
  BY <1>2, <1>3, IdleFunds DEF approve, interestVars
<1>6. QED
  BY <1>4, <1>5

LEMMA BuyStep ==
  ASSUME StorageOK, NEW user \in Users, NEW n \in BuyAmounts,
         tokensSold + n <= MaxSold, buyTokens(user, n)
  PROVE  StorageOK' /\ FundsStep
<1> DEFINE cost == n * tokenPrice
<1>0. /\ user \in Address /\ Manager \in Address /\ Pool \in Address
      /\ user # Manager /\ user # Pool /\ Manager # Pool
  BY ManagerFacts DEF Payees
<1>1. n \in Uint /\ n \in Nat /\ cost \in Uint /\ cost \in Nat
  <2>1. MulOK(n, tokenPrice) /\ n \in Uint /\ tokenPrice \in Uint
    BY ValueAssumption DEF buyTokens, CanBuy
  <2>2. cost \in Uint
    BY <2>1, MulExact
  <2>3. QED
    BY <2>1, <2>2, UintIsNat
<1>2. /\ CanMoveFrom(stableCoin, Manager, user, Manager, cost)
      /\ stableCoin' = MoveFrom(stableCoin, Manager, user, Manager, cost)
  BY DEF buyTokens, CanBuy
<1> HIDE DEF cost
<1>3. /\ stableCoin' \in TokenState
      /\ stableCoin'.balances[Manager] = stableCoin.balances[Manager] + cost
      /\ stableCoin'.balances[Pool] = stableCoin.balances[Pool]
      /\ SumFunction(stableCoin'.balances) = SumFunction(stableCoin.balances)
  BY <1>0, <1>1, <1>2, PulledEffect DEF StorageOK
<1>4. /\ stableCoin.balances[Manager] \in Nat
      /\ stableCoin.balances[Pool] \in Nat
  BY <1>0, BalanceType DEF StorageOK
<1>5. Held' = Held + cost
  BY <1>1, <1>3, <1>4 DEF Held
<1>6. \A X \in {<<AtokenContract', AtokenContract>>,
                <<BtokenContract', BtokenContract>>} :
        /\ X[1] \in TokenState
        /\ X[1].totalSupply = Wrap(X[2].totalSupply + n)
        /\ X[1].token_admin = X[2].token_admin
        /\ X[1].balances[Manager] = X[2].balances[Manager]
        /\ SumFunction(X[1].balances) = SumFunction(X[2].balances) + n
  <2>1. ASSUME NEW t \in TokenState, CanMint(t, Manager, user, n)
        PROVE  LET m == Mint(t, user, n)
               IN  /\ m \in TokenState
                   /\ m.totalSupply = Wrap(t.totalSupply + n)
                   /\ m.token_admin = t.token_admin
                   /\ m.balances[Manager] = t.balances[Manager]
                   /\ SumFunction(m.balances) = SumFunction(t.balances) + n
    <3>1. Mint(t, user, n) \in TokenState
      BY <1>0, <1>1, <2>1, MintType
    <3>2. SumFunction(Mint(t, user, n).balances) = SumFunction(t.balances) + n
      BY <1>0, <1>1, MintTotal
    <3>3. /\ Mint(t, user, n).totalSupply = Wrap(t.totalSupply + n)
          /\ Mint(t, user, n).token_admin = t.token_admin
          /\ Mint(t, user, n).balances[Manager] = t.balances[Manager]
      BY <1>0 DEF Mint, TokenState
    <3>4. QED
      BY <3>1, <3>2, <3>3
  <2>2. /\ CanMint(AtokenContract, Manager, user, n)
        /\ CanMint(BtokenContract, Manager, user, n)
        /\ AtokenContract' = Mint(AtokenContract, user, n)
        /\ BtokenContract' = Mint(BtokenContract, user, n)
    BY DEF buyTokens, CanBuy
  <2>3. AtokenContract \in TokenState /\ BtokenContract \in TokenState
    BY DEF StorageOK
  <2>4. QED
    BY <2>1, <2>2, <2>3
<1>7. Redeemed' = Redeemed /\ TokensMove(n)
  BY <1>6 DEF Redeemed, TokensMove
<1>8. tokensSold' = Wrap(tokensSold + n) /\ interestMultiplier' = interestMultiplier
  BY DEF buyTokens, interestVars
<1>9. Sale(n)
  BY <1>5, <1>7, <1>8 DEF Sale, cost
<1>10. tokensSold' \in Uint
  <2>1. tokensSold \in Nat
    BY UintIsNat DEF StorageOK
  <2>2. QED
    BY <1>1, <1>8, <2>1, WrapType
<1>11. StorageOK'
  <2>1. AtokenContract' \in TokenState /\ BtokenContract' \in TokenState
    BY <1>6
  <2>2. QED
    BY <1>3, <1>10, <2>1 DEF buyTokens, StorageOK, interestVars
<1>12. QED
  BY <1>1, <1>3, <1>9, <1>11 DEF FundsStep

\* Users trade either token; neither the sums nor the Manager's share change.
LEMMA TradeStep ==
  ASSUME StorageOK, NEW from \in Users, NEW to \in Users,
         NEW n \in TradeAmounts, trade(from, to, n)
  PROVE  StorageOK' /\ FundsStep
<1>0. /\ from \in Address /\ to \in Address /\ Manager \in Address
      /\ Manager \notin {from, to} /\ n \in Uint
  BY ManagerFacts, ValueAssumption DEF Payees
<1>1. \A X \in {<<AtokenContract', AtokenContract>>,
                <<BtokenContract', BtokenContract>>} :
        /\ X[1] \in TokenState
        /\ X[1].totalSupply = X[2].totalSupply
        /\ X[1].token_admin = X[2].token_admin
        /\ X[1].balances[Manager] = X[2].balances[Manager]
        /\ SumFunction(X[1].balances) = SumFunction(X[2].balances)
  <2>1. ASSUME NEW t \in TokenState, CanMove(t, from, to, n)
        PROVE  LET m == Move(t, from, to, n)
               IN  /\ m \in TokenState
                   /\ m.totalSupply = t.totalSupply
                   /\ m.token_admin = t.token_admin
                   /\ m.balances[Manager] = t.balances[Manager]
                   /\ SumFunction(m.balances) = SumFunction(t.balances)
    <3>1. /\ Move(t, from, to, n) \in TokenState
          /\ SumFunction(Move(t, from, to, n).balances) = SumFunction(t.balances)
      BY <1>0, <2>1, MoveType, MoveTotal
    <3>2. QED
      BY <1>0, <2>1, <3>1, MoveEffect
  <2>2. AtokenContract \in TokenState /\ BtokenContract \in TokenState
    BY DEF StorageOK
  <2>3. \/ /\ CanMove(AtokenContract, from, to, n)
           /\ AtokenContract' = Move(AtokenContract, from, to, n)
           /\ BtokenContract' = BtokenContract
        \/ /\ CanMove(BtokenContract, from, to, n)
           /\ BtokenContract' = Move(BtokenContract, from, to, n)
           /\ AtokenContract' = AtokenContract
    BY DEF trade
  <2>4. QED
    BY <2>1, <2>2, <2>3
<1>2. /\ UNCHANGED <<stableCoin, deposit_records, tokensSold, state, owner>>
      /\ UNCHANGED <<interestEarned, interestMultiplier, redeem_book>>
  BY DEF trade, coinVars, interestVars
<1>3. StorageOK'
  <2>1. AtokenContract' \in TokenState /\ BtokenContract' \in TokenState
    BY <1>1
  <2>2. QED
    BY <1>2, <2>1 DEF StorageOK
<1>4. FundsStep
  <2>1. TokensMove(0)
    BY <1>1, TokensKept
  <2>2. Redeemed' = Redeemed /\ Held' = Held
    BY <1>1, <1>2 DEF Redeemed, Held
  <2>3. QED
    BY <1>2, <2>1, <2>2, NothingRedeemed
<1>5. QED
  BY <1>3, <1>4

\* A user redeems
LEMMA RedeemNowStep ==
  ASSUME StorageOK, NEW user \in Users, redeemNow(user)
  PROVE  StorageOK' /\ FundsStep
<1>1. /\ UNCHANGED <<deposit_records, tokensSold, state, owner>>
      /\ UNCHANGED <<interestEarned, interestMultiplier, redeem_book>>
  BY DEF redeemNow, interestVars
<1>2. RedemptionEffect(stableCoin, interestMultiplier, user)
  BY RedeemEffect DEF redeemNow, StorageOK, Payees
<1>3. RedemptionEffect(stableCoin, interestMultiplier', user)
  BY <1>1, <1>2
<1>4. FundsStep
  BY <1>1, <1>3, PaidFunds DEF StorageOK, Held
<1>5. StorageOK'
  BY <1>1, <1>2 DEF StorageOK, RedemptionEffect
<1>6. QED
  BY <1>4, <1>5

\* The oracle's answer is settled and paid
LEMMA FulfilStep ==
  ASSUME StorageOK, NEW r \in CL!Requests, NEW answer \in Answers, NEW sender,
         fulfillState(sender, r, answer)
  PROVE  /\ StorageOK' /\ FundsStep
         /\ \E coin \in TokenState :
              /\ \A a \in Users : coin.balances[a] = stableCoin.balances[a]
              /\ RedemptionEffect(coin, interestMultiplier', Payee(r))
<1> DEFINE s == Settlement(answer)
<1>0. Payee(r) \in Payees
  BY DEF StorageOK, Payee
<1>1. state = answer \/ CanSettle
  BY DEF fulfillState, CanFulfill
<1>2. SettlementEffect(s)
  BY <1>1, SettlementIsCovered
<1>3. /\ redeemExecute(s.coin, answer, s.multiplier, Payee(r))
      /\ deposit_records'    = s.records
      /\ interestEarned'     = s.interest
      /\ interestMultiplier' = s.multiplier
      /\ state' = answer
      /\ UNCHANGED <<tokensSold, redeem_book, owner>>
  BY DEF fulfillState
<1> HIDE DEF s
<1>4. /\ s.coin \in TokenState
      /\ s.coin.balances[Manager] + s.coin.balances[Pool] = Held
      /\ SumFunction(s.coin.balances) = SumFunction(stableCoin.balances)
      /\ \A a \in Users : s.coin.balances[a] = stableCoin.balances[a]
      /\ s.records \in Records
      /\ s.interest \in Uint /\ s.multiplier \in Uint
      /\ s.multiplier = interestMultiplier \/ SettlesAt(s.multiplier)
  BY <1>2 DEF SettlementEffect
<1>5. RedemptionEffect(s.coin, s.multiplier, Payee(r))
  BY <1>0, <1>3, <1>4, RedeemEffect
<1>6. RedemptionEffect(s.coin, interestMultiplier', Payee(r))
  BY <1>3, <1>5
<1>7. FundsStep
  BY <1>3, <1>4, <1>6, PaidFunds
<1>8. StorageOK'
  BY <1>3, <1>4, <1>5, ValueAssumption DEF StorageOK, RedemptionEffect
<1>9. QED
  BY <1>4, <1>6, <1>7, <1>8

\* The admin lends to the pool
LEMMA DepositStep ==
  ASSUME StorageOK, NEW sender, NEW amount \in DepositAmounts,
         admin88mphDeposit(sender, amount)
  PROVE  StorageOK' /\ FundsStep
<1> DEFINE approved == Approve(stableCoin, Manager, Pool, amount)
<1>0. /\ Manager \in Address /\ Pool \in Address /\ Manager # Pool
      /\ amount \in Uint /\ amount \in Nat
  BY ManagerFacts, ValueAssumption, UintIsNat
<1>1. approved \in TokenState /\ approved.balances = stableCoin.balances
  BY <1>0, ApproveEffect DEF StorageOK
<1>2. /\ CanMoveFrom(approved, Pool, Manager, Pool, amount)
      /\ stableCoin' = MoveFrom(approved, Pool, Manager, Pool, amount)
  BY DEF admin88mphDeposit, CanDeposit, DepositCoin
<1> HIDE DEF approved
<1>3. /\ stableCoin' \in TokenState
      /\ stableCoin'.balances[Manager] = stableCoin.balances[Manager] - amount
      /\ stableCoin'.balances[Pool] = stableCoin.balances[Pool] + amount
      /\ SumFunction(stableCoin'.balances) = SumFunction(stableCoin.balances)
  BY <1>0, <1>1, <1>2, PulledEffect
<1>4. /\ stableCoin.balances[Manager] \in Nat
      /\ stableCoin.balances[Pool] \in Nat
  BY <1>0, BalanceType DEF StorageOK
<1>5. Held' = Held
  BY <1>0, <1>3, <1>4 DEF Held
<1>6. /\ UNCHANGED <<AtokenContract, BtokenContract, tokensSold>>
      /\ UNCHANGED <<state, interestEarned, interestMultiplier>>
      /\ UNCHANGED <<redeem_book, owner>>
      /\ deposit_records' = [deposit_records EXCEPT ![Manager] = amount]
  BY DEF admin88mphDeposit, DepositRecord, tokenVars, interestVars
<1>7. StorageOK'
  BY <1>0, <1>3, <1>6 DEF StorageOK, Records
<1>8. FundsStep
  BY <1>3, <1>5, <1>6, IdleFunds DEF tokenVars
<1>9. QED
  BY <1>7, <1>8

\* and takes back what the pool owes
LEMMA WithdrawStep ==
  ASSUME StorageOK, NEW sender, admin88mphWithdraw(sender)
  PROVE  StorageOK' /\ FundsStep
<1> DEFINE value == Matured(deposit_records[Manager])
<1>0. Manager \in Address /\ Pool \in Address /\ value \in Uint
  BY ManagerFacts, MaturedType DEF StorageOK, Records
<1>1. /\ CanMove(stableCoin, Pool, Manager, value)
      /\ stableCoin' = Move(stableCoin, Pool, Manager, value)
  BY DEF admin88mphWithdraw, CanWithdraw, WithdrawCoin
<1> HIDE DEF value
<1>2. /\ stableCoin' \in TokenState
      /\ Held' = Held
      /\ SumFunction(stableCoin'.balances) = SumFunction(stableCoin.balances)
  <2>1. PICK coin \in TokenState :
          /\ coin = stableCoin'
          /\ coin.balances[Manager] + coin.balances[Pool] = Held
          /\ SumFunction(coin.balances) = SumFunction(stableCoin.balances)
    BY <1>0, <1>1, PoolPaysEffect
  <2>2. QED
    BY <2>1 DEF Held
<1>3. /\ UNCHANGED <<AtokenContract, BtokenContract, tokensSold>>
      /\ UNCHANGED <<state, interestEarned, interestMultiplier>>
      /\ UNCHANGED <<redeem_book, owner>>
      /\ deposit_records' = Cleared(deposit_records, Manager)
  BY DEF admin88mphWithdraw, tokenVars, interestVars
<1>4. StorageOK'
  BY <1>2, <1>3, ClearedType DEF StorageOK
<1>5. FundsStep
  BY <1>2, <1>3, IdleFunds DEF tokenVars
<1>6. QED
  BY <1>4, <1>5

\* Every other step leaves the coins, the tokens, the loan and the multiplier
\* alone, and books only users.
LEMMA OtherStep ==
  ASSUME StorageOK, UNCHANGED <<coinVars, tokenVars, interestVars>>,
         state' \in Uint, owner' \in Address,
         \/ redeem_book' = redeem_book
         \/ \E user \in Users : redeemLater(user)
  PROVE  StorageOK' /\ FundsStep
<1>1. redeem_book' \in [CL!Requests -> Payees]
  BY DEF StorageOK, redeemLater, Payees
<1>2. StorageOK'
  BY <1>1 DEF StorageOK, coinVars, tokenVars, interestVars
<1>3. FundsStep
  BY IdleFunds DEF coinVars, tokenVars, interestVars, Held
<1>4. QED
  BY <1>2, <1>3
-----------------------------------------------------------------------------
\* Whatever the step, the storage stays well typed, and the funds move as by a
\* sale or by a redemption.
LEMMA ManagerStep ==
  ASSUME StorageOK, [Next]_vars
  PROVE  StorageOK' /\ FundsStep
<1>0. 0 \in Uint /\ 1 \in Uint /\ 2 \in Uint
  BY ValueAssumption, MaxUintAssumption DEF Uint
<1>1. ASSUME NEW user \in Users, NEW n \in BuyAmounts,
             tokensSold + n <= MaxSold, approve(user, n) \/ buyTokens(user, n)
      PROVE  StorageOK' /\ FundsStep
  BY <1>1, ApproveStep, BuyStep
<1>2. ASSUME NEW from \in Users, NEW to \in Users, NEW n \in TradeAmounts,
             trade(from, to, n)
      PROVE  StorageOK' /\ FundsStep
  BY <1>2, TradeStep
<1>3. ASSUME NEW user \in Users, redeem(user)
      PROVE  StorageOK' /\ FundsStep
  <2>1. CASE redeemLater(user)
    BY <2>1, OtherStep DEF redeemLater, StorageOK
  <2>2. CASE redeemNow(user)
    BY <2>2, RedeemNowStep
  <2>3. QED
    BY <1>3, <2>1, <2>2 DEF redeem
<1>4. ASSUME NEW r \in CL!Requests, Fulfil(r)
      PROVE  StorageOK' /\ FundsStep
  <2>1. PICK answer \in Answers : \/ fulfillState(oracle_owner, r, answer)
                                  \/ fulfillStateReverted(oracle_owner, r, answer)
    BY <1>4 DEF Fulfil
  <2>2. CASE fulfillState(oracle_owner, r, answer)
    BY <2>2, FulfilStep
  <2>3. CASE fulfillStateReverted(oracle_owner, r, answer)
    BY <2>3, OtherStep DEF fulfillStateReverted, StorageOK
  <2>4. QED
    BY <2>1, <2>2, <2>3
<1>5. ASSUME NEW sender, \E newState \in {0, 1, 2} : trigger(sender, newState)
      PROVE  StorageOK' /\ FundsStep
  BY <1>0, <1>5, OtherStep DEF trigger, StorageOK
<1>6. ASSUME NEW sender, NEW newOwner \in Owners,
             transferOwnership(sender, newOwner)
      PROVE  StorageOK' /\ FundsStep
  BY <1>6, ManagerAssumption, OtherStep DEF transferOwnership, StorageOK
<1>7. ASSUME \/ requestState \/ Elsewhere \/ UNCHANGED vars
             \/ \E r, sender : cancelRequest(sender, r)
      PROVE  StorageOK' /\ FundsStep
  BY <1>7, OtherStep
     DEF requestState, Elsewhere, vars, cancelRequest, StorageOK
<1>8. ASSUME NEW sender, NEW amount \in DepositAmounts,
             admin88mphDeposit(sender, amount)
      PROVE  StorageOK' /\ FundsStep
  BY <1>8, DepositStep
<1>9. ASSUME NEW sender, admin88mphWithdraw(sender)
      PROVE  StorageOK' /\ FundsStep
  BY <1>9, WithdrawStep
<1>10. QED
  BY <1>1, <1>2, <1>3, <1>4, <1>5, <1>6, <1>7, <1>8, <1>9
     DEF Next, trigger_active, trigger_triggered, trigger_timeout
-----------------------------------------------------------------------------
LEMMA StorageInit == Init => StorageOK
<1> SUFFICES ASSUME Init PROVE StorageOK
  OBVIOUS
<1>1. 0 \in Uint
  BY MaxUintAssumption DEF Uint
<1>2. HandOver(Deployed(Admin, 0), Manager) \in TokenState
  BY <1>1, ManagerFacts, DeployedType, HandOverType
<1>3. QED
  BY <1>1, <1>2, ManagerFacts, ValueAssumption
     DEF Init, StorageOK, Records, Payees

LEMMA ManagerStorageOK == Spec => []StorageOK
<1>1. StorageOK /\ [Next]_vars => StorageOK'
  BY ManagerStep
<1>2. QED
  BY <1>1, StorageInit, PTL DEF Spec

\* The storage of all six contracts stays well typed: what SafeMath does not
\* check, the supplies of A and B and tokensSold, by wrapping around, and the
\* rest, the interest and the multiplier of a settlement included, by the
\* `require's of SafeMath on the way (Manager.sol:166-172).
THEOREM ManagerTypeOK == Spec => []TypeOK
<1>1. StorageOK /\ CL!TypeOK => TypeOK
  BY Zenon DEF StorageOK, TypeOK, Payees
<1>2. QED
  BY <1>1, ManagerStorageOK, RequestsTypeOK, PTL
-----------------------------------------------------------------------------
\* The books agree: both tokens exist in the number sold, the Manager remains
\* their admin, and no more coins exist than a uint counts.
BookOf(t) ==
  /\ t.totalSupply = tokensSold
  /\ t.token_admin = Manager
  /\ SumFunction(t.balances) = tokensSold

Books ==
  /\ BookOf(AtokenContract) /\ BookOf(BtokenContract)
  /\ tokensSold <= MaxSold
  /\ SumFunction(stableCoin.balances) <= MaxUint

LEMMA BooksInit == Init => Books
<1> SUFFICES ASSUME Init PROVE Books
  OBVIOUS
<1> DEFINE t == HandOver(Deployed(Admin, 0), Manager)
<1>1. 0 \in Uint /\ Admin \in Address /\ 0 <= MaxSold
  BY MaxUintAssumption, ValueAssumption, ManagerFacts DEF Uint
<1>2. SumFunction(Deployed(Admin, 0).balances) = 0
  BY <1>1, DeployedTotal
<1>3. /\ t.balances = Deployed(Admin, 0).balances
      /\ t.totalSupply = 0 /\ t.token_admin = Manager
  BY DEF HandOver, Deployed
<1> HIDE DEF t
<1>4. AtokenContract = t /\ BtokenContract = t /\ tokensSold = 0
  BY DEF Init, t
<1>5. SumFunction(stableCoin.balances) <= MaxUint
  <2>1. /\ SumFunction(InitialCoin.balances) <= InitialCoin.totalSupply
        /\ InitialCoin \in TokenState
    BY ValueAssumption
  <2>2. InitialCoin.totalSupply \in Uint
    BY <2>1 DEF TokenState
  <2>3. SumFunction(InitialCoin.balances) \in Nat
    BY <2>1, TotalCovers
  <2>4. SumFunction(InitialCoin.balances) <= MaxUint
    BY <2>1, <2>2, <2>3, MaxUintAssumption DEF Uint
  <2>5. QED
    BY <2>4 DEF Init
<1>6. QED
  BY <1>1, <1>2, <1>3, <1>4, <1>5 DEF Books, BookOf

\* A token whose supply and sum grow by what is sold keeps its book.
LEMMA BookStep ==
  ASSUME StorageOK, Books, NEW n \in Nat, tokensSold + n <= MaxSold,
         tokensSold' = tokensSold + n, TokensMove(n)
  PROVE  BookOf(AtokenContract)' /\ BookOf(BtokenContract)'
<1>1. tokensSold + n \in Uint
  BY ValueAssumption, MaxUintAssumption DEF StorageOK, Uint
<1>2. Wrap(tokensSold + n) = tokensSold + n
  BY <1>1, WrapUint
<1>3. QED
  BY <1>2 DEF TokensMove, Books, BookOf

LEMMA BooksStep ==
  ASSUME StorageOK, Books, FundsStep
  PROVE  Books'
<1>1. PICK n \in Nat : Sale(n) \/ Redemption(n)
  BY DEF FundsStep
<1>2. tokensSold \in Nat
  BY UintIsNat DEF StorageOK
<1>3. SumFunction(stableCoin'.balances) <= MaxUint
  BY DEF FundsStep, Books
<1>4. CASE Sale(n)
  <2>1. tokensSold + n \in Uint
    BY <1>2, <1>4, ValueAssumption, MaxUintAssumption DEF Sale, Uint
  <2>2. tokensSold' = tokensSold + n /\ tokensSold + n <= MaxSold
    BY <1>4, <2>1, WrapUint DEF Sale
  <2>3. BookOf(AtokenContract)' /\ BookOf(BtokenContract)'
    BY <1>4, <2>2, BookStep DEF Sale
  <2>4. QED
    BY <1>3, <2>2, <2>3 DEF Books
<1>5. CASE Redemption(n)
  <2>1. tokensSold' = tokensSold + 0 /\ tokensSold + 0 <= MaxSold
    BY <1>2, <1>5 DEF Redemption, Books
  <2>2. BookOf(AtokenContract)' /\ BookOf(BtokenContract)'
    BY <1>5, <2>1, BookStep DEF Redemption
  <2>3. QED
    BY <1>2, <1>3, <2>1, <2>2 DEF Books
<1>6. QED
  BY <1>1, <1>4, <1>5
-----------------------------------------------------------------------------
\* What n tokens cost covers what they are paid at a multiplier of at most 1,
\* and at any multiplier if there are none.
LEMMA PriceCovers ==
  ASSUME NEW p \in Nat, NEW n \in Nat, NEW m \in Nat
  PROVE  /\ n * p * m \in Nat /\ p * n \in Nat
         /\ m <= 1 \/ n = 0 => n * p * m <= p * n
<1>1. PICK price \in Nat : price = n * p /\ price = p * n
  OBVIOUS
<1>2. price * m \in Nat
  OBVIOUS
<1>3. ASSUME m <= 1 \/ n = 0 PROVE price * m <= price
  <2>1. CASE n = 0
    <3>1. price = 0
      BY <1>1, <2>1
    <3>2. QED
      BY <3>1
  <2>2. CASE m <= 1
    <3>1. m = 0 \/ m = 1
      BY <2>2
    <3>2. price * 0 = 0 /\ price * 1 = price
      OBVIOUS
    <3>3. QED
      BY <3>1, <3>2
  <2>3. QED
    BY <1>3, <2>1, <2>2
<1>4. QED
  BY <1>1, <1>2, <1>3

\* Buying and redeeming move the price of what is outstanding by the price of
\* what is bought and redeemed.
LEMMA PriceDistributes ==
  ASSUME NEW p \in Nat, NEW sold \in Int, NEW n \in Int
  PROVE  /\ p * (sold + n) = p * sold + p * n
         /\ p * (sold - n) = p * sold - p * n
OBVIOUS

\* The storage and the books, together inductive
BooksInv == StorageOK /\ Books

LEMMA ManagerBooksInv == Spec => []BooksInv
<1>1. Init => BooksInv
  BY StorageInit, BooksInit DEF BooksInv
<1>2. BooksInv /\ [Next]_vars => BooksInv'
  BY ManagerStep, BooksStep DEF BooksInv
<1>3. QED
  BY <1>1, <1>2, PTL DEF Spec

\* By the books, the principal is the price of what was sold, and each pair is
\* redeemed at most once as A and once as B.
LEMMA BooksOfFund ==
  ASSUME StorageOK, Books
  PROVE  /\ tokensSold \in Nat /\ Redeemed \in Nat /\ Held \in Nat
         /\ tokenPrice \in Nat /\ interestMultiplier \in Nat
         /\ Principal = tokenPrice * tokensSold
         /\ Redeemed <= 2 * tokensSold
<1>1. /\ tokensSold \in Nat /\ Redeemed \in Nat /\ Held \in Nat
      /\ tokenPrice \in Nat /\ interestMultiplier \in Nat
  BY UintIsNat, ValueAssumption, FundsType DEF StorageOK
<1>2. Principal = tokenPrice * tokensSold
  <2>1. Principal = tokensSold * tokenPrice
    BY DEF Principal, Books, BookOf
  <2>2. QED
    BY <1>1, <2>1
<1>3. /\ AtokenContract.balances[Manager] <= tokensSold
      /\ BtokenContract.balances[Manager] <= tokensSold
  BY ManagerFacts, TotalCovers DEF StorageOK, Books, BookOf
<1>4. /\ AtokenContract.balances[Manager] \in Nat
      /\ BtokenContract.balances[Manager] \in Nat
  BY ManagerFacts, BalanceType DEF StorageOK
<1>5. Redeemed <= 2 * tokensSold
  BY <1>1, <1>3, <1>4 DEF Redeemed
<1>6. QED
  BY <1>1, <1>2, <1>5

\* A sale is Fund's, and a redemption is a payment of Fund's, with the
\* settlement before it if there is one.
LEMMA FundStep ==
  ASSUME StorageOK, Books, StorageOK', Books', FundsStep
  PROVE  [F!Next]_(F!vars)
<1>1. PICK n \in Nat : Sale(n) \/ Redemption(n)
  BY DEF FundsStep
<1>2. /\ tokensSold \in Nat /\ Redeemed \in Nat /\ Held \in Nat
      /\ tokenPrice \in Nat /\ Principal = tokenPrice * tokensSold
  BY BooksOfFund
<1>3. /\ tokensSold' \in Nat /\ Held' \in Nat /\ interestMultiplier' \in Nat
      /\ Redeemed' <= 2 * tokensSold'
  <2>1. Books' /\ StorageOK'
    OBVIOUS
  <2>2. tokensSold' \in Nat /\ interestMultiplier' \in Nat
    BY UintIsNat DEF StorageOK
  <2>3. /\ AtokenContract'.balances[Manager] <= tokensSold'
        /\ BtokenContract'.balances[Manager] <= tokensSold'
        /\ AtokenContract'.balances[Manager] \in Nat
        /\ BtokenContract'.balances[Manager] \in Nat
    BY ManagerFacts, BalanceType, TotalCovers DEF StorageOK, Books, BookOf
  <2>4. Held' \in Nat
    BY ManagerFacts, BalanceType DEF StorageOK, Held
  <2>5. QED
    BY <2>2, <2>3, <2>4 DEF Redeemed
<1>4. CASE Sale(n)
  <2>1. tokensSold' = tokensSold + n
    <3>1. tokensSold + n \in Uint
      BY <1>2, <1>4, ValueAssumption, MaxUintAssumption DEF Sale, Uint
    <3>2. QED
      BY <1>4, <3>1, WrapUint DEF Sale
  <2>2. tokensSold' - tokensSold = n /\ tokensSold' >= tokensSold
    BY <1>2, <2>1
  <2>3. Held' = Held + tokenPrice * n
    <3>1. n * tokenPrice = tokenPrice * n
      BY <1>2
    <3>2. QED
      BY <1>4, <3>1 DEF Sale
  <2>4. F!Sell
    BY <1>3, <1>4, <2>2, <2>3 DEF F!Sell, Sale
  <2>5. QED
    BY <2>4 DEF F!Next
<1>5. CASE Redemption(n)
  <2>1. /\ tokensSold' = tokensSold /\ Redeemed' = Redeemed + n
        /\ Held' = Held - n * tokenPrice * interestMultiplier'
        /\ interestMultiplier' = interestMultiplier
             \/ SettlesAt(interestMultiplier')
    BY <1>5 DEF Redemption
  <2>2. Redeemed' - Redeemed = n /\ Redeemed' \in Redeemed .. 2 * tokensSold
    BY <1>2, <1>3, <2>1
  <2>3. Held' = Held - tokenPrice * interestMultiplier' * n
    <3>1. n * tokenPrice * interestMultiplier'
            = tokenPrice * interestMultiplier' * n
      BY <1>2, <1>3
    <3>2. QED
      BY <2>1, <3>1
  <2>4. F!Redeem
    BY <1>3, <2>1, <2>2, <2>3 DEF F!Redeem
  <2>5. CASE interestMultiplier' = interestMultiplier
    BY <2>4, <2>5 DEF F!Next, F!Pay
  <2>6. CASE SettlesAt(interestMultiplier')
    BY <1>2, <1>3, <2>4, <2>6 DEF F!Next, F!Settle, SettlesAt
  <2>7. QED
    BY <2>1, <2>5, <2>6
<1>6. QED
  BY <1>1, <1>4, <1>5

\* Whatever Manager does with coins, under every order of sales, loans, answers,
\* triggers and redemptions and whatever reverts, is what Fund does.
THEOREM ManagerFund == Spec => FundSpec
<1>1. Init => F!Init
  <2> SUFFICES ASSUME Init PROVE F!Init
    OBVIOUS
  <2>1. Manager # Admin /\ Manager \in Address
    BY ManagerAssumption
  <2>2. tokensSold = 0 /\ interestMultiplier = 0 /\ Redeemed = 0
    BY <2>1 DEF Init, Redeemed, HandOver, Deployed
  <2>3. Held \in Nat
    BY StorageInit, FundsType
  <2>4. QED
    BY <2>2, <2>3 DEF F!Init
<1>2. BooksInv /\ BooksInv' /\ [Next]_vars => [F!Next]_(F!vars)
  BY ManagerStep, FundStep DEF BooksInv
<1>3. QED
  BY <1>1, <1>2, ManagerBooksInv, PTL DEF Spec, FundSpec, F!Spec
-----------------------------------------------------------------------------
\* Fund's invariant: its variables are numbers, the price of the pairs not
\* redeemed is there, and the multiplier is a percentage.
FundInv ==
  /\ tokensSold \in Nat /\ Redeemed \in Nat
  /\ Held \in Nat /\ interestMultiplier \in Nat
  /\ F!Solvent /\ F!Bounded

\* A redemption of n tokens leaves the price of the rest, if it pays at most
\* the price of n.
LEMMA RedeemKeepsSolvent ==
  ASSUME FundInv, F!Redeem, interestMultiplier' \in Nat,
         interestMultiplier' <= 1 \/ Redeemed' = 0 =>
           Held >= tokenPrice * (tokensSold - Redeemed)
  PROVE  F!Solvent'
<1> DEFINE p == tokenPrice
           m == interestMultiplier'
           rest == tokensSold - Redeemed
           owed == p * rest
<1>1. SUFFICES ASSUME m <= 1 \/ Redeemed' = 0
               PROVE  Held' >= p * (tokensSold' - Redeemed')
  BY DEF F!Solvent
<1>2. /\ tokensSold \in Nat /\ Redeemed \in Nat /\ Held \in Nat /\ m \in Nat
      /\ p \in Nat
  BY UintIsNat, ValueAssumption DEF FundInv
<1>3. PICK n \in Nat : Redeemed' = Redeemed + n
  <2>1. Redeemed' \in Int /\ Redeemed <= Redeemed'
    BY <1>2 DEF F!Redeem
  <2>2. QED
    BY <1>2, <2>1, Excess
<1>4. PICK paid \in Nat : paid = n * p * m
  BY <1>2, PriceCovers
<1>5. PICK price \in Nat : price = p * n
  BY <1>2, PriceCovers
<1>6. paid <= price
  <2>1. m <= 1 \/ n = 0
    BY <1>1, <1>2, <1>3
  <2>2. QED
    BY <1>2, <1>4, <1>5, <2>1, PriceCovers
<1>7. Held' = Held - paid /\ tokensSold' = tokensSold
  <2>1. Redeemed' - Redeemed = n
    BY <1>2, <1>3
  <2>2. p * m * n = n * p * m
    BY <1>2
  <2>3. QED
    BY <1>4, <2>1, <2>2 DEF F!Redeem
<1>8. rest \in Int /\ owed \in Int /\ Held >= owed
  BY <1>1, <1>2
<1>9. p * (rest - n) = owed - price
  BY <1>2, <1>5, <1>8, PriceDistributes
<1>10. tokensSold' - Redeemed' = rest - n
  BY <1>2, <1>3, <1>7
<1> HIDE DEF owed
<1>11. Held' >= owed - price
  BY <1>2, <1>6, <1>7, <1>8
<1>12. QED
  BY <1>9, <1>10, <1>11

\* The price of every pair of which no token has been redeemed is there as long
\* as redemptions pay at most the price, and they never pay more than a hundred
\* times as much, for every price.
THEOREM FundSolvent == FundSpec => [](F!Solvent /\ F!Bounded)
<1>0. tokenPrice \in Nat
  BY UintIsNat, ValueAssumption
<1>1. F!Init => FundInv
  <2> SUFFICES ASSUME F!Init PROVE FundInv
    OBVIOUS
  <2>1. tokenPrice * (0 - 0) = 0
    BY <1>0
  <2>2. QED
    BY <2>1 DEF F!Init, FundInv, F!Solvent, F!Bounded
<1>2. FundInv /\ [F!Next]_(F!vars) => FundInv'
  <2> SUFFICES ASSUME FundInv, [F!Next]_(F!vars) PROVE FundInv'
    OBVIOUS
  <2>0. /\ tokensSold \in Nat /\ Redeemed \in Nat /\ Held \in Nat
        /\ interestMultiplier \in Nat /\ interestMultiplier <= 100
        /\ F!Solvent
    BY DEF FundInv, F!Bounded
  <2>1. CASE F!Sell
    <3>1. PICK n \in Nat : tokensSold' = tokensSold + n
      <4>1. tokensSold' \in Nat /\ tokensSold <= tokensSold'
        BY <2>0, <2>1 DEF F!Sell
      <4>2. QED
        BY <2>0, <4>1, Excess
    <3>2. PICK cost \in Nat : cost = tokenPrice * n
      BY <1>0
    <3>3. /\ Held' = Held + cost
          /\ Redeemed' = Redeemed /\ interestMultiplier' = interestMultiplier
      <4>1. tokensSold' - tokensSold = n
        BY <2>0, <3>1
      <4>2. QED
        BY <2>1, <3>2, <4>1 DEF F!Sell
    <3>4. F!Solvent'
      <4> DEFINE rest == tokensSold - Redeemed
                 owed == tokenPrice * rest
      <4>1. rest \in Int /\ owed \in Int
        BY <1>0, <2>0
      <4>2. tokensSold' - Redeemed' = rest + n
        BY <2>0, <3>1, <3>3
      <4>3. tokenPrice * (rest + n) = owed + cost
        BY <1>0, <3>2, <4>1, PriceDistributes
      <4>4. interestMultiplier <= 1 \/ Redeemed = 0 => Held >= owed
        BY <2>0 DEF F!Solvent
      <4> HIDE DEF owed
      <4>5. interestMultiplier <= 1 \/ Redeemed = 0 => Held' >= owed + cost
        BY <2>0, <3>2, <3>3, <4>1, <4>4
      <4>6. QED
        BY <3>3, <4>2, <4>3, <4>5 DEF F!Solvent
    <3>5. QED
      BY <2>0, <3>1, <3>2, <3>3, <3>4 DEF FundInv, F!Bounded
  <2>2. ASSUME F!Redeem, interestMultiplier' \in Nat, interestMultiplier' <= 100,
               F!Solvent'
        PROVE  FundInv'
    <3>1. Redeemed' \in Nat
      BY <2>0, <2>2 DEF F!Redeem
    <3>2. Held' \in Nat /\ tokensSold' \in Nat
      BY <2>0, <2>2 DEF F!Redeem
    <3>3. QED
      BY <2>2, <3>1, <3>2 DEF FundInv, F!Bounded
  <2>3. CASE F!Pay
    <3>1. F!Redeem /\ interestMultiplier' = interestMultiplier
      BY <2>3 DEF F!Pay
    <3>2. Redeemed' = 0 => Redeemed = 0
      BY <2>0, <3>1 DEF F!Redeem
    <3>3. F!Solvent'
      BY <2>0, <3>1, <3>2, RedeemKeepsSolvent DEF F!Solvent
    <3>4. QED
      BY <2>0, <2>2, <3>1, <3>3
  <2>4. CASE F!Settle
    <3>1. PICK m \in Nat : /\ m = interestMultiplier'
                           /\ Held > 0
                           /\ m * Held <= 100 * (Held - tokenPrice * tokensSold)
      BY <2>4 DEF F!Settle
    <3>2. PICK cost \in Nat : cost = tokenPrice * tokensSold
      BY <1>0, <2>0
    <3>3. PICK share \in Nat : share = m * Held
      BY <2>0
    <3>4. share <= 100 * (Held - cost)
      BY <3>1, <3>2, <3>3
    <3>5. Held >= cost /\ m <= 100
      <4>1. Held >= cost /\ share <= 100 * Held
        BY <2>0, <3>4
      <4>2. QED
        BY <2>0, <3>1, <3>3, <4>1, AtMostAll
    <3>6. Held >= tokenPrice * (tokensSold - Redeemed)
      <4>1. PICK back \in Nat : back = tokenPrice * Redeemed
        BY <1>0, <2>0
      <4>2. tokenPrice * (tokensSold - Redeemed) = cost - back
        BY <1>0, <2>0, <3>2, <4>1, PriceDistributes
      <4>3. QED
        BY <2>0, <3>5, <4>1, <4>2
    <3>7. F!Redeem
      BY <2>4 DEF F!Settle
    <3>8. F!Solvent'
      BY <3>1, <3>6, <3>7, RedeemKeepsSolvent
    <3>9. QED
      BY <2>2, <3>1, <3>5, <3>7, <3>8
  <2>5. CASE UNCHANGED F!vars
    <3>1. /\ tokensSold' = tokensSold /\ Redeemed' = Redeemed
          /\ Held' = Held /\ interestMultiplier' = interestMultiplier
      BY <2>5 DEF F!vars
    <3>2. QED
      BY <3>1 DEF FundInv, F!Solvent, F!Bounded
  <2>6. QED
    BY <2>1, <2>3, <2>4, <2>5 DEF F!Next
<1>3. FundInv => F!Solvent /\ F!Bounded
  BY DEF FundInv
<1>4. QED
  BY <1>1, <1>2, <1>3, PTL DEF FundSpec, F!Spec

\* No order of sales, loans, answers, triggers and redemptions spends the price
\* of the tokens yet to be redeemed, while redemptions pay at most the price
\* (Manager.sol:121 pays, :170 refuses to settle on less).
THEOREM ManagerSolvent == Spec => []Solvent
<1>1. F!Solvent => Solvent
  BY DEF F!Solvent, Solvent
<1>2. QED
  BY <1>1, ManagerFund, FundSolvent, PTL

\* The storage, the books and the funds
SolvencyInv == StorageOK /\ Books /\ Solvent

LEMMA ManagerSolvencyInv == Spec => []SolvencyInv
<1>1. BooksInv /\ Solvent => SolvencyInv
  BY DEF BooksInv, SolvencyInv
<1>2. QED
  BY <1>1, ManagerBooksInv, ManagerSolvent, PTL

\* A redemption at a multiplier of at most 1 passes every `require' on its way
\* (Manager.sol:118-124) if the Manager holds the price of the tokens: the
\* products fit a uint, no balance overflows and the Manager may take tokens.
LEMMA RedeemSucceeds ==
  ASSUME StorageOK, Books, NEW coin \in TokenState,
         SumFunction(coin.balances) <= MaxUint,
         NEW st \in {1, 2}, NEW m \in Uint, m <= 1, NEW who \in Payees,
         tokenPrice * Winner(st).balances[who] <= coin.balances[Manager]
  PROVE  CanRedeem(coin, st, m, who)
<1> DEFINE W      == Winner(st)
           tokens == W.balances[who]
           p      == tokenPrice
           held   == coin.balances[Manager]
           payout == Payout(st, m, who)
<1>0. /\ who \in Address /\ Manager \in Address /\ who # Manager
      /\ p \in Uint /\ p \in Nat /\ m \in Nat
  BY ManagerFacts, ValueAssumption, UintIsNat DEF Payees
<1>1. W \in TokenState /\ BookOf(W)
  BY DEF StorageOK, Books, Winner
<1> HIDE DEF W
<1>2. /\ tokens \in Uint /\ tokens \in Nat /\ held \in Uint /\ held \in Nat
      /\ p * tokens <= held
  BY <1>0, <1>1, BalanceType DEF W
<1>3. SumFunction(W.balances) <= MaxUint
  <2>1. MaxSold <= MaxUint /\ MaxSold \in Nat /\ MaxUint \in Nat
    BY ValueAssumption, MaxUintAssumption, UintIsNat DEF Uint
  <2>2. tokensSold <= MaxSold /\ tokensSold \in Nat
    BY UintIsNat DEF StorageOK, Books
  <2>3. QED
    BY <1>1, <2>1, <2>2 DEF BookOf
<1> HIDE DEF tokens, p, held
<1>4. PICK price \in Nat : price = p * tokens /\ price = tokens * p
  BY <1>0, <1>2
<1>5. price <= held /\ price \in Uint
  BY <1>2, <1>4, MaxUintAssumption DEF Uint
<1>6. payout \in Nat /\ payout <= price /\ payout = price * m
  <2>1. payout = tokens * p * m
    BY DEF Payout, tokens, p, W
  <2>2. tokens * p * m \in Nat /\ tokens * p * m <= p * tokens
    BY <1>0, <1>2, PriceCovers
  <2>3. QED
    BY <1>4, <2>1, <2>2
<1> HIDE DEF payout
<1>7. payout \in Uint /\ payout <= held
  BY <1>2, <1>5, <1>6, MaxUintAssumption DEF Uint
<1>8. MulOK(tokens, p) /\ MulOK(tokens * p, m)
  <2>1. MulOK(tokens, p)
    BY <1>0, <1>2, <1>4, <1>5, MulExact
  <2>2. MulOK(price, m)
    BY <1>5, <1>6, <1>7, MulExact
  <2>3. QED
    BY <1>4, <2>1, <2>2
<1>9. CanMove(coin, Manager, who, payout)
  <2>1. payout <= coin.balances[Manager]
    BY <1>7 DEF held
  <2>2. QED
    BY <1>0, <1>6, <2>1, MoveSucceeds
<1>10. CanAdminMove(W, Manager, who, Manager, tokens)
  <2>1. Manager = W.token_admin
    BY <1>1 DEF BookOf
  <2>2. tokens <= W.balances[who]
    BY <1>2 DEF tokens
  <2>3. CanMove(W, who, Manager, tokens)
    BY <1>0, <1>1, <1>2, <1>3, <2>2, MoveSucceeds
  <2>4. QED
    BY <2>1, <2>3 DEF CanAdminMove
<1>11. QED
  BY <1>7, <1>8, <1>9, <1>10 DEF CanRedeem, W, tokens, p, held, payout

\* Whoever redeemed before, every winner can redeem once the coins are back from
\* the pool: what the Manager holds is the price of the tokens that are out.
THEOREM ManagerWinnersCanRedeem == Spec => []WinnersCanRedeem
<1>1. SolvencyInv => WinnersCanRedeem
  <2> SUFFICES ASSUME SolvencyInv, state \in {1, 2}, interestMultiplier <= 1,
                      stableCoin.balances[Pool] = 0,
                      (IF state = 1 THEN BtokenContract ELSE AtokenContract)
                        .balances[Manager] = 0,
                      NEW user \in Users
               PROVE  CanRedeem(stableCoin, state, interestMultiplier, user)
    BY DEF WinnersCanRedeem
  <2> DEFINE W      == Winner(state)
             tokens == W.balances[user]
             back   == W.balances[Manager]
             p      == tokenPrice
             held   == stableCoin.balances[Manager]
  <2>0. /\ StorageOK /\ Books /\ Solvent
        /\ user \in Address /\ Manager \in Address /\ user # Manager
        /\ user \in Payees
    BY ManagerFacts DEF SolvencyInv, Payees
  <2>1. W \in TokenState /\ BookOf(W) /\ Redeemed = back
    <3>1. /\ AtokenContract \in TokenState /\ BtokenContract \in TokenState
          /\ BookOf(AtokenContract) /\ BookOf(BtokenContract)
      BY <2>0 DEF StorageOK, Books
    <3>2. /\ AtokenContract.balances[Manager] \in Nat
          /\ BtokenContract.balances[Manager] \in Nat
      BY <2>0, <3>1, BalanceType
    <3>3. CASE state = 1
      BY <3>1, <3>2, <3>3 DEF Winner, Redeemed
    <3>4. CASE state # 1
      BY <3>1, <3>2, <3>4 DEF Winner, Redeemed
    <3>5. QED
      BY <3>3, <3>4
  <2> HIDE DEF W
  <2>2. /\ tokens \in Nat /\ back \in Nat /\ tokens + back <= tokensSold
        /\ tokensSold \in Nat /\ held \in Nat /\ p \in Nat
    <3>1. tokens + back <= SumFunction(W.balances)
      BY <2>0, <2>1, TotalCovers
    <3>2. SumFunction(W.balances) = tokensSold
      BY <2>1 DEF BookOf
    <3>3. tokens \in Nat /\ back \in Nat /\ tokensSold \in Nat
      BY <2>0, <2>1, BalanceType, UintIsNat DEF StorageOK
    <3>4. held \in Nat /\ p \in Nat
      BY <2>0, BalanceType, ValueAssumption, UintIsNat DEF StorageOK
    <3>5. QED
      BY <3>1, <3>2, <3>3, <3>4
  <2>3. held >= p * (tokensSold - back)
    <3>1. Held = held
      BY <2>2 DEF Held
    <3>2. QED
      BY <2>0, <2>1, <3>1 DEF Solvent
  <2> HIDE DEF tokens, back, p, held
  <2>4. p * tokens <= held
    <3>1. PICK more \in Nat : tokensSold - back = tokens + more
      BY <2>2, Excess
    <3>2. p * (tokens + more) = p * tokens + p * more
          /\ p * tokens \in Nat /\ p * more \in Nat
      BY <2>2, <3>1, PriceDistributes
    <3>3. QED
      BY <2>2, <2>3, <3>1, <3>2
  <2>5. SumFunction(stableCoin.balances) <= MaxUint /\ stableCoin \in TokenState
    BY <2>0 DEF Books, StorageOK
  <2>6. tokenPrice * Winner(state).balances[user] <= stableCoin.balances[Manager]
    BY <2>4 DEF tokens, p, held, W
  <2>7. interestMultiplier \in Uint
    BY <2>0 DEF StorageOK
  <2>8. QED
    BY <2>0, <2>5, <2>6, <2>7, RedeemSucceeds
<1>2. QED
  BY <1>1, ManagerSolvencyInv, PTL
-----------------------------------------------------------------------------
\* The loan is there, the pool can repay it, and with it the Manager has the
\* price of everything sold and less than two per cent more.
LoanIsRepaid ==
  LET record == deposit_records[Manager]
      back   == stableCoin.balances[Manager] + record
  IN  /\ record \in 1 .. stableCoin.balances[Pool]
      /\ Principal <= back
      /\ (back - Principal) * 100 \in Uint
      /\ (back - Principal) * 100 < 2 * back

\* An answer that is news is settled, whoever asked and whatever was redeemed
\* before.
AnswersGoThrough ==
  LoanIsRepaid =>
    \A r \in pendingRequests, answer \in {1, 2} :
      state # answer => CanFulfill(r, answer)

\* What the early withdrawal leaves when the loan is repaid.
LEMMA RepaidCoin ==
  ASSUME StorageOK, Books, LoanIsRepaid
  PROVE  LET coin   == EarlyWithdrawCoin(stableCoin, deposit_records, Manager)
             record == deposit_records[Manager]
         IN  /\ CanEarlyWithdraw(stableCoin, deposit_records, Manager)
             /\ coin \in TokenState
             /\ coin.balances[Manager] = stableCoin.balances[Manager] + record
             /\ SumFunction(coin.balances) <= MaxUint
<1> DEFINE record == deposit_records[Manager]
           coin == Move(stableCoin, Pool, Manager, record)
<1>0. /\ Manager \in Address /\ Pool \in Address /\ Pool # Manager
      /\ record \in Uint /\ record \in Nat /\ record > 0
      /\ stableCoin \in TokenState
      /\ stableCoin.balances[Pool] \in Nat /\ record <= stableCoin.balances[Pool]
      /\ SumFunction(stableCoin.balances) <= MaxUint
  BY ManagerFacts, BalanceType, UintIsNat
     DEF StorageOK, Records, Books, LoanIsRepaid
<1> HIDE DEF record
<1>1. CanMove(stableCoin, Pool, Manager, record)
  BY <1>0, MoveSucceeds
<1>2. coin \in TokenState /\ SumFunction(coin.balances) <= MaxUint
  BY <1>0, <1>1, MoveType, MoveTotal
<1>3. coin.balances[Manager] = stableCoin.balances[Manager] + record
  BY <1>0, <1>1, MoveEffect
<1>4. QED
  BY <1>0, <1>1, <1>2, <1>3 DEF CanEarlyWithdraw, EarlyWithdrawCoin, record

\* fulfillState reverts for want of money only: as long as the loan is there and
\* repaid, and the interest is not so high that a token pays more than its
\* price, no `require' on its way (Manager.sol:156-178, test88MPH.sol:46-52)
\* stops an answer that the Manager awaits, in any state of the tokens.
THEOREM ManagerAnswersGoThrough == Spec => []AnswersGoThrough
<1>1. BooksInv /\ CL!TypeOK => AnswersGoThrough
  <2> SUFFICES ASSUME StorageOK, Books, CL!TypeOK, LoanIsRepaid,
                      NEW r \in pendingRequests, NEW answer \in {1, 2},
                      state # answer
               PROVE  CanFulfill(r, answer)
    BY DEF BooksInv, AnswersGoThrough
  <2> DEFINE coin == EarlyWithdrawCoin(stableCoin, deposit_records, Manager)
             held == coin.balances[Manager]
             interest == Interest(coin)
             multiplier == Multiplier(coin)
  <2>1. /\ CanEarlyWithdraw(stableCoin, deposit_records, Manager)
        /\ coin \in TokenState
        /\ held = stableCoin.balances[Manager] + deposit_records[Manager]
        /\ SumFunction(coin.balances) <= MaxUint
    BY RepaidCoin
  <2>2. /\ tokensSold \in Nat /\ tokenPrice \in Nat /\ tokenPrice \in Uint
        /\ Principal = tokenPrice * tokensSold /\ Principal \in Nat
    BY BooksOfFund, ValueAssumption
  <2>3. held \in Uint /\ held \in Nat /\ interest = held - Principal
    BY <2>1, ManagerFacts, BalanceType DEF Interest
  <2>4. /\ Principal <= held /\ interest * 100 \in Uint
        /\ interest * 100 < 2 * held
    BY <2>1, <2>3 DEF LoanIsRepaid
  <2> HIDE DEF coin, held, interest
  <2>5. interest \in Nat /\ interest \in Uint /\ held > 0
    <3>1. interest \in Nat
      BY <2>2, <2>3, <2>4
    <3>2. interest <= held
      BY <2>2, <2>3
    <3>3. QED
      BY <2>3, <2>4, <3>1, <3>2, MaxUintAssumption DEF Uint
  <2>6. MulOK(interest, 100)
    <3>1. CASE interest = 0
      BY <3>1 DEF MulOK
    <3>2. CASE interest # 0
      <4>1. 100 <= interest * 100
        BY <2>5, <3>2
      <4>2. 100 \in Uint
        BY <2>4, <4>1, MaxUintAssumption DEF Uint
      <4>3. QED
        BY <2>4, <2>5, <4>2, MulExact
    <3>3. QED
      BY <3>1, <3>2
  <2>7. MulOK(AtokenContract.totalSupply, tokenPrice)
    <3>1. AtokenContract.totalSupply \in Uint
      BY DEF StorageOK, TokenState
    <3>2. AtokenContract.totalSupply * tokenPrice \in Uint
      BY <2>2, <2>3, <2>4, MaxUintAssumption DEF Principal, Uint
    <3>3. QED
      BY <2>2, <3>1, <3>2, MulExact
  <2>8. CanSettle
    <3>1. SubOK(held, Principal) /\ DivOK(interest * 100, held)
      BY <2>4, <2>5 DEF SubOK, DivOK
    <3>2. QED
      BY <2>1, <2>6, <2>7, <3>1 DEF CanSettle, coin, held, interest
  <2>9. multiplier \in Uint /\ multiplier <= 1
    <3>1. multiplier = (interest * 100) \div held
      BY DEF Multiplier, multiplier, interest, held
    <3>2. PICK n \in Nat : n = interest * 100 /\ n < 2 * held
      BY <2>4, <2>5
    <3>3. n \div held \in Nat /\ n \div held <= 1
      BY <2>3, <2>5, <3>2
    <3>4. QED
      BY <3>1, <3>2, <3>3, MaxUintAssumption DEF Uint
  <2> HIDE DEF multiplier
  <2>10. Payee(r) \in Payees
    BY DEF CL!TypeOK, StorageOK, Payee
  <2>11. tokenPrice * Winner(answer).balances[Payee(r)] <= held
    <3> DEFINE tokens == Winner(answer).balances[Payee(r)]
    <3>1. tokens \in Nat /\ tokens <= tokensSold
      <4>1. Payee(r) \in Address
        BY <2>10, ManagerFacts
      <4>2. Winner(answer) \in TokenState /\ BookOf(Winner(answer))
        BY DEF StorageOK, Books, Winner
      <4>3. QED
        BY <4>1, <4>2, BalanceType, TotalCovers DEF BookOf
    <3> HIDE DEF tokens
    <3>2. PICK more \in Nat : tokensSold = tokens + more
      BY <2>2, <3>1, Excess
    <3>3. tokenPrice * (tokens + more)
            = tokenPrice * tokens + tokenPrice * more
          /\ tokenPrice * tokens \in Nat /\ tokenPrice * more \in Nat
      BY <2>2, <3>1, <3>2, PriceDistributes
    <3>4. tokenPrice * tokens <= Principal
      BY <2>2, <3>2, <3>3
    <3>5. tokenPrice * tokens <= held
      BY <2>2, <2>3, <2>4, <3>3, <3>4
    <3>6. QED
      BY <3>5 DEF tokens
  <2>12. CanRedeem(coin, answer, multiplier, Payee(r))
    <3>1. tokenPrice * Winner(answer).balances[Payee(r)] <= coin.balances[Manager]
      BY <2>11 DEF held
    <3>2. QED
      BY <2>1, <2>9, <2>10, <3>1, RedeemSucceeds
  <2>13. /\ Settlement(answer).coin = coin
         /\ Settlement(answer).multiplier = multiplier
    BY DEF Settlement, coin, multiplier
  <2>14. QED
    BY <2>8, <2>12, <2>13 DEF CanFulfill
<1>2. QED
  BY <1>1, ManagerBooksInv, RequestsTypeOK, PTL
-----------------------------------------------------------------------------
\* A purchase on an active contract passes every `require' on its way
\* (Manager.sol:56-64) if the buyer has the coins and has approved the cost,
\* exactly: no balance overflows, and the Manager may mint.
LEMMA BuySucceeds ==
  ASSUME StorageOK, Books, state = 0, NEW user \in Users, NEW n \in Uint,
         tokensSold + n <= MaxSold, MulOK(n, tokenPrice),
         stableCoin.allowed[user][Manager] = n * tokenPrice,
         stableCoin.balances[user] >= n * tokenPrice
  PROVE  CanBuy(user, n)
<1>1. PICK cost \in Uint : cost = n * tokenPrice
  BY MulExact, ValueAssumption
<1>2. /\ user \in Address /\ Manager \in Address /\ user # Manager
      /\ cost \in Nat /\ n \in Nat
  BY ManagerFacts, UintIsNat DEF Payees
<1>3. stableCoin \in TokenState /\ SumFunction(stableCoin.balances) <= MaxUint
  BY DEF StorageOK, Books
<1>4. CanMove(stableCoin, user, Manager, cost)
  BY <1>1, <1>2, <1>3, MoveSucceeds
<1>5. CanMoveFrom(stableCoin, Manager, user, Manager, cost)
  BY <1>1, <1>2, <1>4 DEF CanMoveFrom
<1>6. ASSUME NEW t \in TokenState, BookOf(t)
      PROVE  CanMint(t, Manager, user, n)
  <2>1. /\ t.balances[user] \in Uint /\ t.balances[user] \in Nat
        /\ t.balances[user] <= tokensSold
    BY <1>2, <1>6, BalanceType, TotalCovers DEF BookOf
  <2>2. MaxSold <= MaxUint /\ MaxSold \in Nat /\ tokensSold \in Nat
    BY ValueAssumption, MaxUintAssumption, UintIsNat DEF StorageOK, Uint
  <2>3. t.balances[user] + n \in Uint
    BY <1>2, <2>1, <2>2, MaxUintAssumption DEF Uint
  <2>4. AddOK(t.balances[user], n)
    BY <2>1, <2>3, AddExact
  <2>5. QED
    BY <1>6, <2>4 DEF CanMint, BookOf
<1>7. QED
  BY <1>1, <1>5, <1>6 DEF CanBuy, StorageOK, Books
-----------------------------------------------------------------------------
\* Coins leave the Manager and the pool only against winning tokens that go to
\* the Manager and never come back (Manager.sol:121-123).
THEOREM ManagerPayoutsRetireTokens == Spec => PayoutsRetireTokens
<1> DEFINE P == /\ Redeemed' >= Redeemed
                /\ Held' < Held =>
                     Held - Held' = tokenPrice * interestMultiplier'
                                      * (Redeemed' - Redeemed)
<1>1. StorageOK /\ [Next]_vars => P
  <2> SUFFICES ASSUME StorageOK, [Next]_vars PROVE P
    OBVIOUS
  <2>1. StorageOK' /\ FundsStep
    BY ManagerStep
  <2>2. PICK n \in Nat : Sale(n) \/ Redemption(n)
    BY <2>1 DEF FundsStep
  <2>3. /\ Held \in Nat /\ Redeemed \in Nat
        /\ tokenPrice \in Nat /\ interestMultiplier' \in Nat
    BY <2>1, FundsType, UintIsNat, ValueAssumption DEF StorageOK
  <2>4. CASE Sale(n)
    <3>1. n * tokenPrice \in Nat
      BY <2>3
    <3>2. QED
      BY <2>3, <2>4, <3>1 DEF Sale
  <2>5. CASE Redemption(n)
    <3>1. PICK paid \in Nat : paid = n * tokenPrice * interestMultiplier'
      BY <2>3, PriceCovers
    <3>2. Held' = Held - paid /\ Redeemed' = Redeemed + n
      BY <2>5, <3>1 DEF Redemption
    <3>3. Redeemed' - Redeemed = n /\ Held - Held' = paid
      BY <2>3, <3>1, <3>2
    <3>4. paid = tokenPrice * interestMultiplier' * n
      BY <2>3, <3>1
    <3>5. Held - Held' = tokenPrice * interestMultiplier'
                           * (Redeemed' - Redeemed)
      BY <3>3, <3>4, Zenon
    <3>6. Redeemed' >= Redeemed
      BY <2>3, <3>2
    <3>7. QED
      BY <3>5, <3>6, Zenon
  <2>6. QED
    BY <2>2, <2>4, <2>5
<1>2. QED
  BY <1>1, ManagerStorageOK, PTL DEF Spec, PayoutsRetireTokens
-----------------------------------------------------------------------------
\* A step that ends a request settles an answer to it, or moves no coin, no
\* token and no outcome.
LEMMA RequestsEnd ==
  ASSUME CL!TypeOK, [Next]_vars, NEW r \in CL!Requests,
         commitments[r] # CL!None, commitments'[r] = CL!None
  PROVE  \/ UNCHANGED <<stableCoin, AtokenContract, BtokenContract, state>>
         \/ \E answer \in Answers : fulfillState(oracle_owner, r, answer)
<1>1. commitments' # commitments
  OBVIOUS
<1>2. ASSUME NEW q \in CL!Requests, Fulfil(q)
      PROVE  \/ UNCHANGED <<stableCoin, AtokenContract, BtokenContract, state>>
             \/ \E answer \in Answers : fulfillState(oracle_owner, r, answer)
  <2>1. PICK answer \in Answers : \/ fulfillState(oracle_owner, q, answer)
                                  \/ fulfillStateReverted(oracle_owner, q, answer)
    BY <1>2 DEF Fulfil
  <2>2. CASE fulfillState(oracle_owner, q, answer)
    <3>1. commitments' = [commitments EXCEPT ![q] = CL!None]
      BY <2>2 DEF fulfillState, CL!Answered, CL!fulfillOracleRequest
    <3>2. q = r
      BY <3>1 DEF CL!TypeOK
    <3>3. QED
      BY <2>2, <3>2
  <2>3. CASE fulfillStateReverted(oracle_owner, q, answer)
    BY <2>3 DEF fulfillStateReverted, coinVars, tokenVars
  <2>4. QED
    BY <2>1, <2>2, <2>3
<1>3. CASE requestState \/ (\E user \in Users : redeemLater(user)) \/ Elsewhere
  BY <1>3 DEF requestState, redeemLater, Elsewhere, coinVars, tokenVars
<1>4. CASE \E q, sender : cancelRequest(sender, q)
  BY <1>4 DEF cancelRequest, coinVars, tokenVars
<1>5. QED
  BY <1>1, <1>2, <1>3, <1>4
     DEF Next, approve, buyTokens, trade, redeem, redeemNow, trigger_active,
         trigger_triggered, trigger_timeout, trigger, admin88mphDeposit,
         admin88mphWithdraw, transferOwnership, vars, linkVars

\* In whatever order answers arrive, each touches only the coins and tokens of
\* the user who asked for it (redeem_book, Manager.sol:106 and :177).
THEOREM ManagerAnswersPayTheirRequester == Spec => AnswersPayTheirRequester
<1> DEFINE P(r, user) ==
      /\ stableCoin'.balances[user]     = stableCoin.balances[user]
      /\ AtokenContract'.balances[user] = AtokenContract.balances[user]
      /\ BtokenContract'.balances[user] = BtokenContract.balances[user]
<1>1. StorageOK /\ CL!TypeOK /\ [Next]_vars =>
        \A r \in CL!Requests :
          commitments[r] # CL!None /\ commitments'[r] = CL!None =>
            \A user \in Users \ {redeem_book[r]} : P(r, user)
  <2> SUFFICES ASSUME StorageOK, CL!TypeOK, [Next]_vars,
                      NEW r \in CL!Requests,
                      commitments[r] # CL!None, commitments'[r] = CL!None,
                      NEW user \in Users \ {redeem_book[r]}
               PROVE  P(r, user)
    OBVIOUS
  <2>1. CASE UNCHANGED <<stableCoin, AtokenContract, BtokenContract, state>>
    BY <2>1
  <2>2. ASSUME NEW answer \in Answers, fulfillState(oracle_owner, r, answer)
        PROVE  P(r, user)
    <3>1. PICK coin \in TokenState :
            /\ \A a \in Users : coin.balances[a] = stableCoin.balances[a]
            /\ RedemptionEffect(coin, interestMultiplier', Payee(r))
      BY <2>2, FulfilStep
    <3>2. user \in Users \ {Payee(r)}
      BY DEF Payee
    <3>3. /\ coin.balances[user] = stableCoin.balances[user]
          /\ stableCoin'.balances[user] = coin.balances[user]
      BY <3>1, <3>2 DEF RedemptionEffect
    <3>4. \A X \in {<<AtokenContract', AtokenContract>>,
                    <<BtokenContract', BtokenContract>>} :
            X[1].balances[user] = X[2].balances[user]
      BY <3>1, <3>2 DEF RedemptionEffect
    <3>5. QED
      BY <3>3, <3>4
  <2>3. QED
    BY <2>1, <2>2, RequestsEnd
<1>2. QED
  BY <1>1, ManagerStorageOK, RequestsTypeOK, PTL
     DEF Spec, AnswersPayTheirRequester

\* Answers never reopen the contract and change its outcome only by collecting
\* a loan (Manager.sol:163-167), so that one loan is settled once.
THEOREM ManagerSettlingCollectsTheLoan == Spec => SettlingCollectsTheLoan
<1>1. StorageOK /\ CL!TypeOK /\ [Next]_vars =>
        \A r \in CL!Requests :
          /\ commitments[r] # CL!None /\ commitments'[r] = CL!None
          /\ state' # state
          => /\ state' \in {1, 2}
             /\ deposit_records[Manager] > 0
             /\ deposit_records'[Manager] = 0
  <2> SUFFICES ASSUME StorageOK, CL!TypeOK, [Next]_vars,
                      NEW r \in CL!Requests,
                      commitments[r] # CL!None, commitments'[r] = CL!None,
                      state' # state
               PROVE  /\ state' \in {1, 2}
                      /\ deposit_records[Manager] > 0
                      /\ deposit_records'[Manager] = 0
    OBVIOUS
  <2>1. PICK answer \in Answers : fulfillState(oracle_owner, r, answer)
    BY RequestsEnd
  <2>2. /\ state' = answer
        /\ state = answer \/ CanSettle
        /\ deposit_records' = Settlement(answer).records
        /\ redeemExecute(Settlement(answer).coin, answer,
                         Settlement(answer).multiplier, Payee(r))
    BY <2>1 DEF fulfillState, CanFulfill
  <2>3. answer \in {1, 2}
    BY <2>2 DEF redeemExecute, CanRedeem
  <2>4. /\ deposit_records[Manager] > 0
        /\ Settlement(answer).records[Manager] = 0
    BY <2>2, SettlementIsCovered
  <2>5. QED
    BY <2>2, <2>3, <2>4
<1>2. QED
  BY <1>1, ManagerStorageOK, RequestsTypeOK, PTL
     DEF Spec, SettlingCollectsTheLoan
=============================================================================
