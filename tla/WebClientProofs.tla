--------------------------- MODULE WebClientProofs ---------------------------
(***************************************************************************)
(* What the page of App.js guarantees, however clicks, callbacks,          *)
(* transactions and reloads interleave and for any number of clicks.  What *)
(* the page sends runs the Manager, so that what is proved of the Manager  *)
(* holds behind the page.                                                  *)
(***************************************************************************)
EXTENDS WebClient, FiniteSetTheorems, TLAPS

\* The theorems about the Manager
MP == INSTANCE ManagerProofs

\* The Manager of the theorems is the Manager of the page: the two instances
\* have the same definitions,
LEMMA SameManager ==
  /\ M!Init => MP!Init
  /\ [M!Next]_(M!vars) => [MP!Next]_(MP!vars)
BY Zenon
   DEF M!Uint, MP!Uint, M!Wrap, MP!Wrap, M!AddOK, MP!AddOK, M!SubOK,
         MP!SubOK, M!MulOK, MP!MulOK, M!DivOK, MP!DivOK, M!TokenState,
         MP!TokenState, M!Deployed, MP!Deployed, M!Debited, MP!Debited,
         M!CanMove, MP!CanMove, M!Move, MP!Move, M!CanMoveFrom,
         MP!CanMoveFrom, M!MoveFrom, MP!MoveFrom, M!CanAdminMove,
         MP!CanAdminMove, M!Approve, MP!Approve, M!CanMint, MP!CanMint,
         M!Mint, MP!Mint, M!HandOver, MP!HandOver, M!Records, MP!Records,
         M!CanDeposit, MP!CanDeposit, M!DepositCoin, MP!DepositCoin,
         M!DepositRecord, MP!DepositRecord, M!Matured, MP!Matured,
         M!CanWithdraw, MP!CanWithdraw, M!WithdrawCoin, MP!WithdrawCoin,
         M!CanEarlyWithdraw, MP!CanEarlyWithdraw, M!EarlyWithdrawCoin,
         MP!EarlyWithdrawCoin, M!Cleared, MP!Cleared, M!linkVars,
         MP!linkVars, M!coinVars, MP!coinVars, M!tokenVars, MP!tokenVars,
         M!interestVars, MP!interestVars, M!vars, MP!vars, M!Init, MP!Init,
         M!approve, MP!approve, M!CanBuy, MP!CanBuy, M!buyTokens,
         MP!buyTokens, M!trade, MP!trade, M!Winner, MP!Winner, M!Payout,
         MP!Payout, M!CanRedeem, MP!CanRedeem, M!Retired, MP!Retired,
         M!redeemExecute, MP!redeemExecute, M!requestState,
         MP!requestState, M!redeemLater, MP!redeemLater, M!redeemNow,
         MP!redeemNow, M!redeem, MP!redeem, M!Principal, MP!Principal,
         M!Interest, MP!Interest, M!Multiplier, MP!Multiplier, M!CanSettle,
         MP!CanSettle, M!Settlement, MP!Settlement, M!Payee, MP!Payee,
         M!CanFulfill, MP!CanFulfill, M!fulfillState, MP!fulfillState,
         M!fulfillStateReverted, MP!fulfillStateReverted, M!Fulfil,
         MP!Fulfil, M!trigger, MP!trigger, M!trigger_active,
         MP!trigger_active, M!trigger_triggered, MP!trigger_triggered,
         M!trigger_timeout, MP!trigger_timeout, M!admin88mphDeposit,
         MP!admin88mphDeposit, M!admin88mphWithdraw, MP!admin88mphWithdraw,
         M!cancelRequest, MP!cancelRequest, M!transferOwnership,
         MP!transferOwnership, M!Elsewhere, MP!Elsewhere, M!Next, MP!Next,
         M!CL!Accounts, MP!CL!Accounts, M!CL!clientVars, MP!CL!clientVars,
         M!CL!oracleVars, MP!CL!oracleVars, M!CL!rightsVars,
         MP!CL!rightsVars, M!CL!vars, MP!CL!vars, M!CL!Requests,
         MP!CL!Requests, M!CL!None, MP!CL!None,
         M!CL!OneForConsistentGasCost, MP!CL!OneForConsistentGasCost,
         M!CL!Init, MP!CL!Init, M!CL!LinkMoves, MP!CL!LinkMoves,
         M!CL!oracleRequest, MP!CL!oracleRequest, M!CL!transferAndCall,
         MP!CL!transferAndCall, M!CL!sendChainlinkRequestTo,
         MP!CL!sendChainlinkRequestTo, M!CL!fulfillOracleRequest,
         MP!CL!fulfillOracleRequest, M!CL!recordChainlinkFulfillment,
         MP!CL!recordChainlinkFulfillment, M!CL!Answered, MP!CL!Answered,
         M!CL!CallbackReverted, MP!CL!CallbackReverted,
         M!CL!cancelOracleRequest, MP!CL!cancelOracleRequest,
         M!CL!cancelChainlinkRequest, MP!CL!cancelChainlinkRequest,
         M!CL!withdraw, MP!CL!withdraw, M!CL!linkTransfer,
         MP!CL!linkTransfer, M!CL!Tick, MP!CL!Tick

\* the same types
LEMMA SameTypes == MP!TypeOK => M!TypeOK
BY Zenon
   DEF M!TypeOK, MP!TypeOK, M!TokenState, MP!TokenState, M!Uint, MP!Uint,
       M!Records, MP!Records, M!CL!TypeOK, MP!CL!TypeOK, M!CL!Requests,
       MP!CL!Requests, M!CL!Accounts, MP!CL!Accounts

\* and the same assumptions.
LEMMA SameAssumptions ==
  /\ MP!MaxUintAssumption /\ MP!FiniteAssumption /\ MP!PoolAssumption
  /\ MP!ManagerAssumption /\ MP!ValueAssumption /\ MP!ChainlinkAssumption
<1>1. MP!FiniteAssumption
  BY ManagerAssumptions DEF M!IsFiniteSet, MP!IsFiniteSet
<1>2. MP!ChainlinkAssumption
  BY ManagerAssumptions
     DEF M!CL!AddressAssumption, MP!CL!AddressAssumption,
         M!CL!LinkAssumption, MP!CL!LinkAssumption, M!CL!TimeAssumption,
         MP!CL!TimeAssumption, M!CL!Accounts, MP!CL!Accounts,
         M!CL!IsFiniteSet, MP!CL!IsFiniteSet
<1>3. MP!ManagerAssumption /\ MP!ValueAssumption
  <2>1. M!ManagerAssumption /\ M!ValueAssumption
          => MP!ManagerAssumption /\ MP!ValueAssumption
    BY Zenon
       DEF M!Uint, MP!Uint, M!TokenState, MP!TokenState, M!SumFunction,
           MP!SumFunction, M!SumFunctionOnSet, MP!SumFunctionOnSet,
           M!FoldFunctionOnSet, MP!FoldFunctionOnSet, M!MapThenFoldSet,
           MP!MapThenFoldSet
  <2>2. QED
    BY <2>1, ManagerAssumptions
<1>4. QED
  BY <1>1, <1>2, <1>3, ManagerAssumptions

\* The accounts that matter differ.
LEMMA UserFacts ==
  /\ User \in Address /\ Manager \in Address /\ Pool \in Address
  /\ User \in Users /\ User # Manager /\ User # Pool /\ User # Zero
BY ManagerAssumptions, WebClientAssumption

\* A uint is a number.
LEMMA UintIsNumber == \A n \in M!Uint : n \in Nat
BY ManagerAssumptions DEF M!Uint
-----------------------------------------------------------------------------
\* The Manager's next-state relation sells at most MaxSold tokens; the
\* purchases that the page can still send leave room for that bound.

\* The most that one purchase may be
Most ==
  CHOOSE most \in BuyAmounts \cup {0} :
    /\ \A n \in BuyAmounts : n <= most
    /\ Cardinality(Purchases) * most <= MaxSold

LEMMA MostFacts ==
  /\ Most \in Nat
  /\ \A n \in BuyAmounts : n <= Most /\ n \in Nat /\ n \in M!Uint
  /\ Cardinality(Purchases) * Most <= MaxSold
  /\ MaxSold \in Nat /\ tokenPrice \in Nat /\ tokenPrice \in M!Uint
<1>1. /\ Most \in BuyAmounts \cup {0}
      /\ \A n \in BuyAmounts : n <= Most
      /\ Cardinality(Purchases) * Most <= MaxSold
  BY WebClientAssumption DEF Most
<1>2. BuyAmounts \subseteq M!Uint /\ {MaxSold, tokenPrice} \subseteq M!Uint
  BY ManagerAssumptions
<1>3. QED
  BY <1>1, <1>2, UintIsNumber

Stages == {"idle", "approving", "abandoned", "buying", "redeeming", "receipt",
           "read", "done", "reverted", "declined"}

\* The purchases whose tokens have not been sold
ToSell == {p \in Purchases : stage[p] \in {"idle", "approving", "buying"}}

StagesOK ==
  /\ stage \in [Clicks -> Stages]
  /\ numberTokens \in [Purchases -> BuyAmounts \cup {0}]
  /\ \A p \in Purchases :
       stage[p] \in {"approving", "buying"} => numberTokens[p] \in BuyAmounts
  /\ tokensSold \in Nat
  /\ tokensSold + Cardinality(ToSell) * Most <= MaxSold

\* There is room as long as no purchase comes back to be sold.
LEMMA RoomStays ==
  ASSUME StagesOK, ToSell' \subseteq ToSell, tokensSold' = tokensSold
  PROVE  tokensSold' + Cardinality(ToSell') * Most <= MaxSold
<1>1. IsFiniteSet(ToSell) /\ IsFiniteSet(ToSell')
  BY WebClientAssumption, FS_Subset DEF ToSell
<1>2. PICK c \in Nat, d \in Nat : /\ c = Cardinality(ToSell)
                                  /\ d = Cardinality(ToSell')
                                  /\ d <= c
  BY <1>1, FS_Subset, FS_CardinalityType
<1>3. d * Most <= c * Most /\ d * Most \in Nat /\ c * Most \in Nat
  BY <1>2, MostFacts
<1>4. tokensSold \in Nat /\ tokensSold + c * Most <= MaxSold
  BY <1>2 DEF StagesOK
<1>5. tokensSold + d * Most <= MaxSold
  BY <1>3, <1>4, MostFacts
<1>6. QED
  BY <1>2, <1>5

\* So does one that is sold, and it fits.
LEMMA RoomToSell ==
  ASSUME StagesOK, NEW p \in Purchases, p \in ToSell, NEW n \in BuyAmounts
  PROVE  /\ tokensSold + n <= MaxSold
         /\ ToSell' \subseteq ToSell \ {p} /\ tokensSold' = tokensSold + n =>
              tokensSold' + Cardinality(ToSell') * Most <= MaxSold
<1>1. /\ IsFiniteSet(ToSell) /\ IsFiniteSet(ToSell \ {p})
      /\ \A T : T \subseteq ToSell \ {p} => IsFiniteSet(T)
  BY WebClientAssumption, FS_Subset DEF ToSell
<1>2. PICK c \in Nat : /\ Cardinality(ToSell) = c + 1
                       /\ Cardinality(ToSell \ {p}) = c
  BY <1>1, FS_RemoveElement, FS_CardinalityType
<1>3. PICK m \in Nat : m = c * Most
  BY <1>2, MostFacts
<1>4. (c + 1) * Most = m + Most
  BY <1>2, <1>3, MostFacts
<1>5. tokensSold \in Nat /\ tokensSold + (m + Most) <= MaxSold
  BY <1>2, <1>4 DEF StagesOK
<1>6. n \in Nat /\ n <= Most
  BY MostFacts
<1>7. ASSUME ToSell' \subseteq ToSell \ {p}, tokensSold' = tokensSold + n
      PROVE  tokensSold' + Cardinality(ToSell') * Most <= MaxSold
  <2>1. PICK d \in Nat : d = Cardinality(ToSell') /\ d <= c
    BY <1>1, <1>2, <1>7, FS_Subset, FS_CardinalityType
  <2>2. PICK k \in Nat : k = d * Most /\ k <= m
    BY <1>3, <2>1, MostFacts
  <2>3. tokensSold' + k <= MaxSold
    BY <1>3, <1>5, <1>6, <1>7, <2>2, MostFacts
  <2>4. QED
    BY <2>1, <2>2, <2>3
<1>8. QED
  BY <1>5, <1>6, <1>7, <1>3, MostFacts

\* A purchase adds to the tokens sold what was typed for it, without wrapping.
LEMMA SaleAdds ==
  ASSUME StagesOK, NEW p \in Purchases, p \in ToSell,
         numberTokens[p] \in BuyAmounts, M!buyTokens(User, numberTokens[p])
  PROVE  tokensSold' = tokensSold + numberTokens[p]
<1>1. tokensSold' = M!Wrap(tokensSold + numberTokens[p])
  BY DEF M!buyTokens
<1>2. tokensSold + numberTokens[p] <= MaxSold
  BY RoomToSell
<1>3. MaxSold <= MaxUint /\ MaxUint \in Nat
  BY ManagerAssumptions DEF M!Uint
<1>4. tokensSold + numberTokens[p] \in MP!Uint
  BY <1>2, <1>3, MostFacts DEF StagesOK, MP!Uint
<1>5. MP!Wrap(tokensSold + numberTokens[p]) = tokensSold + numberTokens[p]
  BY <1>4, SameAssumptions, MP!WrapUint
<1>6. QED
  BY <1>1, <1>5 DEF M!Wrap, MP!Wrap

\* A click that goes on keeps the types and the room, unless it sells.
LEMMA StageMoves ==
  ASSUME StagesOK, NEW c \in Clicks, NEW next \in Stages \ {"idle", "approving"},
         next = "buying" => stage[c] = "approving",
         stage' = [stage EXCEPT ![c] = next], numberTokens' = numberTokens,
         tokensSold' = tokensSold
  PROVE  StagesOK'
<1>1. ToSell' \subseteq ToSell
  BY DEF ToSell, StagesOK, Clicks
<1>2. tokensSold' + Cardinality(ToSell') * Most <= MaxSold
  BY <1>1, RoomStays
<1>3. QED
  BY <1>2 DEF StagesOK, Clicks

\* So does a step that leaves the clicks alone.
LEMMA StagesStay ==
  ASSUME StagesOK, UNCHANGED <<stage, numberTokens, tokensSold>>
  PROVE  StagesOK'
<1>1. ToSell' = ToSell
  BY DEF ToSell
<1>2. QED
  BY <1>1, RoomStays DEF StagesOK

\* A step of the page itself is none of the Manager's.
LEMMA ChainStays ==
  ASSUME UNCHANGED chainVars
  PROVE  UNCHANGED M!vars /\ UNCHANGED tokensSold
BY DEF chainVars, M!vars, M!coinVars, M!tokenVars, M!interestVars, M!linkVars

\* Whatever the page does, and the node and the admin, is a step of the
\* Manager or none.
LEMMA PageStep ==
  ASSUME StagesOK, [Next]_vars
  PROVE  StagesOK' /\ [M!Next]_(M!vars)
<1>1. CASE UNCHANGED <<chainVars, clickVars>>
  BY <1>1, ChainStays, StagesStay DEF clickVars
<1>2. CASE reload
  <2>1. UNCHANGED M!vars /\ UNCHANGED <<tokensSold, numberTokens>>
    BY <1>2, ChainStays DEF reload
  <2>2. stage' = [c \in Clicks |-> IF stage[c] \in {"receipt", "read"}
                                   THEN "done" ELSE stage[c]]
    BY <1>2 DEF reload
  <2>3. ToSell' \subseteq ToSell
    BY <2>2 DEF ToSell, Clicks
  <2>4. tokensSold' + Cardinality(ToSell') * Most <= MaxSold
    BY <2>1, <2>3, RoomStays
  <2>5. stage' \in [Clicks -> Stages]
    BY <2>2 DEF StagesOK, Stages
  <2>6. QED
    BY <2>1, <2>2, <2>4, <2>5 DEF StagesOK, Clicks
<1>3. ASSUME NEW p \in Purchases, NEW n \in BuyAmounts, buyTokens(p, n)
      PROVE  StagesOK' /\ [M!Next]_(M!vars)
  <2>1. UNCHANGED M!vars /\ UNCHANGED tokensSold
    BY <1>3, ChainStays DEF buyTokens, Started
  <2>2. /\ stage[p] = "idle"
        /\ stage' = [stage EXCEPT ![p] = "approving"]
        /\ numberTokens' = [numberTokens EXCEPT ![p] = n]
    BY <1>3 DEF buyTokens, Started
  <2>3. ToSell' \subseteq ToSell
    BY <2>2 DEF ToSell, StagesOK, Clicks
  <2>4. tokensSold' + Cardinality(ToSell') * Most <= MaxSold
    BY <2>1, <2>3, RoomStays
  <2>5. stage' \in [Clicks -> Stages]
    BY <2>2 DEF StagesOK, Stages
  <2>6. QED
    BY <2>1, <2>2, <2>4, <2>5 DEF StagesOK, Clicks
<1>4. ASSUME NEW p \in Purchases, approved(p)
      PROVE  StagesOK' /\ [M!Next]_(M!vars)
  <2>1. /\ stage[p] = "approving" /\ p \in ToSell
        /\ numberTokens[p] \in BuyAmounts
        /\ M!approve(User, numberTokens[p])
    BY <1>4 DEF approved, StagesOK, ToSell
  <2>2. M!Next
    BY <2>1, UserFacts, RoomToSell DEF M!Next
  <2>3. \E next \in {"buying", "abandoned"} : Went(p, next)
    BY <1>4 DEF approved
  <2>4. UNCHANGED tokensSold
    BY <2>1 DEF M!approve, M!tokenVars
  <2>5. StagesOK'
    BY <2>1, <2>3, <2>4, StageMoves DEF Went, Stages, Clicks
  <2>6. QED
    BY <2>2, <2>5
<1>5. ASSUME NEW p \in Purchases, bought(p)
      PROVE  StagesOK' /\ [M!Next]_(M!vars)
  <2>1. /\ stage[p] = "buying" /\ p \in ToSell
        /\ numberTokens[p] \in BuyAmounts
        /\ M!buyTokens(User, numberTokens[p])
    BY <1>5 DEF bought, StagesOK, ToSell
  <2>2. M!Next
    BY <2>1, UserFacts, RoomToSell DEF M!Next
  <2>3. PICK next \in {"receipt", "done"} :
          /\ stage' = [stage EXCEPT ![p] = next]
          /\ numberTokens' = numberTokens
    BY <1>5 DEF bought, Received, Went
  <2>4. tokensSold' = tokensSold + numberTokens[p]
    BY <2>1, SaleAdds
  <2>5. ToSell' \subseteq ToSell \ {p}
    BY <2>3 DEF ToSell, StagesOK, Clicks
  <2>6. tokensSold' + Cardinality(ToSell') * Most <= MaxSold
    BY <2>1, <2>4, <2>5, RoomToSell
  <2>7. tokensSold' \in Nat
    BY <2>1, <2>4, MostFacts DEF StagesOK
  <2>8. stage' \in [Clicks -> Stages]
    BY <2>3 DEF StagesOK, Stages
  <2>9. QED
    BY <2>2, <2>3, <2>6, <2>7, <2>8 DEF StagesOK, Clicks
<1>6. ASSUME NEW c \in Redemptions, redeemTokens(c)
      PROVE  StagesOK' /\ [M!Next]_(M!vars)
  <2>1. UNCHANGED M!vars /\ UNCHANGED tokensSold
    BY <1>6, ChainStays DEF redeemTokens, Started
  <2>2. StagesOK'
    BY <1>6, <2>1, StageMoves DEF redeemTokens, Started, Stages, Clicks
  <2>3. QED
    BY <2>1, <2>2
<1>7. ASSUME NEW c \in Redemptions, redeemed(c)
      PROVE  StagesOK' /\ [M!Next]_(M!vars)
  <2>1. M!redeem(User) /\ M!Next
    BY <1>7, UserFacts DEF redeemed, M!Next
  <2>2. UNCHANGED tokensSold
    BY <2>1 DEF M!redeem, M!redeemLater, M!redeemNow, M!tokenVars
  <2>3. \E next \in {"receipt", "done"} : Went(c, next)
    BY <1>7 DEF redeemed, Received
  <2>4. StagesOK'
    BY <2>2, <2>3, StageMoves DEF Went, Stages, Clicks
  <2>5. QED
    BY <2>1, <2>4
<1>8. ASSUME NEW c \in Clicks,
             reverted(c) \/ declined(c) \/ balanceRead(c) \/ setState(c)
      PROVE  StagesOK' /\ [M!Next]_(M!vars)
  <2>1. UNCHANGED chainVars /\ numberTokens' = numberTokens
    BY <1>8 DEF reverted, declined, balanceRead, setState, Went
  <2>2. \E next \in {"reverted", "declined", "read", "done"} :
          stage' = [stage EXCEPT ![c] = next]
    BY <1>8 DEF reverted, declined, balanceRead, setState, Went
  <2>3. StagesOK'
    BY <2>1, <2>2, ChainStays, StageMoves DEF Stages
  <2>4. QED
    BY <2>1, <2>3, ChainStays
<1>9. ASSUME NEW r \in M!CL!Requests, Answer(r)
      PROVE  StagesOK' /\ [M!Next]_(M!vars)
  <2>1. M!Fulfil(r) /\ M!Next
    BY <1>9 DEF Answer, M!Next
  <2>2. UNCHANGED tokensSold
    BY <2>1 DEF M!Fulfil, M!fulfillState, M!fulfillStateReverted, M!tokenVars
  <2>3. QED
    BY <1>9, <2>1, <2>2, StagesStay DEF Answer, clickVars
<1>10. CASE Elsewhere
  <2>1. M!Next
    BY <1>10 DEF Elsewhere, M!Next
  <2>2. UNCHANGED <<tokensSold, clickVars>>
    BY <1>10 DEF Elsewhere, M!trigger_active, M!trigger_triggered,
                 M!trigger_timeout, M!trigger, M!tokenVars
  <2>3. QED
    BY <2>1, <2>2, StagesStay DEF clickVars
<1>11. QED
  BY <1>1, <1>2, <1>3, <1>4, <1>5, <1>6, <1>7, <1>8, <1>9, <1>10
     DEF Next, vars, enable, componentDidMount, loadContract,
         loadInitialContracts, loaded

LEMMA StagesInit == Init => StagesOK
<1> SUFFICES ASSUME Init PROVE StagesOK
  OBVIOUS
<1>1. ToSell \subseteq Purchases /\ tokensSold = 0
  BY DEF ToSell, Init, M!Init
<1>2. PICK c \in Nat, d \in Nat : /\ c = Cardinality(Purchases)
                                  /\ d = Cardinality(ToSell) /\ d <= c
  BY <1>1, WebClientAssumption, FS_Subset, FS_CardinalityType
<1>3. PICK k \in Nat, l \in Nat : k = d * Most /\ l = c * Most /\ k <= l
  BY <1>2, MostFacts
<1>4. l <= MaxSold
  BY <1>2, <1>3, MostFacts
<1>5. tokensSold + k <= MaxSold
  BY <1>1, <1>3, <1>4, MostFacts
<1>6. tokensSold + Cardinality(ToSell) * Most <= MaxSold
  BY <1>2, <1>3, <1>5
<1>7. QED
  BY <1>1, <1>6 DEF Init, StagesOK, Stages, Clicks

LEMMA WebClientStages == Spec => []StagesOK
BY StagesInit, PageStep, PTL DEF Spec

\* What the page sends, in whatever order its transactions are mined, and what
\* the node and the admin do beside it, is a run of the Manager (App.js:152,
\* :164 and :170 call it): what is proved of Manager.sol holds here.
THEOREM WebClientRunsManager == Spec => M!Spec
<1>1. Init => M!Init
  BY DEF Init
<1>2. StagesOK /\ [Next]_vars => [M!Next]_(M!vars)
  BY PageStep
<1>3. QED
  BY <1>1, <1>2, WebClientStages, PTL DEF Spec, M!Spec

\* So the storage of its contracts stays well typed, and
LEMMA ManagerTypes == Spec => []M!TypeOK
<1>1. M!Spec => MP!Spec
  BY SameManager, PTL DEF M!Spec, MP!Spec
<1>2. QED
  BY <1>1, WebClientRunsManager, SameAssumptions, SameTypes,
     MP!ManagerTypeOK, PTL

\* so do its books.
LEMMA ManagerBooks == Spec => [](MP!StorageOK /\ MP!Books)
<1>1. M!Spec => MP!Spec
  BY SameManager, PTL DEF M!Spec, MP!Spec
<1>2. MP!SolvencyInv => MP!StorageOK /\ MP!Books
  BY DEF MP!SolvencyInv
<1>3. QED
  BY <1>1, <1>2, WebClientRunsManager, SameAssumptions,
     MP!ManagerSolvencyInv, PTL

\* What Manager.sol keeps for any answers and any user it keeps for the page's
\* transactions, in whatever order they are mined or dropped: coins move as
\* Fund has it, the price of what is out is there, every winner can redeem, and
\* an answer pays only who asked and changes the outcome only by collecting a
\* loan.
THEOREM WebClientKeepsManager ==
  Spec => /\ M!FundSpec
          /\ [](M!Solvent /\ M!WinnersCanRedeem)
          /\ M!AnswersPayTheirRequester
          /\ M!SettlingCollectsTheLoan
<1>1. M!Spec => MP!Spec
  BY SameManager, PTL DEF M!Spec, MP!Spec
<1>2. MP!FundSpec => M!FundSpec
  <2>1. /\ MP!F!Init => M!F!Init
        /\ [MP!F!Next]_(MP!F!vars) => [M!F!Next]_(M!F!vars)
    BY Zenon
       DEF MP!F!Init, M!F!Init, MP!F!Next, M!F!Next, MP!F!vars, M!F!vars,
           MP!F!Sell, M!F!Sell, MP!F!Redeem, M!F!Redeem, MP!F!Pay, M!F!Pay,
           MP!F!Settle, M!F!Settle, MP!Held, M!Held, MP!Redeemed, M!Redeemed
  <2>2. QED
    BY <2>1, PTL DEF MP!FundSpec, M!FundSpec, MP!F!Spec, M!F!Spec
<1>3. MP!Solvent /\ MP!WinnersCanRedeem => M!Solvent /\ M!WinnersCanRedeem
  BY Zenon
     DEF MP!Wrap, M!Wrap, MP!Solvent, M!Solvent, MP!WinnersCanRedeem,
         M!WinnersCanRedeem,
         MP!Held, M!Held, MP!Redeemed, M!Redeemed, MP!CanRedeem, M!CanRedeem,
         MP!Winner, M!Winner, MP!Payout, M!Payout, MP!CanMove, M!CanMove,
         MP!CanAdminMove, M!CanAdminMove, MP!AddOK, M!AddOK, MP!SubOK,
         M!SubOK, MP!MulOK, M!MulOK, MP!Uint, M!Uint, MP!Debited, M!Debited,
         MP!Move, M!Move
<1>4. /\ MP!AnswersPayTheirRequester => M!AnswersPayTheirRequester
      /\ MP!SettlingCollectsTheLoan => M!SettlingCollectsTheLoan
  <2>1. /\ MP!CL!Requests = M!CL!Requests
        /\ MP!CL!None = M!CL!None
        /\ MP!vars = M!vars
    BY Zenon
       DEF MP!CL!Requests, M!CL!Requests, MP!CL!None, M!CL!None, MP!vars, M!vars,
           MP!coinVars, M!coinVars, MP!tokenVars, M!tokenVars, MP!interestVars,
           M!interestVars, MP!linkVars, M!linkVars
  <2> DEFINE
    Pays(requests, none) ==
      \A r \in requests :
        commitments[r] # none /\ commitments'[r] = none =>
          \A user \in Users \ {redeem_book[r]} :
            /\ stableCoin'.balances[user]     = stableCoin.balances[user]
            /\ AtokenContract'.balances[user] = AtokenContract.balances[user]
            /\ BtokenContract'.balances[user] = BtokenContract.balances[user]
    Collects(requests, none) ==
      \A r \in requests :
        /\ commitments[r] # none /\ commitments'[r] = none
        /\ state' # state
        => /\ state' \in {1, 2}
           /\ deposit_records[Manager] > 0
           /\ deposit_records'[Manager] = 0
    PaysMP == Pays(MP!CL!Requests, MP!CL!None)
    PaysM  == Pays(M!CL!Requests, M!CL!None)
    CollectsMP == Collects(MP!CL!Requests, MP!CL!None)
    CollectsM  == Collects(M!CL!Requests, M!CL!None)
  <2>2. /\ MP!AnswersPayTheirRequester => [][PaysMP]_(MP!vars)
        /\ MP!SettlingCollectsTheLoan  => [][CollectsMP]_(MP!vars)
    BY DEF MP!AnswersPayTheirRequester, MP!SettlingCollectsTheLoan
  <2>3. /\ [][PaysM]_(M!vars)     => M!AnswersPayTheirRequester
        /\ [][CollectsM]_(M!vars) => M!SettlingCollectsTheLoan
    BY DEF M!AnswersPayTheirRequester, M!SettlingCollectsTheLoan
  <2>4. (PaysMP => PaysM) /\ (CollectsMP => CollectsM)
    BY <2>1, Zenon
  <2>5. UNCHANGED MP!vars => UNCHANGED M!vars
    BY Zenon
       DEF MP!vars, M!vars, MP!coinVars, M!coinVars, MP!tokenVars, M!tokenVars,
           MP!interestVars, M!interestVars, MP!linkVars, M!linkVars
  <2> HIDE DEF Pays, Collects, PaysMP, PaysM, CollectsMP, CollectsM
  <2>6. /\ [PaysMP]_(MP!vars) => [PaysM]_(M!vars)
        /\ [CollectsMP]_(MP!vars) => [CollectsM]_(M!vars)
    BY <2>4, <2>5
  <2>7. QED
    BY <2>2, <2>3, <2>6, PTL
<1>5. QED
  BY <1>1, <1>2, <1>3, <1>4, WebClientRunsManager, SameAssumptions,
     MP!ManagerFund, MP!ManagerSolvent, MP!ManagerWinnersCanRedeem,
     MP!ManagerAnswersPayTheirRequester, MP!ManagerSettlingCollectsTheLoan, PTL

\* Each pair sold is paid for once more in ether, and of that none ever leaves:
\* the page sends the price in wei with the purchase (App.js:170), and nothing
\* that is called on the Manager gives wei back.
EtherIsThePrice == ether = tokenPrice * tokensSold

\* The Manager holds the price of all pairs in ether and never pays any of it.
THEOREM WebClientEtherIsKept ==
  Spec => /\ []EtherIsThePrice
          /\ [][ether' >= ether]_vars
<1>1. Init => EtherIsThePrice
  BY MostFacts DEF Init, M!Init, EtherIsThePrice
<1>2. ASSUME StagesOK, EtherIsThePrice, [Next]_vars
      PROVE  EtherIsThePrice' /\ ether' >= ether
  <2>0. ether \in Nat /\ tokensSold \in Nat
    BY <1>2, MostFacts DEF StagesOK, EtherIsThePrice
  <2>1. ASSUME NEW p \in Purchases, bought(p)
        PROVE  EtherIsThePrice' /\ ether' >= ether
    <3>1. /\ p \in ToSell /\ numberTokens[p] \in BuyAmounts
          /\ M!buyTokens(User, numberTokens[p])
      BY <1>2, <2>1 DEF bought, StagesOK, ToSell
    <3>2. PICK n \in Nat : n = numberTokens[p]
      BY <3>1, MostFacts
    <3>3. tokensSold' = tokensSold + n
      BY <1>2, <3>1, <3>2, SaleAdds
    <3>4. ether' = ether + n * tokenPrice
      BY <2>1, <3>2 DEF bought
    <3>5. /\ tokenPrice * (tokensSold + n) = tokenPrice * tokensSold + n * tokenPrice
          /\ n * tokenPrice \in Nat
      BY <2>0, <3>2, MostFacts
    <3>6. QED
      BY <1>2, <2>0, <3>3, <3>4, <3>5 DEF EtherIsThePrice
  <2>2. CASE UNCHANGED <<ether, tokensSold>>
    BY <1>2, <2>0, <2>2 DEF EtherIsThePrice
  <2>3. ASSUME NEW c \in Redemptions, redeemed(c)
        PROVE  UNCHANGED <<ether, tokensSold>>
    BY <2>3 DEF redeemed, M!redeem, M!redeemLater, M!redeemNow,
                M!redeemExecute, M!tokenVars
  <2>4. ASSUME NEW p \in Purchases, approved(p)
        PROVE  UNCHANGED <<ether, tokensSold>>
    BY <2>4 DEF approved, M!approve, M!tokenVars
  <2>5. ASSUME NEW r \in M!CL!Requests, Answer(r)
        PROVE  UNCHANGED <<ether, tokensSold>>
    BY <2>5 DEF Answer, M!Fulfil, M!fulfillState, M!fulfillStateReverted,
                M!tokenVars
  <2>6. CASE Elsewhere
    BY <2>2, <2>6 DEF Elsewhere, M!trigger_active, M!trigger_triggered,
                M!trigger_timeout, M!trigger, M!tokenVars
  <2>7. CASE UNCHANGED chainVars
    BY <2>2, <2>7 DEF chainVars
  <2>8. QED
    BY <1>2, <2>1, <2>2, <2>3, <2>4, <2>5, <2>6, <2>7
       DEF Next, vars, enable, componentDidMount, loadContract,
           loadInitialContracts, loaded, reload, buyTokens, redeemTokens,
           Started, reverted, declined, balanceRead, setState
<1>3. Spec => []EtherIsThePrice
  BY <1>1, <1>2, WebClientStages, PTL DEF Spec
<1>4. QED
  BY <1>2, <1>3, WebClientStages, PTL DEF Spec
-----------------------------------------------------------------------------
\* The page's own state
PageTypes ==
  /\ enabled \in BOOLEAN /\ accounts \in {{}, {User}}
  /\ page \in {"mounting", "loading", "failed", "showing", "loaded"}
  /\ userBalanceA \in M!Uint /\ ether \in Nat
  /\ seen \in [Clicks -> M!Uint]
  /\ tracked \subseteq Clicks /\ disturbed \subseteq Clicks

\* Contracts are on the page only with an account, and callbacks await it only
\* while they are.
FormsInv ==
  /\ page \in {"showing", "loaded"} => accounts = {User}
  /\ tracked # {} => page \in {"showing", "loaded"}

\* The numbers a page may show
LEMMA ShownTypes ==
  ASSUME M!TypeOK
  PROVE  /\ AtokenContract.balances[User] \in M!Uint
         /\ 0 \in M!Uint
BY UserFacts, ManagerAssumptions DEF M!TypeOK, M!TokenState, M!Uint

LEMMA PageTypesStep ==
  ASSUME M!TypeOK, StagesOK, PageTypes, FormsInv, [Next]_vars
  PROVE  PageTypes' /\ FormsInv'
<1> USE DEF PageTypes, FormsInv
<1>1. CASE enable \/ componentDidMount \/ loadContract \/ loaded
  BY <1>1 DEF enable, componentDidMount, loadContract, loaded, chainVars,
              clickVars
<1>2. CASE loadInitialContracts
  BY <1>2, ShownTypes DEF loadInitialContracts, chainVars, clickVars
<1>3. CASE reload
  <2>1. seen' \in [Clicks -> M!Uint]
    BY <1>3, ShownTypes DEF reload
  <2>2. disturbed' \subseteq Clicks
    BY <1>3 DEF reload, UnderWay
  <2>3. QED
    BY <1>3, <2>1, <2>2 DEF reload, chainVars
<1>4. ASSUME NEW c \in Clicks, NEW first, Started(c, first)
      PROVE  PageTypes' /\ FormsInv'
  <2>1. disturbed' \subseteq Clicks
    BY <1>4 DEF Started, UnderWay
  <2>2. QED
    BY <1>4, <2>1 DEF Started, chainVars, pageVars
<1>5. ASSUME NEW c, NEW next, Went(c, next), ether' \in Nat
      PROVE  PageTypes' /\ FormsInv'
  BY <1>5 DEF Went, pageVars
<1>6. ASSUME NEW p \in Purchases, bought(p)
      PROVE  ether' \in Nat
  <2>1. numberTokens[p] \in Nat
    BY MostFacts DEF StagesOK
  <2>2. numberTokens[p] * tokenPrice \in Nat
    BY <2>1, MostFacts
  <2>3. QED
    BY <1>6, <2>2 DEF bought
<1>7. ASSUME NEW c \in Clicks, balanceRead(c) \/ setState(c)
      PROVE  PageTypes' /\ FormsInv'
  BY <1>7, ShownTypes DEF balanceRead, setState, chainVars, pageVars
<1>8. CASE UNCHANGED <<ether, pageVars, clickVars>>
  BY <1>8 DEF pageVars, clickVars
<1>9. Purchases \subseteq Clicks /\ Redemptions \subseteq Clicks
  BY DEF Clicks
<1>10. QED
  BY <1>1, <1>2, <1>3, <1>4, <1>5, <1>6, <1>7, <1>8, <1>9
     DEF Next, vars, buyTokens, redeemTokens, approved, bought, redeemed,
         Received, reverted, declined, Answer, Elsewhere, chainVars

LEMMA WebClientPageTypes == Spec => [](PageTypes /\ FormsInv)
<1>1. Init => PageTypes /\ FormsInv
  <2>1. 0 \in M!Uint
    BY ManagerAssumptions DEF M!Uint
  <2>2. Init => enabled \in BOOLEAN
    BY Zenon DEF Init
  <2>3. Init => seen \in [Clicks -> M!Uint] /\ page = "mounting"
    BY <2>1 DEF Init
  <2>4. QED
    BY <2>1, <2>2, <2>3 DEF Init, PageTypes, FormsInv
<1>2. QED
  BY <1>1, PageTypesStep, ManagerTypes, WebClientStages, PTL DEF Spec

\* What the page keeps, what its transactions leave in the contracts and the
\* ether they pay stay well typed.
THEOREM WebClientTypeOK == Spec => []TypeOK
<1>1. M!TypeOK /\ StagesOK /\ PageTypes => TypeOK
  BY DEF StagesOK, PageTypes, TypeOK, Stages
<1>2. QED
  BY <1>1, ManagerTypes, WebClientStages, WebClientPageTypes, PTL

\* No form is up, and no callback waits, without the user's account, whenever
\* the user lets the page see it (App.js:43 does not wait, :85 needs it).
THEOREM WebClientFormsHaveAnAccount == Spec => []FormsHaveAnAccount
<1>1. FormsInv => FormsHaveAnAccount
  BY DEF FormsInv, FormsHaveAnAccount
<1>2. QED
  BY <1>1, WebClientPageTypes, PTL
-----------------------------------------------------------------------------
\* What is left of the coins the Manager may take from the user, and what the
\* steps of the Manager do to it
Left == stableCoin.allowed[User][Manager]

LEMMA MoveKeepsAllowed ==
  ASSUME NEW t, "allowed" \in DOMAIN t, NEW from, NEW to, NEW value
  PROVE  /\ M!Move(t, from, to, value).allowed = t.allowed
         /\ "allowed" \in DOMAIN M!Move(t, from, to, value)
BY DEF M!Move

LEMMA LeftType ==
  ASSUME M!TypeOK
  PROVE  "allowed" \in DOMAIN stableCoin /\ Left \in Nat
<1>1. stableCoin \in M!TokenState
  BY DEF M!TypeOK
<1>2. Left \in M!Uint
  BY <1>1, UserFacts DEF Left, M!TokenState
<1>3. QED
  BY <1>1, <1>2, UintIsNumber DEF M!TokenState

\* A redemption and an answer leave every allowance alone.
LEMMA RedemptionKeepsLeft ==
  ASSUME M!TypeOK, M!redeem(User)
  PROVE  Left' = Left
<1>1. CASE M!redeemLater(User)
  BY <1>1 DEF M!redeemLater, M!coinVars, Left
<1>2. CASE M!redeemNow(User)
  <2>1. \E payout : stableCoin' = M!Move(stableCoin, Manager, User, payout)
    BY <1>2 DEF M!redeemNow, M!redeemExecute
  <2>2. QED
    BY <2>1, LeftType, MoveKeepsAllowed DEF Left
<1>3. QED
  BY <1>1, <1>2 DEF M!redeem

LEMMA AnswerKeepsLeft ==
  ASSUME M!TypeOK, NEW r, M!Fulfil(r)
  PROVE  Left' = Left
<1>1. PICK answer \in Answers : \/ M!fulfillState(oracle_owner, r, answer)
                                \/ M!fulfillStateReverted(oracle_owner, r, answer)
  BY DEF M!Fulfil
<1>2. CASE M!fulfillStateReverted(oracle_owner, r, answer)
  BY <1>2 DEF M!fulfillStateReverted, M!coinVars, Left
<1>3. CASE M!fulfillState(oracle_owner, r, answer)
  <2> DEFINE coin == M!Settlement(answer).coin
  <2>1. \E payout, who : stableCoin' = M!Move(coin, Manager, who, payout)
    BY <1>3 DEF M!fulfillState, M!redeemExecute
  <2>2. \/ coin = stableCoin
        \/ \E value : coin = M!Move(stableCoin, Pool, Manager, value)
    BY DEF M!Settlement, M!EarlyWithdrawCoin
  <2>3. coin.allowed = stableCoin.allowed /\ "allowed" \in DOMAIN coin
    BY <2>2, LeftType, MoveKeepsAllowed
  <2> HIDE DEF coin
  <2>4. QED
    BY <2>1, <2>3, MoveKeepsAllowed DEF Left
<1>4. QED
  BY <1>1, <1>2, <1>3

\* An approval leaves exactly the cost, and a purchase takes all of it.
LEMMA ApprovalSetsLeft ==
  ASSUME M!TypeOK, NEW n, M!approve(User, n)
  PROVE  Left' = n * tokenPrice /\ M!MulOK(n, tokenPrice)
<1>1. stableCoin \in M!TokenState
  BY DEF M!TypeOK
<1>2. stableCoin' = [stableCoin EXCEPT !.allowed[User][Manager] = n * tokenPrice]
  BY DEF M!approve, M!Approve
<1>3. Left' = n * tokenPrice
  BY <1>1, <1>2, UserFacts DEF M!TokenState, Left
<1>4. QED
  BY <1>3 DEF M!approve

LEMMA PurchaseTakesLeft ==
  ASSUME M!TypeOK, NEW n, M!buyTokens(User, n)
  PROVE  Left' = 0
<1> DEFINE cost  == n * tokenPrice
           moved == M!Move(stableCoin, User, Manager, cost)
<1>1. Left = cost
  BY DEF M!buyTokens, M!CanBuy, Left
<1>2. stableCoin' = [moved EXCEPT !.allowed[User][Manager] = @ - cost]
  BY DEF M!buyTokens, M!MoveFrom
<1>3. moved.allowed = stableCoin.allowed /\ "allowed" \in DOMAIN moved
  BY LeftType, MoveKeepsAllowed
<1>4. stableCoin.allowed \in [Address -> [Address -> M!Uint]]
  BY DEF M!TypeOK, M!TokenState
<1> HIDE DEF cost, moved
<1>5. Left' = Left - cost
  BY <1>2, <1>3, <1>4, UserFacts DEF Left
<1>6. QED
  BY <1>1, <1>5, LeftType
-----------------------------------------------------------------------------
\* What is left is the cost of a purchase that was approved and may still
\* happen, or never did.
LeftoverInv ==
  Left # 0 => \E p \in Purchases :
                /\ stage[p] \in {"buying", "reverted", "declined", "abandoned"}
                /\ Left = numberTokens[p] * tokenPrice

\* Two calls under way have disturbed each other.
OverlapInv == \A c, d \in UnderWay : c # d => c \in disturbed

\* The cost of a purchase that nothing has disturbed since it was approved is
\* what is left.
ApprovedInv ==
  \A p \in Purchases \ disturbed :
    stage[p] = "buying" => /\ M!MulOK(numberTokens[p], tokenPrice)
                           /\ Left = numberTokens[p] * tokenPrice

CoinsInv == LeftoverInv /\ OverlapInv /\ ApprovedInv

\* A click that goes on without a transaction of its own, when it is not
\* approved
LEMMA CoinsStay ==
  ASSUME StagesOK, CoinsInv, Left' = Left, NEW c \in Clicks, NEW next,
         c \in UnderWay, Went(c, next) \/ setState(c) \/ balanceRead(c),
         stage' = [stage EXCEPT ![c] = next],
         \/ stage[c] \in {"redeeming", "receipt", "read"}
              /\ next \in {"receipt", "read", "done", "reverted", "declined"}
         \/ next \in {"reverted", "declined"}
  PROVE  CoinsInv'
<1>1. /\ numberTokens' = numberTokens /\ disturbed' = disturbed
  BY DEF Went, setState, balanceRead
<1>2. UnderWay' \subseteq UnderWay
  BY DEF UnderWay, StagesOK
<1>3. LeftoverInv'
  BY <1>1 DEF CoinsInv, LeftoverInv, StagesOK, Clicks
<1>4. OverlapInv'
  BY <1>1, <1>2 DEF CoinsInv, OverlapInv
<1>5. ApprovedInv'
  BY <1>1 DEF CoinsInv, ApprovedInv, StagesOK, Clicks
<1>6. QED
  BY <1>3, <1>4, <1>5 DEF CoinsInv

\* A click that starts
LEMMA CoinsStart ==
  ASSUME StagesOK, CoinsInv, NEW c \in Clicks,
         NEW first \in {"approving", "redeeming"}, Started(c, first),
         \A p \in Purchases \ {c} : numberTokens'[p] = numberTokens[p]
  PROVE  CoinsInv'
<1>1. /\ stage' = [stage EXCEPT ![c] = first] /\ stage[c] = "idle"
      /\ disturbed \subseteq disturbed'
      /\ UnderWay # {} => UnderWay \cup {c} \subseteq disturbed'
      /\ Left' = Left
  BY DEF Started, chainVars, Left
<1>2. UnderWay' \subseteq UnderWay \cup {c}
  BY <1>1 DEF UnderWay, StagesOK
<1>3. LeftoverInv'
  <2> SUFFICES ASSUME Left # 0 PROVE LeftoverInv'
    BY <1>1 DEF LeftoverInv
  <2>1. PICK p \in Purchases :
          /\ stage[p] \in {"buying", "reverted", "declined", "abandoned"}
          /\ Left = numberTokens[p] * tokenPrice
    BY DEF CoinsInv, LeftoverInv
  <2>2. p # c /\ stage'[p] = stage[p] /\ numberTokens'[p] = numberTokens[p]
    BY <1>1, <2>1 DEF StagesOK, Clicks
  <2>3. QED
    BY <1>1, <2>1, <2>2 DEF LeftoverInv
<1>4. OverlapInv'
  <2> SUFFICES ASSUME NEW a \in UnderWay', NEW b \in UnderWay', a # b
               PROVE  a \in disturbed'
    BY DEF OverlapInv
  <2>1. UnderWay # {}
    BY <1>2
  <2>2. QED
    BY <1>1, <1>2, <2>1
<1>5. ApprovedInv'
  <2> SUFFICES ASSUME NEW p \in Purchases \ disturbed', stage'[p] = "buying"
               PROVE  /\ M!MulOK(numberTokens'[p], tokenPrice)
                      /\ Left' = numberTokens'[p] * tokenPrice
    BY DEF ApprovedInv
  <2>1. p # c /\ stage[p] = "buying" /\ p \notin disturbed
    BY <1>1 DEF StagesOK, Clicks
  <2>2. numberTokens'[p] = numberTokens[p]
    BY <2>1
  <2>3. QED
    BY <1>1, <2>1, <2>2 DEF CoinsInv, ApprovedInv
<1>6. QED
  BY <1>3, <1>4, <1>5 DEF CoinsInv

\* A purchase that is approved, or mined, has the allowance to itself.
LEMMA CoinsApproved ==
  ASSUME M!TypeOK, StagesOK, CoinsInv, NEW p \in Purchases, approved(p)
  PROVE  CoinsInv'
<1>1. PICK next \in {"buying", "abandoned"} :
        /\ stage' = [stage EXCEPT ![p] = next]
        /\ numberTokens' = numberTokens /\ disturbed' = disturbed
  BY DEF approved, Went
<1>2. /\ Left' = numberTokens[p] * tokenPrice
      /\ M!MulOK(numberTokens[p], tokenPrice)
  BY ApprovalSetsLeft DEF approved
<1>3. p \in UnderWay /\ UnderWay' \subseteq UnderWay
  BY <1>1 DEF approved, UnderWay, StagesOK, Clicks
<1>4. stage'[p] = next
  BY <1>1 DEF StagesOK, Clicks
<1>5. LeftoverInv'
  BY <1>1, <1>2, <1>4 DEF LeftoverInv
<1>6. OverlapInv'
  BY <1>1, <1>3 DEF CoinsInv, OverlapInv
<1>7. ApprovedInv'
  <2> SUFFICES ASSUME NEW q \in Purchases \ disturbed, stage'[q] = "buying"
               PROVE  /\ M!MulOK(numberTokens[q], tokenPrice)
                      /\ Left' = numberTokens[q] * tokenPrice
    BY <1>1 DEF ApprovedInv
  <2>1. CASE q = p
    BY <1>2, <2>1
  <2>2. CASE q # p
    <3>1. stage[q] = "buying" /\ q \in UnderWay
      BY <1>1, <2>2 DEF StagesOK, Clicks, UnderWay
    <3>2. QED
      BY <1>3, <2>2, <3>1 DEF CoinsInv, OverlapInv
  <2>3. QED
    BY <2>1, <2>2
<1>8. QED
  BY <1>5, <1>6, <1>7 DEF CoinsInv

LEMMA CoinsBought ==
  ASSUME M!TypeOK, StagesOK, CoinsInv, NEW p \in Purchases, bought(p)
  PROVE  CoinsInv'
<1>1. PICK next \in {"receipt", "done"} :
        /\ stage' = [stage EXCEPT ![p] = next]
        /\ numberTokens' = numberTokens /\ disturbed' = disturbed
  BY DEF bought, Received, Went
<1>2. Left' = 0
  BY PurchaseTakesLeft DEF bought
<1>3. p \in UnderWay /\ UnderWay' \subseteq UnderWay
  BY <1>1 DEF bought, UnderWay, StagesOK, Clicks
<1>4. LeftoverInv'
  BY <1>2 DEF LeftoverInv
<1>5. OverlapInv'
  BY <1>1, <1>3 DEF CoinsInv, OverlapInv
<1>6. ApprovedInv'
  <2> SUFFICES ASSUME NEW q \in Purchases \ disturbed, stage'[q] = "buying"
               PROVE  FALSE
    BY <1>1 DEF ApprovedInv
  <2>1. q # p /\ stage[q] = "buying" /\ q \in UnderWay
    BY <1>1 DEF StagesOK, Clicks, UnderWay
  <2>2. QED
    BY <1>3, <2>1 DEF CoinsInv, OverlapInv
<1>7. QED
  BY <1>4, <1>5, <1>6 DEF CoinsInv

LEMMA CoinsStep ==
  ASSUME M!TypeOK, StagesOK, CoinsInv, [Next]_vars
  PROVE  CoinsInv'
<1>1. CASE Left' = Left /\ UNCHANGED clickVars
  BY <1>1 DEF CoinsInv, LeftoverInv, OverlapInv, ApprovedInv, UnderWay,
              clickVars
<1>2. CASE reload
  <2>1. /\ Left' = Left /\ numberTokens' = numberTokens
        /\ disturbed' = disturbed \cup UnderWay
    BY <1>2 DEF reload, chainVars, Left
  <2>2. \A c \in Clicks : stage'[c] = IF stage[c] \in {"receipt", "read"}
                                      THEN "done" ELSE stage[c]
    BY <1>2 DEF reload
  <2>3. UnderWay' \subseteq UnderWay
    BY <2>2 DEF UnderWay
  <2>4. LeftoverInv'
    BY <2>1, <2>2 DEF CoinsInv, LeftoverInv, Clicks
  <2>5. OverlapInv'
    BY <2>1, <2>3 DEF OverlapInv
  <2>6. ApprovedInv'
    BY <2>1, <2>2 DEF CoinsInv, ApprovedInv, Clicks
  <2>7. QED
    BY <2>4, <2>5, <2>6 DEF CoinsInv
<1>3. ASSUME NEW p \in Purchases, NEW n \in BuyAmounts, buyTokens(p, n)
      PROVE  CoinsInv'
  BY <1>3, CoinsStart DEF buyTokens, StagesOK, Clicks
<1>4. ASSUME NEW c \in Redemptions, redeemTokens(c)
      PROVE  CoinsInv'
  BY <1>4, CoinsStart DEF redeemTokens, Clicks
<1>5. ASSUME NEW c \in Redemptions, redeemed(c)
      PROVE  CoinsInv'
  <2>1. Left' = Left
    BY <1>5, RedemptionKeepsLeft DEF redeemed
  <2>2. \E next \in {"receipt", "done"} :
          Went(c, next) /\ stage' = [stage EXCEPT ![c] = next]
    BY <1>5 DEF redeemed, Received, Went
  <2>3. stage[c] = "redeeming" /\ c \in UnderWay /\ c \in Clicks
    BY <1>5 DEF redeemed, UnderWay, Clicks
  <2>4. QED
    BY <2>1, <2>2, <2>3, CoinsStay
<1>6. ASSUME NEW c \in Clicks,
             reverted(c) \/ declined(c) \/ balanceRead(c) \/ setState(c)
      PROVE  CoinsInv'
  <2>1. Left' = Left
    BY <1>6 DEF reverted, declined, balanceRead, setState, chainVars, Left
  <2>2. c \in UnderWay
    BY <1>6 DEF reverted, declined, balanceRead, setState, UnderWay
  <2>3. CASE reverted(c) \/ declined(c)
    <3>1. \E next \in {"reverted", "declined"} :
            Went(c, next) /\ stage' = [stage EXCEPT ![c] = next]
      BY <2>3 DEF reverted, declined, Went
    <3>2. QED
      BY <2>1, <2>2, <3>1, CoinsStay
  <2>4. CASE balanceRead(c) \/ setState(c)
    <3>1. /\ stage[c] \in {"receipt", "read"}
          /\ \E next \in {"read", "done"} : stage' = [stage EXCEPT ![c] = next]
      BY <2>4 DEF balanceRead, setState
    <3>2. QED
      BY <2>1, <2>2, <2>4, <3>1, CoinsStay
  <2>5. QED
    BY <1>6, <2>3, <2>4
<1>7. ASSUME NEW r \in M!CL!Requests, Answer(r)
      PROVE  CoinsInv'
  BY <1>1, <1>7, AnswerKeepsLeft DEF Answer
<1>8. CASE Elsewhere
  BY <1>1, <1>8
     DEF Elsewhere, M!trigger_active, M!trigger_triggered,
         M!trigger_timeout, M!trigger, M!coinVars, Left
<1>9. QED
  BY <1>1, <1>2, <1>3, <1>4, <1>5, <1>6, <1>7, <1>8, CoinsApproved, CoinsBought
     DEF Next, vars, enable, componentDidMount, loadContract,
         loadInitialContracts, loaded, chainVars, Left

LEMMA WebClientCoins == Spec => []CoinsInv
<1>1. Init => CoinsInv
  <2> SUFFICES ASSUME Init PROVE CoinsInv
    OBVIOUS
  <2>1. Left = 0
    BY WebClientAssumption DEF Init, M!Init, Left
  <2>2. UnderWay = {} /\ \A p \in Purchases : stage[p] = "idle"
    BY DEF Init, UnderWay, Clicks
  <2>3. QED
    BY <2>1, <2>2 DEF CoinsInv, LeftoverInv, OverlapInv, ApprovedInv
<1>2. QED
  BY <1>1, CoinsStep, ManagerTypes, WebClientStages, PTL DEF Spec

\* With nothing under way, what the Manager may still take from the user is
\* the cost of one purchase that was approved and did not happen, never a sum
\* of several and never one that did (App.js:168-170, Manager.sol:61).
THEOREM WebClientLeftovers == Spec => []LeftoversAreOfOnePurchase
<1>1. CoinsInv => LeftoversAreOfOnePurchase
  <2> SUFFICES ASSUME CoinsInv, UnderWay = {}, Left # 0
               PROVE  \E p \in Purchases :
                        /\ stage[p] \in {"reverted", "declined", "abandoned"}
                        /\ Left = numberTokens[p] * tokenPrice
    BY DEF LeftoversAreOfOnePurchase, Left
  <2>1. \A p \in Purchases : stage[p] # "buying"
    BY DEF UnderWay, Clicks
  <2>2. QED
    BY <2>1 DEF CoinsInv, LeftoverInv
<1>2. QED
  BY <1>1, WebClientCoins, PTL

\* Only a transaction that reverts ends a call so.
LEMMA OnlyReverted ==
  ASSUME StagesOK, [Next]_vars, NEW c \in Clicks, stage[c] = "buying",
         stage'[c] = "reverted"
  PROVE  reverted(c)
<1>1. stage \in [Clicks -> Stages] /\ stage' # stage
  BY DEF StagesOK
<1>2. ASSUME NEW d, NEW next, stage' = [stage EXCEPT ![d] = next]
      PROVE  d = c /\ next = "reverted"
  BY <1>1, <1>2
<1>3. \A p : ~ (\E n : buyTokens(p, n)) /\ ~ redeemTokens(p)
  BY <1>2 DEF buyTokens, redeemTokens, Started
<1>4. \A p : ~ approved(p) /\ ~ bought(p) /\ ~ redeemed(p)
  BY <1>2 DEF approved, bought, redeemed, Received, Went
<1>5. \A d : ~ declined(d) /\ ~ balanceRead(d) /\ ~ setState(d)
  BY <1>2 DEF declined, balanceRead, setState, Went
<1>6. \A d : reverted(d) => d = c
  BY <1>2 DEF reverted, Went
<1>7. ~ reload
  BY <1>1 DEF reload
<1>8. QED
  BY <1>1, <1>3, <1>4, <1>5, <1>6, <1>7
     DEF Next, vars, enable, componentDidMount, loadContract,
         loadInitialContracts, loaded, Answer, Elsewhere, clickVars

\* A purchase whose approval was mined, the user holding the coins and the
\* contract being active, goes through unless another call ran beside it:
\* the allowance is then exactly the cost, and every `require' of buyTokens,
\* of the transfer and of the two mints holds (Manager.sol:56-64).
THEOREM WebClientLostPurchasesOverlapped == Spec => LostPurchasesOverlapped
<1>1. MP!StorageOK /\ MP!Books /\ StagesOK /\ CoinsInv /\ M!TypeOK /\ [Next]_vars
        => \A p \in Purchases :
             stage[p] = "buying" /\ stage'[p] = "reverted" =>
               \/ p \in disturbed
               \/ state # 0
               \/ stableCoin.balances[User] < numberTokens[p] * tokenPrice
  <2> SUFFICES ASSUME MP!StorageOK, MP!Books, StagesOK, CoinsInv, M!TypeOK,
                      [Next]_vars, NEW p \in Purchases, stage[p] = "buying",
                      stage'[p] = "reverted", p \notin disturbed, state = 0,
                      ~ (stableCoin.balances[User] < numberTokens[p] * tokenPrice)
               PROVE  FALSE
    OBVIOUS
  <2>1. ~ M!CanBuy(User, numberTokens[p])
    <3>1. p \in Clicks /\ stage \in [Clicks -> Stages]
      BY DEF Clicks, StagesOK
    <3>2. reverted(p)
      BY <3>1, OnlyReverted
    <3>3. QED
      BY <3>2 DEF reverted
  <2>2. p \in ToSell /\ numberTokens[p] \in BuyAmounts
    BY DEF ToSell, StagesOK
  <2>3. /\ M!MulOK(numberTokens[p], tokenPrice)
        /\ stableCoin.allowed[User][Manager] = numberTokens[p] * tokenPrice
    BY DEF CoinsInv, ApprovedInv, Left
  <2>4. tokensSold + numberTokens[p] <= MaxSold
    BY <2>2, RoomToSell
  <2>5. numberTokens[p] \in MP!Uint
    BY <2>2, MostFacts DEF M!Uint, MP!Uint
  <2>6. stableCoin.balances[User] >= numberTokens[p] * tokenPrice
    <3>1. numberTokens[p] \in Nat
      BY <2>2, MostFacts
    <3>2. numberTokens[p] * tokenPrice \in Nat
      BY <3>1, MostFacts
    <3>3. stableCoin.balances[User] \in Nat
      BY UserFacts, UintIsNumber DEF M!TypeOK, M!TokenState
    <3>4. QED
      BY <3>2, <3>3
  <2>7. MP!CanBuy(User, numberTokens[p])
    BY <2>3, <2>4, <2>5, <2>6, UserFacts, SameAssumptions, MP!BuySucceeds
       DEF M!MulOK, MP!MulOK, M!Wrap, MP!Wrap
  <2>8. M!CanBuy(User, numberTokens[p])
    BY <2>7, Zenon
       DEF M!CanBuy, MP!CanBuy, M!MulOK, MP!MulOK, M!Wrap, MP!Wrap,
           M!CanMoveFrom, MP!CanMoveFrom, M!CanMove, MP!CanMove, M!AddOK,
           MP!AddOK, M!Debited, MP!Debited, M!CanMint, MP!CanMint
  <2>9. QED
    BY <2>1, <2>8
<1>2. QED
  BY <1>1, ManagerBooks, ManagerTypes, WebClientStages, WebClientCoins, PTL
     DEF Spec, LostPurchasesOverlapped
-----------------------------------------------------------------------------
\* The balance of A that the page should show
Real == AtokenContract.balances[User]

\* The oracle has redeemed for the user only what is not booked any more.
UserPending ==
  \A r \in M!CL!Requests : redeem_book[r] = User => r \in pendingRequests

\* Nobody has booked a request that was not made.
NewUnbooked ==
  \A r \in M!CL!Requests : r[2] >= requestCount[Manager] => redeem_book[r] = Zero

\* A redemption books the request it makes, which is pending.
LEMMA RedemptionBooks ==
  ASSUME M!TypeOK, NewUnbooked, M!redeem(User)
  PROVE  NewUnbooked' /\ (UserPending' => UserPending)
<1>1. CASE M!redeemLater(User)
  <2> DEFINE n == requestCount[Manager]
             q == <<Manager, n>>
  <2>1. /\ redeem_book' = [redeem_book EXCEPT ![q] = User]
        /\ pendingRequests' = pendingRequests \cup {q}
        /\ requestCount' = [requestCount EXCEPT ![Manager] = @ + 1]
    BY <1>1 DEF M!redeemLater, M!CL!sendChainlinkRequestTo
  <2>2. /\ n \in Nat /\ requestCount \in [{Manager} -> 1 .. MaxRequests + 1]
        /\ redeem_book \in [M!CL!Requests -> Users \cup {Zero}]
        /\ \A r \in M!CL!Requests : r[2] \in Nat
    BY ManagerAssumptions DEF M!TypeOK, M!CL!TypeOK, M!CL!Requests,
         M!ChainlinkAssumption, M!CL!TimeAssumption
  <2>3. requestCount'[Manager] = n + 1
    BY <2>1, <2>2
  <2> HIDE DEF n
  <2>4. ASSUME NEW r \in M!CL!Requests
        PROVE  /\ r[2] >= n + 1 => redeem_book'[r] = Zero
               /\ UserPending' /\ redeem_book[r] = User => r \in pendingRequests
    <3>1. CASE r = q
      <4>1. r[2] = n
        BY <3>1
      <4>2. redeem_book[r] = Zero
        BY <2>2, <4>1 DEF NewUnbooked, n
      <4>3. QED
        BY <2>2, <4>1, <4>2, UserFacts
    <3>2. CASE r # q
      <4>1. redeem_book'[r] = redeem_book[r]
        BY <2>1, <2>2, <3>2
      <4>2. r[2] >= n + 1 => redeem_book[r] = Zero
        BY <2>2 DEF NewUnbooked, n
      <4>3. UserPending' /\ redeem_book[r] = User => r \in pendingRequests
        BY <2>1, <3>2, <4>1 DEF UserPending
      <4>4. QED
        BY <4>1, <4>2, <4>3
    <3>3. QED
      BY <3>1, <3>2
  <2>5. QED
    BY <2>3, <2>4 DEF NewUnbooked, UserPending
<1>2. CASE M!redeemNow(User)
  BY <1>2 DEF M!redeemNow, M!linkVars, NewUnbooked, UserPending
<1>3. QED
  BY <1>1, <1>2 DEF M!redeem

\* Tokens that somebody else gives up are not the user's.
LEMMA RetiredKeepsReal ==
  ASSUME M!TypeOK, NEW who \in Address, who # User
  PROVE  M!Retired(AtokenContract, who).balances[User] = Real
<1> DEFINE value    == AtokenContract.balances[who]
           debited  == M!Debited(AtokenContract, who, value)
           credited == [debited EXCEPT ![Manager] = debited[Manager] + value]
<1>1. /\ AtokenContract \in M!TokenState
      /\ AtokenContract.balances \in [Address -> M!Uint]
  BY DEF M!TypeOK, M!TokenState
<1>2. debited = [AtokenContract.balances EXCEPT ![who] = @ - value]
  BY DEF M!Debited
<1>3. debited[User] = Real /\ DOMAIN debited = Address
  BY <1>1, <1>2, UserFacts DEF Real
<1> HIDE DEF debited
<1>4. credited[User] = Real
  BY <1>3, UserFacts
<1>5. M!Retired(AtokenContract, who) = [AtokenContract EXCEPT !.balances = credited]
  BY DEF M!Retired, M!Move, debited
<1> HIDE DEF credited
<1>6. QED
  BY <1>1, <1>4, <1>5 DEF M!TokenState

\* An answer pays whoever booked it, and takes their tokens; who booked it is
\* not asked again.
LEMMA AnswerBooks ==
  ASSUME M!TypeOK, NewUnbooked, NEW r \in M!CL!Requests, M!Fulfil(r)
  PROVE  /\ NewUnbooked' /\ (UserPending' => UserPending)
         /\ UserPending' => Real' = Real
<1>1. PICK answer \in Answers : \/ M!fulfillState(oracle_owner, r, answer)
                                \/ M!fulfillStateReverted(oracle_owner, r, answer)
  BY DEF M!Fulfil
<1>2. /\ UNCHANGED <<redeem_book, requestCount>>
      /\ pendingRequests' \subseteq pendingRequests
  BY <1>1 DEF M!fulfillState, M!fulfillStateReverted, M!CL!Answered,
              M!CL!CallbackReverted, M!CL!fulfillOracleRequest,
              M!CL!recordChainlinkFulfillment
<1>3. CASE M!fulfillStateReverted(oracle_owner, r, answer)
  BY <1>2, <1>3 DEF M!fulfillStateReverted, M!tokenVars, NewUnbooked,
                    UserPending, Real
<1>4. ASSUME M!fulfillState(oracle_owner, r, answer), UserPending'
      PROVE  Real' = Real
  <2>1. r \notin pendingRequests'
    BY <1>4 DEF M!fulfillState, M!CL!Answered, M!CL!recordChainlinkFulfillment
  <2>2. redeem_book[r] # User /\ redeem_book[r] \in Address
    <3>1. redeem_book[r] # User
      BY <1>2, <1>4, <2>1 DEF UserPending
    <3>2. redeem_book[r] \in Users \cup {Zero}
      BY DEF M!TypeOK
    <3>3. QED
      BY <3>1, <3>2, ManagerAssumptions
  <2>3. \/ AtokenContract' = AtokenContract
        \/ AtokenContract' = M!Retired(AtokenContract, redeem_book[r])
    BY <1>4 DEF M!fulfillState, M!redeemExecute, M!Payee
  <2>4. QED
    BY <2>2, <2>3, RetiredKeepsReal DEF Real
<1>5. QED
  BY <1>1, <1>2, <1>3, <1>4 DEF NewUnbooked, UserPending

\* The others leave the bookings alone, and the user's tokens unless they buy.
LEMMA OthersBook ==
  ASSUME \/ UNCHANGED chainVars \/ Elsewhere
         \/ (\E n : M!approve(User, n)) \/ (\E n : M!buyTokens(User, n))
  PROVE  /\ UNCHANGED <<redeem_book, requestCount, pendingRequests>>
         /\ (\A n : ~ M!buyTokens(User, n)) => Real' = Real
BY DEF chainVars, Elsewhere, M!trigger_active, M!trigger_triggered,
       M!trigger_timeout, M!trigger, M!approve, M!buyTokens, M!linkVars,
       M!tokenVars, Real
-----------------------------------------------------------------------------
\* While nothing has disturbed a call, and the oracle has redeemed nothing for
\* the user, a call under way is one that the page still follows, what it has
\* read is the balance, and so is what is shown once nothing is left to read.
Undisturbed == disturbed = {} /\ UserPending

ShownInv ==
  /\ page \notin {"showing", "loaded"} => UnderWay = {}
  /\ UnderWay \subseteq tracked
  /\ \A c \in Clicks : stage[c] = "read" => seen[c] = Real
  /\ /\ page \in {"showing", "loaded"}
     /\ \A c \in Clicks : stage[c] \notin {"receipt", "read"}
     => userBalanceA = Real

RealInv == NewUnbooked /\ (Undisturbed => ShownInv)

\* Whatever happens, what is undisturbed has been so before.
LEMMA UndisturbedBefore ==
  ASSUME M!TypeOK, NewUnbooked, [Next]_vars
  PROVE  NewUnbooked' /\ (Undisturbed' => Undisturbed)
<1>1. disturbed \subseteq disturbed'
  BY DEF Next, vars, enable, componentDidMount, loadContract,
         loadInitialContracts, loaded, reload, buyTokens, redeemTokens,
         Started, approved, bought, redeemed, Received, reverted, declined,
         Went, balanceRead, setState, Answer, Elsewhere, clickVars
<1>2. NewUnbooked' /\ (UserPending' => UserPending)
  <2>1. CASE \/ UNCHANGED chainVars \/ Elsewhere
             \/ (\E n : M!approve(User, n)) \/ (\E n : M!buyTokens(User, n))
    BY <2>1, OthersBook DEF NewUnbooked, UserPending
  <2>2. CASE M!redeem(User)
    BY <2>2, RedemptionBooks
  <2>3. CASE \E r \in M!CL!Requests : M!Fulfil(r)
    BY <2>3, AnswerBooks
  <2>4. QED
    BY <2>1, <2>2, <2>3
       DEF Next, vars, enable, componentDidMount, loadContract,
           loadInitialContracts, loaded, reload, buyTokens, redeemTokens,
           Started, approved, bought, redeemed, reverted, declined,
           balanceRead, setState, Answer, chainVars
<1>3. QED
  BY <1>1, <1>2 DEF Undisturbed

\* A click that sends no callback leaves what is shown and what was read.
LEMMA ShownStays ==
  ASSUME StagesOK, ShownInv, Real' = Real, NEW c \in Clicks, NEW next,
         c \in UnderWay, next \notin {"receipt", "read"}, Went(c, next),
         stage[c] \notin {"receipt", "read"}
  PROVE  ShownInv'
<1>1. /\ stage' = [stage EXCEPT ![c] = next] /\ stage \in [Clicks -> Stages]
      /\ UNCHANGED <<page, userBalanceA, seen, tracked>>
  BY DEF Went, pageVars, StagesOK
<1>2. UnderWay' \subseteq UnderWay
  BY <1>1 DEF UnderWay
<1>3. \A d \in Clicks :
        /\ stage'[d] = "read" => stage[d] = "read"
        /\ stage'[d] \notin {"receipt", "read"} =>
             stage[d] \notin {"receipt", "read"}
  BY <1>1
<1>4. QED
  BY <1>1, <1>2, <1>3 DEF ShownInv

\* A transaction of the user's that is mined is the only call under way, and
\* its callback has yet to read the balance.
LEMMA ShownMined ==
  ASSUME StagesOK, OverlapInv, ShownInv, disturbed = {}, NEW c \in Clicks,
         c \in UnderWay, Received(c, "receipt"), stage[c] # "read"
  PROVE  ShownInv'
<1>1. /\ stage' = [stage EXCEPT ![c] = "receipt"]
      /\ stage \in [Clicks -> Stages]
      /\ UNCHANGED <<page, userBalanceA, seen, tracked>>
  BY DEF Received, Went, pageVars, StagesOK, ShownInv
<1>2. UnderWay' \subseteq UnderWay /\ stage'[c] = "receipt"
  BY <1>1 DEF UnderWay
<1>3. \A d \in Clicks : stage'[d] # "read"
  BY <1>1 DEF OverlapInv, UnderWay
<1>4. QED
  BY <1>1, <1>2, <1>3 DEF ShownInv

LEMMA ShownStep ==
  ASSUME M!TypeOK, StagesOK, PageTypes, FormsInv, CoinsInv, NewUnbooked,
         Undisturbed, Undisturbed', ShownInv, [Next]_vars
  PROVE  ShownInv'
<1>0. OverlapInv /\ disturbed = {} /\ disturbed' = {} /\ UserPending'
  BY DEF CoinsInv, Undisturbed
<1>1. CASE Real' = Real /\ UNCHANGED <<stage, seen, tracked, userBalanceA, page>>
  BY <1>1 DEF ShownInv, UnderWay
<1>2. CASE componentDidMount \/ loadContract \/ loadInitialContracts \/ loaded
  <2>1. UNCHANGED <<stage, seen, tracked>> /\ Real' = Real
    BY <1>2, OthersBook
       DEF componentDidMount, loadContract, loadInitialContracts, loaded,
           clickVars, chainVars, Real
  <2>2. UnderWay' = UnderWay
    BY <2>1 DEF UnderWay
  <2>3. CASE page = "showing"
    BY <1>2, <2>1, <2>2, <2>3
       DEF componentDidMount, loadContract, loadInitialContracts, loaded,
           ShownInv
  <2>4. CASE page # "showing"
    <3>1. UnderWay = {}
      BY <1>2, <2>4 DEF componentDidMount, loadContract,
                        loadInitialContracts, loaded, ShownInv
    <3>2. page' \in {"showing", "loaded"} => userBalanceA' = Real
      BY <1>2, <2>4 DEF componentDidMount, loadContract,
                        loadInitialContracts, loaded, Real
    <3>3. QED
      BY <2>1, <2>2, <3>1, <3>2 DEF ShownInv
  <2>5. QED
    BY <2>3, <2>4
<1>3. CASE reload
  <2>1. UnderWay = {} /\ page' = "mounting" /\ tracked' = {}
    BY <1>0, <1>3 DEF reload
  <2>2. \A c \in Clicks :
          stage'[c] = IF stage[c] \in {"receipt", "read"} THEN "done" ELSE stage[c]
    BY <1>3 DEF reload
  <2>3. UnderWay' = {} /\ \A c \in Clicks : stage'[c] # "read"
    BY <2>1, <2>2 DEF UnderWay
  <2>4. QED
    BY <2>1, <2>3 DEF ShownInv
<1>4. ASSUME NEW c \in Clicks, NEW first \in {"approving", "redeeming"},
             Started(c, first)
      PROVE  ShownInv'
  <2>1. /\ UnderWay = {} /\ page = "loaded"
        /\ stage' = [stage EXCEPT ![c] = first] /\ tracked' = tracked \cup {c}
        /\ UNCHANGED <<page, userBalanceA, seen>> /\ Real' = Real
    BY <1>0, <1>4 DEF Started, pageVars, chainVars, Real
  <2>2. UnderWay' \subseteq {c}
    BY <2>1 DEF UnderWay, StagesOK
  <2>3. \A d \in Clicks : stage[d] \notin {"receipt", "read"}
    BY <2>1 DEF UnderWay
  <2>4. \A d \in Clicks : stage'[d] # "read"
    BY <2>1, <2>3 DEF StagesOK
  <2>5. QED
    BY <2>1, <2>2, <2>3, <2>4 DEF ShownInv
<1>5. ASSUME NEW p \in Purchases, approved(p)
      PROVE  ShownInv'
  <2>1. p \in UnderWay /\ p \in Clicks /\ stage[p] = "approving"
    BY <1>5 DEF approved, UnderWay, Clicks
  <2>2. Went(p, "buying")
    BY <1>5, <2>1 DEF approved, ShownInv
  <2>3. Real' = Real
    BY <1>5 DEF approved, M!approve, M!tokenVars, Real
  <2>4. QED
    BY <2>1, <2>2, <2>3, ShownStays
<1>6. ASSUME NEW c \in Clicks, c \in UnderWay, stage[c] # "read",
             Received(c, "receipt")
      PROVE  ShownInv'
  BY <1>0, <1>6, ShownMined
<1>7. ASSUME NEW c \in Clicks, reverted(c) \/ declined(c)
      PROVE  ShownInv'
  <2>1. /\ c \in UnderWay /\ Real' = Real
        /\ stage[c] \notin {"receipt", "read"}
        /\ Went(c, "reverted") \/ Went(c, "declined")
    BY <1>7 DEF reverted, declined, UnderWay, chainVars, Real
  <2>2. QED
    BY <2>1, ShownStays
<1>8. ASSUME NEW c \in Clicks, balanceRead(c)
      PROVE  ShownInv'
  <2>1. /\ stage[c] = "receipt" /\ stage' = [stage EXCEPT ![c] = "read"]
        /\ seen' = [seen EXCEPT ![c] = Real] /\ Real' = Real
        /\ UNCHANGED <<page, userBalanceA, tracked>>
    BY <1>8 DEF balanceRead, pageVars, chainVars, Real
  <2>2. UnderWay' = UnderWay
    BY <2>1 DEF UnderWay, StagesOK
  <2>3. \A d \in Clicks : stage'[d] = "read" => seen'[d] = Real
    BY <2>1 DEF ShownInv, StagesOK, PageTypes
  <2>4. stage'[c] = "read"
    BY <2>1 DEF StagesOK
  <2>5. QED
    BY <2>1, <2>2, <2>3, <2>4 DEF ShownInv
<1>9. ASSUME NEW c \in Clicks, setState(c)
      PROVE  ShownInv'
  <2>1. /\ stage[c] = "read" /\ stage' = [stage EXCEPT ![c] = "done"]
        /\ userBalanceA' = seen[c] /\ seen' = [seen EXCEPT ![c] = 0]
        /\ UNCHANGED <<page, tracked>> /\ Real' = Real
    BY <1>9 DEF setState, chainVars, Real
  <2>2. UnderWay' \subseteq UnderWay /\ userBalanceA' = Real
    BY <2>1 DEF UnderWay, StagesOK, ShownInv
  <2>3. \A d \in Clicks : stage'[d] = "read" => seen'[d] = Real
    BY <2>1 DEF ShownInv, StagesOK, PageTypes
  <2>4. QED
    BY <2>1, <2>2, <2>3 DEF ShownInv
<1>10. ASSUME NEW r \in M!CL!Requests, Answer(r)
       PROVE  ShownInv'
  BY <1>0, <1>1, <1>10, AnswerBooks DEF Answer, pageVars, clickVars
<1>11. CASE Elsewhere
  BY <1>1, <1>11
     DEF Elsewhere, M!trigger_active, M!trigger_triggered,
         M!trigger_timeout, M!trigger, M!tokenVars, Real, pageVars, clickVars
<1>12. ASSUME NEW p \in Purchases, bought(p)
       PROVE  ShownInv'
  BY <1>6, <1>12 DEF bought, UnderWay, Clicks
<1>13. ASSUME NEW c \in Redemptions, redeemed(c)
       PROVE  ShownInv'
  BY <1>6, <1>13 DEF redeemed, UnderWay, Clicks
<1>14. CASE enable \/ UNCHANGED vars
  BY <1>1, <1>14 DEF enable, vars, chainVars, pageVars, clickVars, Real
<1>15. QED
  BY <1>2, <1>3, <1>4, <1>5, <1>7, <1>8, <1>9, <1>10, <1>11, <1>12, <1>13,
     <1>14
     DEF Next, buyTokens, redeemTokens, Clicks

LEMMA WebClientReal == Spec => []RealInv
<1>1. Init => RealInv
  <2> SUFFICES ASSUME Init PROVE RealInv
    OBVIOUS
  <2>1. NewUnbooked
    BY DEF Init, M!Init, NewUnbooked
  <2>2. /\ UnderWay = {} /\ page = "mounting"
        /\ \A c \in Clicks : stage[c] # "read"
    BY DEF Init, UnderWay
  <2>3. QED
    BY <2>1, <2>2 DEF RealInv, ShownInv
<1>2. M!TypeOK /\ StagesOK /\ PageTypes /\ FormsInv /\ CoinsInv /\ RealInv
        /\ [Next]_vars => RealInv'
  BY UndisturbedBefore, ShownStep DEF RealInv
<1>3. QED
  BY <1>1, <1>2, ManagerTypes, WebClientStages, WebClientPageTypes,
     WebClientCoins, PTL DEF Spec

\* The balance the page settles on is the real one, unless two calls
\* overlapped or were lost in a reload (their callbacks read and show in any
\* order, App.js:152 and :172), or the oracle has redeemed for the user since.
THEOREM WebClientShownIsReal == Spec => []ShownIsReal
<1>1. RealInv => ShownIsReal
  <2> SUFFICES ASSUME ShownInv, page = "loaded", UnderWay = {}
               PROVE  userBalanceA = Real
    BY DEF RealInv, ShownIsReal, Undisturbed, UserPending, Real
  <2>1. \A c \in Clicks : stage[c] \notin {"receipt", "read"}
    BY DEF UnderWay
  <2>2. QED
    BY <2>1 DEF ShownInv
<1>2. QED
  BY <1>1, WebClientReal, PTL
=============================================================================
