------------------------------- MODULE Manager -------------------------------
(***************************************************************************)
(* contracts/Manager.sol and everything it calls: the coin and the two     *)
(* event tokens (TokenOps), the 88mph pool (MPHOps) and the Chainlink      *)
(* request protocol (an instance of Chainlink, whose actions are conjoined *)
(* with what the Manager does in the same transaction).  A step is one     *)
(* transaction, or the passing of time.                                    *)
(*                                                                         *)
(* The initial state is the one scripts/deploy.py leaves: A and B have no  *)
(* supply and the Manager is their admin.  The node is the account that    *)
(* owns the oracle contract.  It answers with a value of the web API it    *)
(* read some time before, so with any value the API may ever hold.         *)
(*                                                                         *)
(* A, B and the coin are moved between users by transfer only; what        *)
(* allowances add is in module Token.  Ether sent to the payable functions *)
(* is not used by them and is left out.                                    *)
(***************************************************************************)
EXTENDS MPHOps, Functions

CONSTANTS Users,        \* the accounts that buy, trade and redeem
          Admin,        \* the account that deployed the Manager
          Manager,
          Zero,         \* address(0)
          tokenPrice,
          InitialCoin,  \* the coin's storage at first
          Answers,      \* what the web API may hold
          BuyAmounts,   \* bound: the pairs bought at once,
          MaxSold,      \* how many in all,
          DepositAmounts,   \* what the admin lends to the pool at once,
          MaxPool,          \* and what the pool then holds,
          TradeAmounts,     \* the tokens users send each other,
          Owners            \* and the accounts the Manager may be given to

CONSTANTS LinkAddress, Oracle, Operator, InitialLink, Payment, ExpiryTime,
          MaxRequests, MaxNow, LinkAmounts      \* those of Chainlink

ASSUME ManagerAssumption ==
  /\ Users \subseteq Address \ {Manager, Pool, Zero}
  /\ Admin \in Address \ {Manager, Pool, Zero}
  /\ Manager \in Address \ {Pool}
  /\ Zero \in Address \ {Manager, Pool}
  /\ Owners \subseteq Address
ASSUME ValueAssumption ==
  /\ {2, tokenPrice, MaxSold} \subseteq Uint
  /\ InitialCoin \in TokenState
  /\ InitialCoin.balances[Manager] = 0
  /\ SumFunction(InitialCoin.balances) <= InitialCoin.totalSupply
  /\ Answers \subseteq Uint
  /\ BuyAmounts \subseteq Uint /\ DepositAmounts \subseteq Uint
  /\ TradeAmounts \subseteq Uint

VARIABLES stableCoin, AtokenContract, BtokenContract,   \* Token contracts
          deposit_records,                              \* of the pool
          state,                \* 0: active, 1: triggered, 2: timed out
          tokensSold,
          interestEarned,
          interestMultiplier,
          redeem_book,          \* whom an answer pays; Zero if nobody
          owner                 \* who may cancel requests

VARIABLES link, pendingRequests, requestCount, commitments,
          withdrawableTokens, authorizedNodes, oracle_owner, now

CL == INSTANCE Chainlink WITH
        Address <- LinkAddress, Consumers <- {Manager},
        InitialOwner <- Operator, owner <- oracle_owner

ASSUME ChainlinkAssumption ==
  CL!AddressAssumption /\ CL!LinkAssumption /\ CL!TimeAssumption

linkVars  == <<link, pendingRequests, requestCount, commitments,
               withdrawableTokens, authorizedNodes, oracle_owner, now>>
coinVars  == <<stableCoin, deposit_records>>
tokenVars == <<AtokenContract, BtokenContract, tokensSold>>
interestVars == <<interestEarned, interestMultiplier>>
vars == <<coinVars, tokenVars, state, interestVars, redeem_book, owner,
          linkVars>>

Init ==
  /\ stableCoin      = InitialCoin
  /\ AtokenContract  = HandOver(Deployed(Admin, 0), Manager)
  /\ BtokenContract  = HandOver(Deployed(Admin, 0), Manager)
  /\ deposit_records = [a \in Address |-> 0]
  /\ state = 0
  /\ tokensSold = 0
  /\ interestEarned = 0
  /\ interestMultiplier = 0
  /\ redeem_book = [r \in CL!Requests |-> Zero]
  /\ owner = Admin
  /\ CL!Init
-----------------------------------------------------------------------------
\* Buying a pair of tokens, by the two transactions of App.js

\* stableCoin.approve(Manager, n * tokenPrice)
approve(user, n) ==
  /\ MulOK(n, tokenPrice)
  /\ stableCoin' = Approve(stableCoin, user, Manager, n * tokenPrice)
  /\ UNCHANGED <<deposit_records, tokenVars, state, interestVars, redeem_book,
                 owner, linkVars>>

CanBuy(buyer, n) ==
  LET cost == n * tokenPrice
  IN  /\ state = 0
      /\ MulOK(n, tokenPrice)
      /\ stableCoin.allowed[buyer][Manager] = cost
      /\ CanMoveFrom(stableCoin, Manager, buyer, Manager, cost)
      /\ CanMint(AtokenContract, Manager, buyer, n)
      /\ CanMint(BtokenContract, Manager, buyer, n)

buyTokens(buyer, n) ==
  /\ CanBuy(buyer, n)
  /\ stableCoin' = MoveFrom(stableCoin, Manager, buyer, Manager, n * tokenPrice)
  /\ AtokenContract' = Mint(AtokenContract, buyer, n)
  /\ BtokenContract' = Mint(BtokenContract, buyer, n)
  /\ tokensSold' = Wrap(tokensSold + n)
  /\ UNCHANGED <<deposit_records, state, interestVars, redeem_book, owner,
                 linkVars>>

\* Users trade either token
trade(from, to, n) ==
  /\ \/ /\ CanMove(AtokenContract, from, to, n)
        /\ AtokenContract' = Move(AtokenContract, from, to, n)
        /\ UNCHANGED BtokenContract
     \/ /\ CanMove(BtokenContract, from, to, n)
        /\ BtokenContract' = Move(BtokenContract, from, to, n)
        /\ UNCHANGED AtokenContract
  /\ UNCHANGED <<coinVars, tokensSold, state, interestVars, redeem_book, owner,
                 linkVars>>
-----------------------------------------------------------------------------
\* redeemExecute: the winning token, what it pays and whether it can

Winner(st) == IF st = 1 THEN AtokenContract ELSE BtokenContract

Payout(st, multiplier, who) ==
  Winner(st).balances[who] * tokenPrice * multiplier

CanRedeem(coin, st, multiplier, who) ==
  LET tokens == Winner(st).balances[who]
      payout == Payout(st, multiplier, who)
  IN  /\ st \in {1, 2}
      /\ MulOK(tokens, tokenPrice) /\ MulOK(tokens * tokenPrice, multiplier)
      /\ coin.balances[Manager] >= payout
      /\ CanAdminMove(Winner(st), Manager, who, Manager, tokens)
      /\ CanMove(coin, Manager, who, payout)

\* mutation of Retired: the tokens are not taken
RetiredNot(t, who) == t

\* The whole balance goes to the Manager and the payout to its owner
Retired(t, who) == Move(t, who, Manager, t.balances[who])

\* mutation of redeemExecute: token A is taken whichever has won
redeemExecuteTakingA(coin, st, multiplier, who) ==
  /\ CanRedeem(coin, st, multiplier, who)
  /\ stableCoin' = Move(coin, Manager, who, Payout(st, multiplier, who))
  /\ AtokenContract' = Retired(AtokenContract, who)
  /\ UNCHANGED BtokenContract

redeemExecute(coin, st, multiplier, who) ==
  /\ CanRedeem(coin, st, multiplier, who)
  /\ stableCoin' = Move(coin, Manager, who, Payout(st, multiplier, who))
  /\ AtokenContract' = IF st = 1 THEN Retired(AtokenContract, who)
                                 ELSE AtokenContract
  /\ BtokenContract' = IF st = 2 THEN Retired(BtokenContract, who)
                                 ELSE BtokenContract
-----------------------------------------------------------------------------
\* Asking the oracle, which anyone may

requestState ==
  /\ CL!sendChainlinkRequestTo(Manager)
  /\ UNCHANGED <<coinVars, tokenVars, state, interestVars, redeem_book, owner>>

\* redeem: a request while the contract is active, a redemption afterwards
redeemLater(user) ==
  /\ state = 0
  /\ CL!sendChainlinkRequestTo(Manager)
  /\ redeem_book' =
       [redeem_book EXCEPT ![<<Manager, requestCount[Manager]>>] = user]
  /\ UNCHANGED <<coinVars, tokenVars, state, interestVars, owner>>

redeemNow(user) ==
  /\ state # 0
  /\ redeemExecute(stableCoin, state, interestMultiplier, user)
  /\ UNCHANGED <<deposit_records, tokensSold, state, interestVars, redeem_book,
                 owner, linkVars>>

redeem(user) == redeemLater(user) \/ redeemNow(user)
-----------------------------------------------------------------------------
\* fulfillState: what it computes when the answer is news, from the coin as
\* earlyWithdraw leaves it

Principal == AtokenContract.totalSupply * tokenPrice

Interest(coin) == coin.balances[Manager] - Principal

Multiplier(coin) == (Interest(coin) * 100) \div coin.balances[Manager]

\* mutations of CanSettle: the interest may be negative, and no record of a
\* deposit is needed
CanSettleAtALoss ==
  /\ CanEarlyWithdraw(stableCoin, deposit_records, Manager)
  /\ EarlyWithdrawCoin(stableCoin, deposit_records, Manager).balances[Manager] > 0

CanSettleWithoutLoan ==
  LET coin == EarlyWithdrawCoin(stableCoin, deposit_records, Manager)
  IN  /\ SubOK(coin.balances[Manager], Principal)
      /\ DivOK(Interest(coin) * 100, coin.balances[Manager])

CanSettle ==
  /\ CanEarlyWithdraw(stableCoin, deposit_records, Manager)
  /\ LET coin == EarlyWithdrawCoin(stableCoin, deposit_records, Manager)
     IN  /\ MulOK(AtokenContract.totalSupply, tokenPrice)
         /\ SubOK(coin.balances[Manager], Principal)
         /\ MulOK(Interest(coin), 100)
         /\ DivOK(Interest(coin) * 100, coin.balances[Manager])

\* The storage fulfillState has when it calls redeemExecute
Settlement(answer) ==
  IF state = answer
  THEN [coin       |-> stableCoin,
        records    |-> deposit_records,
        interest   |-> interestEarned,
        multiplier |-> interestMultiplier]
  ELSE LET coin == EarlyWithdrawCoin(stableCoin, deposit_records, Manager)
       IN  [coin       |-> coin,
            records    |-> Cleared(deposit_records, Manager),
            interest   |-> Interest(coin),
            multiplier |-> Multiplier(coin)]

\* mutation of Payee: the one who asked last
PayeeOfLast(r) == redeem_book[<<Manager, requestCount[Manager] - 1>>]

\* Whom the answer to r pays
Payee(r) == redeem_book[r]

CanFulfill(r, answer) ==
  /\ r \in pendingRequests
  /\ state = answer \/ CanSettle
  /\ LET s == Settlement(answer)
     IN  CanRedeem(s.coin, answer, s.multiplier, Payee(r))

\* fulfillOracleRequest as the node sends it: the oracle calls fulfillState,
\* and if that reverts nothing of the Manager's changes
fulfillState(sender, r, answer) ==
  /\ CanFulfill(r, answer)
  /\ CL!Answered(sender, r)
  /\ LET s == Settlement(answer)
     IN  /\ redeemExecute(s.coin, answer, s.multiplier, Payee(r))
         /\ deposit_records'    = s.records
         /\ interestEarned'     = s.interest
         /\ interestMultiplier' = s.multiplier
  /\ state' = answer
  /\ UNCHANGED <<tokensSold, redeem_book, owner>>

\* mutation of fulfillStateReverted: the oracle's call reverts with it
fulfillStateBubbled(sender, r, answer) == FALSE

fulfillStateReverted(sender, r, answer) ==
  /\ ~ CanFulfill(r, answer)
  /\ CL!CallbackReverted(sender, r)
  /\ UNCHANGED <<coinVars, tokenVars, state, interestVars, redeem_book, owner>>

Fulfil(r) ==
  \E answer \in Answers :
    \/ fulfillState(oracle_owner, r, answer)
    \/ fulfillStateReverted(oracle_owner, r, answer)
-----------------------------------------------------------------------------
\* What the admin and the owner do

trigger(sender, newState) ==
  /\ sender = Admin
  /\ state' = newState
  /\ UNCHANGED <<coinVars, tokenVars, interestVars, redeem_book, owner,
                 linkVars>>

trigger_active(sender)    == trigger(sender, 0)
trigger_triggered(sender) == trigger(sender, 1)
trigger_timeout(sender)   == trigger(sender, 2)

admin88mphDeposit(sender, amount) ==
  LET approved == Approve(stableCoin, Manager, Pool, amount)
  IN  /\ sender = Admin
      /\ CanDeposit(approved, Manager, amount)
      /\ stableCoin' = DepositCoin(approved, Manager, amount)
      /\ deposit_records' = DepositRecord(deposit_records, Manager, amount)
      /\ UNCHANGED <<tokenVars, state, interestVars, redeem_book, owner,
                     linkVars>>

admin88mphWithdraw(sender) ==
  /\ sender = Admin
  /\ CanWithdraw(stableCoin, deposit_records, Manager)
  /\ stableCoin' = WithdrawCoin(stableCoin, deposit_records, Manager)
  /\ deposit_records' = Cleared(deposit_records, Manager)
  /\ UNCHANGED <<tokenVars, state, interestVars, redeem_book, owner, linkVars>>

\* mutation of cancelRequest: the oracle is not told
cancelRequestLocally(sender, r) ==
  /\ sender = owner
  /\ r \in pendingRequests
  /\ pendingRequests' = pendingRequests \ {r}
  /\ UNCHANGED <<coinVars, tokenVars, state, interestVars, redeem_book, owner,
                 link, requestCount, commitments, withdrawableTokens,
                 authorizedNodes, oracle_owner, now>>

cancelRequest(sender, r) ==
  /\ sender = owner
  /\ CL!cancelChainlinkRequest(r)
  /\ UNCHANGED <<coinVars, tokenVars, state, interestVars, redeem_book, owner>>

transferOwnership(sender, newOwner) ==
  /\ sender = owner
  /\ newOwner # Zero
  /\ owner' = newOwner
  /\ UNCHANGED <<coinVars, tokenVars, state, interestVars, redeem_book,
                 linkVars>>
-----------------------------------------------------------------------------
\* The rest of the world: time passes, the operator collects what the oracle
\* earned and somebody pays LINK to the Manager
Elsewhere ==
  /\ \/ CL!Tick
     \/ \E amount \in LinkAmounts :
          \/ CL!withdraw(oracle_owner, Operator, amount)
          \/ CL!linkTransfer(Operator, Manager, amount)
  /\ UNCHANGED <<coinVars, tokenVars, state, interestVars, redeem_book, owner>>

Next ==
  \/ \E user \in Users, n \in BuyAmounts :
       tokensSold + n <= MaxSold /\ (approve(user, n) \/ buyTokens(user, n))
  \/ \E from, to \in Users, n \in TradeAmounts : trade(from, to, n)
  \/ \E user \in Users : redeem(user)
  \/ requestState
  \/ \E r \in CL!Requests :
       Fulfil(r) \/ \E sender \in Users \cup {Admin} : cancelRequest(sender, r)
  \/ \E sender \in Users \cup {Admin} :
       \/ trigger_active(sender)
       \/ trigger_triggered(sender)
       \/ trigger_timeout(sender)
       \/ \E amount \in DepositAmounts :
            /\ stableCoin.balances[Pool] + amount <= MaxPool
            /\ admin88mphDeposit(sender, amount)
       \/ admin88mphWithdraw(sender)
       \/ \E newOwner \in Owners : transferOwnership(sender, newOwner)
  \/ Elsewhere

Spec == Init /\ [][Next]_vars

\* The node answers every request
NodeSpec == Spec /\ \A r \in CL!Requests : WF_vars(Fulfil(r))
-----------------------------------------------------------------------------
TypeOK ==
  /\ {stableCoin, AtokenContract, BtokenContract} \subseteq TokenState
  /\ deposit_records \in Records
  /\ {state, tokensSold, interestEarned, interestMultiplier} \subseteq Uint
  /\ redeem_book \in [CL!Requests -> Users \cup {Zero}]
  /\ owner \in Address
  /\ CL!TypeOK

\* The coins there are to redeem from, and the tokens redeemed so far
Held == stableCoin.balances[Manager] + stableCoin.balances[Pool]
Redeemed == AtokenContract.balances[Manager] + BtokenContract.balances[Manager]

\* As long as redemptions pay at most the price, the Manager and the pool hold
\* the price of every token yet to be redeemed: no order of sales, loans,
\* answers, triggers and redemptions spends it, and an answer that raises the
\* multiplier above 1 and one that lowers it again find it whole
\* (Manager.sol:170 refuses to settle on less).
Solvent ==
  interestMultiplier <= 1 \/ Redeemed = 0 =>
    Held >= tokenPrice * (tokensSold - Redeemed)

\* At a multiplier of at most 1, every winner can redeem once no coin is left
\* in the pool, whoever redeemed before, unless the other token has been
\* redeemed too because the outcome was changed (Manager.sol:121; above 1 the
\* first redemption may already revert).
WinnersCanRedeem ==
  LET loser == IF state = 1 THEN BtokenContract ELSE AtokenContract
  IN  /\ state \in {1, 2}
      /\ interestMultiplier <= 1
      /\ stableCoin.balances[Pool] = 0
      /\ loser.balances[Manager] = 0
      => \A user \in Users :
           CanRedeem(stableCoin, state, interestMultiplier, user)

\* Coins leave only against winning tokens, which never come back: the same
\* tokens are not paid twice when a request is answered after its sender has
\* redeemed (Manager.sol:122 takes them first, :178 redeems on the answer).
PayoutsRetireTokens ==
  [][/\ Redeemed' >= Redeemed
     /\ Held' < Held =>
          Held - Held' = tokenPrice * interestMultiplier' * (Redeemed' - Redeemed)
    ]_vars

\* Sales, loans, answers, triggers and redemptions, in whatever order and
\* whichever of them revert, move coins as Fund does: each token is paid for
\* once, and a settlement finds the price of everything sold.
F == INSTANCE Fund WITH
       price      <- tokenPrice,
       sold       <- tokensSold,
       redeemed   <- Redeemed,
       held       <- Held,
       multiplier <- interestMultiplier

FundSpec == F!Spec

\* An answer, in whatever order answers arrive, touches nobody's coins and
\* tokens but those of the user who asked for it (redeem_book,
\* Manager.sol:106 and :177), and a request that nobody booked nobody's.
AnswersPayTheirRequester ==
  [][\A r \in CL!Requests :
       commitments[r] # CL!None /\ commitments'[r] = CL!None =>
         \A user \in Users \ {redeem_book[r]} :
           /\ stableCoin'.balances[user]     = stableCoin.balances[user]
           /\ AtokenContract'.balances[user] = AtokenContract.balances[user]
           /\ BtokenContract'.balances[user] = BtokenContract.balances[user]
    ]_vars

\* The oracle never reopens the contract, and it changes the outcome only by
\* collecting a loan (Manager.sol:163-167): once it has settled, a stale or
\* contrary answer changes nothing until the admin lends again.
SettlingCollectsTheLoan ==
  [][\A r \in CL!Requests :
       /\ commitments[r] # CL!None /\ commitments'[r] = CL!None
       /\ state' # state
       => /\ state' \in {1, 2}
          /\ deposit_records[Manager] > 0
          /\ deposit_records'[Manager] = 0]_vars

\* Whatever the Manager does with its requests, and however its callback
\* fails, is a run of the request protocol, so what Chainlink promises of
\* LINK and of requests holds of the Manager's.
RequestProtocol == CL!Spec
-----------------------------------------------------------------------------
\* What the README says of the program and the code does not do

\* README.md:5: the winning tokens "can then be exchanged with the smart
\* contract for the original DAI paid to issue the tokens".
RedeemingPaysThePrice ==
  [][Redeemed' > Redeemed =>
       Held - Held' >= tokenPrice * (Redeemed' - Redeemed)]_vars

\* README.md:9: "Our Chainlink node reads that API and updates our smart
\* contract": if the API says that the event happened whenever it is read, the
\* first request ends the contract, unless there was time to cancel it.
EventEndsTheContract ==
  Answers = {1} => (CL!Committed # {} ~> state # 0 \/ now > ExpiryTime)
=============================================================================
