------------------------------- MODULE WebClient -------------------------------
(***************************************************************************)
(* client/src/App.js: the page a user buys and redeems tokens on, over the *)
(* Manager (an instance of Manager).  A click starts an asynchronous call  *)
(* of its own: a transaction is sent, its receipt runs a callback, and     *)
(* that sends the next transaction or reads the balance and shows it.      *)
(* Clicks, callbacks and transactions interleave; two transactions of the  *)
(* same account are mined in the order in which the user confirms them in  *)
(* the wallet, which may be any.                                           *)
(*                                                                         *)
(* Reloading the page forgets the callbacks and not the transactions.      *)
(* What the page reads once and never again (the supply, the price, the    *)
(* B and coin balances, the Manager's state) is left out, and so is a      *)
(* wallet on another network, with which the page does nothing.            *)
(***************************************************************************)
EXTENDS Integers, FiniteSets

CONSTANTS User,         \* the account in the wallet
          Purchases,    \* clicks on Submit,
          Redemptions,  \* clicks on Redeem Tokens,
          MaxReloads    \* and bound: how often the page is loaded again

CONSTANTS MaxUint, Address, Users, Admin, Manager, Pool, Zero, tokenPrice,
          InitialCoin, Answers, BuyAmounts, MaxSold, DepositAmounts, MaxPool,
          TradeAmounts, Owners, LinkAddress, Oracle, Operator, InitialLink,
          Payment, ExpiryTime, MaxRequests, MaxNow, LinkAmounts
          \* those of Manager

VARIABLES stableCoin, AtokenContract, BtokenContract, deposit_records, state,
          tokensSold, interestEarned, interestMultiplier, redeem_book, owner,
          link, pendingRequests, requestCount, commitments,
          withdrawableTokens, authorizedNodes, oracle_owner, now

VARIABLES enabled,      \* the user has let the page see the account
          accounts,     \* what the page got from getAccounts
          page,         \* how far it has got
          userBalanceA, \* what it shows, once it is "loaded"
          stage,        \* how far each click has got
          numberTokens, \* what was typed for each purchase
          seen,         \* the balance a callback has read
          tracked,      \* the clicks whose callbacks the page still has
          disturbed,    \* those that ran beside another, or over a reload
          reloads,
          ether         \* wei the Manager holds

M == INSTANCE Manager

ASSUME ManagerAssumptions == /\ M!MaxUintAssumption /\ M!FiniteAssumption
                             /\ M!PoolAssumption    /\ M!ManagerAssumption
                             /\ M!ValueAssumption   /\ M!ChainlinkAssumption

\* MaxSold is not met: it leaves room for every purchase
ASSUME WebClientAssumption ==
  /\ User \in Users
  /\ Purchases \cap Redemptions = {}
  /\ IsFiniteSet(Purchases)
  /\ \E most \in BuyAmounts \cup {0} :
       /\ \A n \in BuyAmounts : n <= most
       /\ Cardinality(Purchases) * most <= MaxSold
  /\ MaxReloads \in Nat
  /\ InitialCoin.allowed[User][Manager] = 0

chainVars == <<stableCoin, AtokenContract, BtokenContract, deposit_records,
               state, tokensSold, interestEarned, interestMultiplier,
               redeem_book, owner, link, pendingRequests, requestCount,
               commitments, withdrawableTokens, authorizedNodes, oracle_owner,
               now, ether>>
pageVars  == <<enabled, accounts, page, userBalanceA, reloads>>
clickVars == <<stage, numberTokens, seen, tracked, disturbed>>
vars      == <<chainVars, pageVars, clickVars>>

Clicks   == Purchases \cup Redemptions
UnderWay == {c \in Clicks : stage[c] \in
               {"approving", "buying", "redeeming", "receipt", "read"}}

Init ==
  /\ M!Init
  /\ enabled = FALSE
  /\ accounts = {}
  /\ page = "mounting"
  /\ userBalanceA = 0
  /\ stage = [c \in Clicks |-> "idle"]
  /\ numberTokens = [p \in Purchases |-> 0]
  /\ seen = [c \in Clicks |-> 0]
  /\ tracked = {}
  /\ disturbed = {}
  /\ reloads = 0
  /\ ether = 0
-----------------------------------------------------------------------------
\* Loading the page

\* The user answers the wallet's prompt, which the page does not wait for
enable ==
  /\ ~ enabled
  /\ enabled' = TRUE
  /\ UNCHANGED <<chainVars, accounts, page, userBalanceA, reloads, clickVars>>

componentDidMount ==
  /\ page = "mounting"
  /\ accounts' = IF enabled THEN {User} ELSE {}
  /\ page' = "loading"
  /\ UNCHANGED <<chainVars, enabled, userBalanceA, reloads, clickVars>>

\* A contract that is not in the map, or whose artifact does not arrive, is
\* undefined, and using it throws
loadContract ==
  /\ page = "loading"
  /\ page' = "failed"
  /\ UNCHANGED <<chainVars, enabled, accounts, userBalanceA, reloads, clickVars>>

\* mutation of loadInitialContracts: a balance that cannot be read is left out
loadRegardless ==
  /\ page = "loading"
  /\ page' = "showing"
  /\ userBalanceA' = AtokenContract.balances[User]
  /\ UNCHANGED <<chainVars, enabled, accounts, reloads, clickVars>>

\* balanceOf(undefined) throws, and what was loaded before it is not kept
loadInitialContracts ==
  /\ page = "loading"
  /\ page' = IF accounts = {} THEN "failed" ELSE "showing"
  /\ userBalanceA' = IF accounts = {} THEN userBalanceA
                                      ELSE AtokenContract.balances[User]
  /\ UNCHANGED <<chainVars, enabled, accounts, reloads, clickVars>>

\* The rest is read, and setState puts all of it on the page
loaded ==
  /\ page = "showing"
  /\ page' = "loaded"
  /\ UNCHANGED <<chainVars, enabled, accounts, userBalanceA, reloads, clickVars>>

\* The browser: callbacks are lost, and what they would have gone on with
reload ==
  /\ reloads < MaxReloads                                   \* bound
  /\ reloads' = reloads + 1
  /\ page' = "mounting"
  /\ accounts' = {}
  /\ tracked' = {}
  /\ disturbed' = disturbed \cup UnderWay
  /\ stage' = [c \in Clicks |-> IF stage[c] \in {"receipt", "read"}
                                THEN "done" ELSE stage[c]]
  /\ seen' = [c \in Clicks |-> 0]
  /\ UNCHANGED <<chainVars, enabled, userBalanceA, numberTokens>>
-----------------------------------------------------------------------------
\* Clicking, and what comes of it

Started(c, first) ==
  /\ page = "loaded"
  /\ stage[c] = "idle"
  /\ stage' = [stage EXCEPT ![c] = first]
  /\ tracked' = tracked \cup {c}
  /\ disturbed' = IF UnderWay = {} THEN disturbed
                  ELSE disturbed \cup UnderWay \cup {c}
  /\ UNCHANGED <<chainVars, pageVars, seen>>

Went(c, next) == /\ stage' = [stage EXCEPT ![c] = next]
                 /\ UNCHANGED <<pageVars, numberTokens, seen, tracked, disturbed>>

\* What a transaction's receipt leads to, if the page is there to get it
Received(c, next) == Went(c, IF c \in tracked THEN next ELSE "done")

\* mutation of buyTokens: the approval is not waited for
buyTokensAtOnce(p, n) ==
  /\ Started(p, "buying")
  /\ numberTokens' = [numberTokens EXCEPT ![p] = n]

\* buyTokens, up to the approval it sends
buyTokens(p, n) ==
  /\ Started(p, "approving")
  /\ numberTokens' = [numberTokens EXCEPT ![p] = n]

redeemTokens(c) ==
  /\ Started(c, "redeeming")
  /\ UNCHANGED numberTokens

\* mutation of approved: the purchase is never sent
approvedOnly(p) ==
  /\ stage[p] = "approving"
  /\ M!approve(User, numberTokens[p])
  /\ UNCHANGED ether
  /\ Received(p, "receipt")

\* The approval is mined; its callback sends the purchase
approved(p) ==
  /\ stage[p] = "approving"
  /\ M!approve(User, numberTokens[p])
  /\ UNCHANGED ether
  /\ IF p \in tracked THEN Went(p, "buying") ELSE Went(p, "abandoned")

\* The purchase is mined, with the price of the pairs in wei beside the coins
bought(p) ==
  /\ stage[p] = "buying"
  /\ M!buyTokens(User, numberTokens[p])
  /\ ether' = ether + numberTokens[p] * tokenPrice
  /\ Received(p, "receipt")

redeemed(c) ==
  /\ stage[c] = "redeeming"
  /\ M!redeem(User)
  /\ UNCHANGED ether
  /\ Received(c, "receipt")

CanRedeem == IF state = 0 THEN link[Manager] >= Payment
             ELSE M!CanRedeem(stableCoin, state, interestMultiplier, User)

\* A transaction that reverts ends the call: nobody catches the error
reverted(c) ==
  /\ \/ stage[c] = "buying"    /\ ~ M!CanBuy(User, numberTokens[c])
     \/ stage[c] = "redeeming" /\ ~ CanRedeem
  /\ Went(c, "reverted")
  /\ UNCHANGED chainVars

\* So does one that the user does not confirm
declined(c) ==
  /\ stage[c] \in {"approving", "buying", "redeeming"}
  /\ Went(c, "declined")
  /\ UNCHANGED chainVars

\* mutation of balanceRead: what is shown already is taken
balanceCached(c) ==
  /\ stage[c] = "receipt"
  /\ seen' = [seen EXCEPT ![c] = userBalanceA]
  /\ stage' = [stage EXCEPT ![c] = "read"]
  /\ UNCHANGED <<chainVars, pageVars, numberTokens, tracked, disturbed>>

\* The last callback awaits the balance of A, and then shows it
balanceRead(c) ==
  /\ stage[c] = "receipt"
  /\ seen' = [seen EXCEPT ![c] = AtokenContract.balances[User]]
  /\ stage' = [stage EXCEPT ![c] = "read"]
  /\ UNCHANGED <<chainVars, pageVars, numberTokens, tracked, disturbed>>

setState(c) ==
  /\ stage[c] = "read"
  /\ userBalanceA' = seen[c]
  /\ seen' = [seen EXCEPT ![c] = 0]
  /\ stage' = [stage EXCEPT ![c] = "done"]
  /\ UNCHANGED <<chainVars, enabled, accounts, page, reloads, numberTokens,
                 tracked, disturbed>>
-----------------------------------------------------------------------------
\* Elsewhere: the node answers, and the admin sets the state
Answer(r) == M!Fulfil(r) /\ UNCHANGED <<ether, pageVars, clickVars>>

Elsewhere ==
  /\ M!trigger_active(Admin) \/ M!trigger_triggered(Admin) \/ M!trigger_timeout(Admin)
  /\ UNCHANGED <<ether, pageVars, clickVars>>

Next ==
  \/ enable \/ componentDidMount \/ loadContract \/ loadInitialContracts
  \/ loaded \/ reload
  \/ \E p \in Purchases : \/ \E n \in BuyAmounts : buyTokens(p, n)
                          \/ approved(p) \/ bought(p)
  \/ \E c \in Redemptions : redeemTokens(c) \/ redeemed(c)
  \/ \E c \in Clicks : \/ reverted(c) \/ declined(c)
                       \/ balanceRead(c) \/ setState(c)
  \/ \E r \in M!CL!Requests : Answer(r)
  \/ Elsewhere

Spec == Init /\ [][Next]_vars
-----------------------------------------------------------------------------
\* The types of the page's state and of the ether, over the Manager's
TypeOK == /\ M!TypeOK
          /\ enabled \in BOOLEAN /\ accounts \in {{}, {User}}
          /\ page \in {"mounting", "loading", "failed", "showing", "loaded"}
          /\ userBalanceA \in M!Uint /\ ether \in Nat
          /\ stage \in [Clicks -> {"idle", "approving", "abandoned", "buying",
               "redeeming", "receipt", "read", "done", "reverted", "declined"}]
          /\ numberTokens \in [Purchases -> BuyAmounts \cup {0}]
          /\ seen \in [Clicks -> M!Uint]
          /\ tracked \subseteq Clicks /\ disturbed \subseteq Clicks

\* No transaction is ever sent from an undefined account, although the page
\* does not wait for the user to let it see one (App.js:43): the forms need the
\* contracts, and those are not kept if the first balance cannot be read (:85).
FormsHaveAnAccount == page = "loaded" \/ tracked # {} => accounts = {User}

\* A purchase is lost after its approval, the user holding the coins and the
\* contract being active, only if another ran beside it: they share one
\* allowance, which must be exactly the cost (App.js:168-170, Manager.sol:61).
LostPurchasesOverlapped ==
  [][\A p \in Purchases :
       stage[p] = "buying" /\ stage'[p] = "reverted" =>
         \/ p \in disturbed
         \/ state # 0
         \/ stableCoin.balances[User] < numberTokens[p] * tokenPrice]_vars

\* When nothing is under way, whatever the Manager may still take is the cost
\* of one purchase that was approved and did not happen (reverted, declined,
\* or forgotten by a reload), never a sum and never of one that did.
LeftoversAreOfOnePurchase ==
  LET left == stableCoin.allowed[User][Manager]
  IN  UnderWay = {} /\ left # 0 =>
        \E p \in Purchases : /\ stage[p] \in {"reverted", "declined", "abandoned"}
                             /\ left = numberTokens[p] * tokenPrice

\* The balance of A that the page settles on is the real one, unless two calls
\* overlapped, whose callbacks may show what they read in the wrong order
\* (App.js:152 and :172), or the oracle has redeemed for the user since.
ShownIsReal ==
  /\ page = "loaded" /\ UnderWay = {} /\ disturbed = {}
  /\ \A r \in M!CL!Requests : redeem_book[r] = User => r \in pendingRequests
  => userBalanceA = AtokenContract.balances[User]

\* App.js:263 says of the price: "Current Price: {tokenPrice} wei per A/B pair
\* of tokens".
PriceIsPaidOnce ==
  [][LET paid == (ether' - ether) +
                   (stableCoin'.balances[Manager] - stableCoin.balances[Manager])
     IN  tokensSold' > tokensSold => paid = tokenPrice * (tokensSold' - tokensSold)
    ]_vars
=============================================================================
