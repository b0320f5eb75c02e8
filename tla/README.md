# Earthquake insurance contracts: a TLA+ development

The program sells pairs of tokens for a stable coin.  Token A pays if an
earthquake is reported before a deadline, token B if not.  The coins are lent
to 88mph while the contract is active, a Raspberry Pi with an accelerometer
reports earthquakes to a web API, and the Manager contract asks a Chainlink
oracle for what the API says.  This directory holds TLA+ modules for the
contracts, the sensor, the API and the web page, TLC configurations that check
them on small instances, and proofs for TLAPS.

    tlc -workers 2 -config MCManager.cfg MCManager
    tlapm TokenProofs.tla

`PROJECT.json` lists the components, the runs, the hazards, the lines each
definition stands for and, for each property, a mutation of the code's model
that breaks it.  Operators commented "mutation of ..." are these mutations; no
other definition uses them.

## 1. Inventory

Paths are relative to `src/`; `contracts/` is `token/contracts/`, `v0.6/` and
`v0.4/` are directories of `token/evm-contracts/src/`.

| component | state | operations | talks to |
|---|---|---|---|
| SafeMath, `contracts/SafeMath.sol` | none | add, sub, mul, div | used by Token and Manager |
| Token, `contracts/Token.sol` | balances, allowances, totalSupply, admin | approve, transfer, transferFrom, adminTransfer, mint, transferPower | called by users, Manager, pool |
| test88MPH, `contracts/test88MPH.sol`, the stand-in for 88mph | a record per depositor; coins | deposit, withdraw, earlyWithdraw | moves coins by Token |
| Manager, `contracts/Manager.sol` | state 0/1/2, tokensSold, interestEarned, interestMultiplier, redeem_book, owner, pending requests | buyTokens, redeem, requestState, fulfillState, trigger_*, admin88mphDeposit/Withdraw, cancelRequest | three Tokens, the pool, the oracle |
| Request protocol: `v0.6/ChainlinkClient.sol`, `v0.6/Oracle.sol`, `v0.4/LinkToken.sol`, `Ownable.sol` | pending requests of each consumer; commitments, withdrawableTokens, authorised nodes, owner of the oracle; LINK | send, oracleRequest, fulfil, cancel, withdraw, permissions, transferOwnership | LINK's transferAndCall calls the oracle; the oracle calls the consumer back |
| updateState, ATestnetConsumer, `contracts/` | the last answer, owner, pending requests | request, fulfil, cancel, transferOwnership | the oracle |
| Earthquake API, `api_lambda/lambda_function.py` | one DynamoDB item; an invocation's progress | GET, POST | sensor writes, node reads |
| Sensor, `raspberry_pi/raspberry_earthquake.py`, `I2C.py` | registers of the ADXL345, `api_called`, the LED | set up, poll, compare, post, destroy | the I2C bus; posts to the API |
| Web client, `token/client/src/App.js` | accounts, what it shows, callbacks under way | load, approve then buy, redeem, show the balance | the wallet; Manager and tokens |
| Deployment, `token/scripts/` | none | the order of deployments and hand-overs | all contracts |

Vendored or dead, and not modelled: `token/protocol-v2-master` (imported by
nothing), the rest of `token/evm-contracts`, the Python packages next to the
lambda, `contracts/AAVE.sol` (commented out).

What is hard, and what must hold for each:

* **SafeMath** looks at a result that has already wrapped.  Its verdict must be
  that of exact arithmetic.
* **Token**: transfers to oneself, `totalSupply` added without SafeMath (line
  156), the admin's right to move anybody's tokens, and a chain of hand-overs.
  Value is conserved; debits have the word of the account or of the admin; only
  the current admin changes the supply.
* **The pool** keeps one record per depositor, replaces it on a second deposit
  (23), and pays interest from whatever it holds (29).  Nobody is paid twice,
  and principal stays available while the interest is covered.
* **The request protocol** keeps two records of one request in two contracts,
  deleted in different functions.  A late answer races a cancellation.  The
  oracle keeps the payment if the callback reverts (`Oracle.sol` 154).  Earned,
  refundable and donated LINK share one balance.  The oracle must be able to
  pay all it owes, and nothing may be paid twice or stranded.
* **The Manager** is where everything meets.  A user's redemption may wait for
  an answer while tokens are traded, the admin lends, collects or triggers and
  other requests are answered; an answer carries a value the API had some time
  before; `fulfillState` does five things that are undone together.  Coins must
  leave only against tokens, an answer must pay whoever asked, the coins must
  remain there to be redeemed, and an outcome must not be reversed by a stale
  answer.
* **updateState and ATestnetConsumer** store whatever answer is mined last.  A
  reading may be lost only to an older one still under way, and the oracle must
  not earn for an answer that is refused.
* **The API**: invocations overlap and are cut off, a read may return an older
  state (`lambda_function.py` 21, 40), and int() of the state may fail.  A state
  that stays must come to be what everyone reads.
* **The sensor**: any transfer may fail, and each method of `I2C.py` then returns
  -1 like a value; two's complement is undone with 65535
  (`raspberry_earthquake.py` 75); `api_called` is never set, so posts repeat.
  No motion but a real one may be reported, and one that lasts must be.
* **The web page**: each click is a chain of callbacks between transactions;
  chains interleave, share one allowance that must be exactly the price, and are
  cut by a reload or by the user.  What remains allowed and what is shown at the
  end must make sense.
* **All together**: what the contract settles on must be something the API said
  after it was asked, and an event the API reports must reach the contract.

The list at their lines is `hazards` in `PROJECT.json`.

## 2. Modules

| module | models | extends or uses |
|---|---|---|
| `SafeMath` | the checks on uints of any width (`MaxUint`) | |
| `TokenOps` | Token.sol as functions of a token's storage | SafeMath |
| `Token` | one token and all its callers | TokenOps |
| `MPHOps` | test88MPH.sol as functions of coin and records | TokenOps |
| `MPH` | the pool, its coin and its depositors | MPHOps |
| `Escrow` | abstract: what the oracle contract promises about money | |
| `Chainlink` | consumers, LINK, oracle contract and node | refines Escrow |
| `Fund` | abstract: what the Manager does with the coins | |
| `Manager` | Manager.sol with three tokens, the pool and the protocol | MPHOps, `CL == INSTANCE Chainlink`; refines Fund |
| `Consumers` | the two small contracts with a node that reads first and answers later | `CL == INSTANCE Chainlink` |
| `I2C`, `ADXL345` | the conversions of the sensor's program, as functions | |
| `Sensor` | the device, the program and the LED | ADXL345 |
| `EarthquakeApi` | the lambda's invocations over one item | |
| `Earthquake` | sensor, API and another client of it | `S == INSTANCE Sensor`, `A == INSTANCE EarthquakeApi` |
| `WebClient` | the page and its wallet over the Manager | `M == INSTANCE Manager` |
| `System` | API, node and Manager | `A == INSTANCE EarthquakeApi`, `M == INSTANCE Manager` |
| `TokenOpsProofs` | lemmas about SafeMath, about the operators of `TokenOps` and about sums | `TokenOps` |
| `TokenProofs`, `MPHProofs`, `EarthquakeProofs` | theorems about `Token`, `MPH` and `Earthquake` | their modules; the first two `TokenOpsProofs` |
| `ChainlinkProofs` | theorems about `Chainlink` and `Escrow` | `Chainlink` |
| `ManagerProofs` | theorems about `Manager` | `TokenOpsProofs`, `CLP == INSTANCE ChainlinkProofs` |
| `WebClientProofs`, `SystemProofs` | theorems about `WebClient` and `System` | `MP == INSTANCE ManagerProofs` |
| `SystemProofs`, at its end | theorems about `Consumers` | `C == INSTANCE Consumers`, `CP == INSTANCE ChainlinkProofs` |
| `MC*` | instances for TLC | |

The EVM runs one transaction at a time, so a transaction is a step, and one
that reverts is no step.  In each function the requires and asserts, its own and
those of what it calls, are guards (`CanMove`, `CanMint`, `CanDeposit`,
`CanRedeem`), and what it does to storage is an operator on that storage
(`Move`, `Mint`, `DepositCoin`, `Retired`).  `Token` and `MPH` make actions of
them for one contract; `Manager` applies the same operators to three tokens and
a pool within one action.  State names are those of the source: `tokensSold`,
`redeem_book`, `interestMultiplier`, `deposit_records`, `withdrawableTokens`.

* **Token** has the storage as a record in `token`.  `sender` holds the last
  `msg.sender`, so that properties can tell who did a step; nothing reads it.
* **MPH**.  `MPH.send` is a transfer of coins by anyone, into the pool too.
* **Chainlink**.  A request is named by its consumer and its nonce, which its id
  hashes.  `transferAndCall`, `onTokenTransfer` and `oracleRequest` are
  one transaction and one action, so are a cancellation and its refund.
  `Answered` and `CallbackReverted` are the two ways the oracle's low-level
  call can end.  With one oracle and one price a commitment is determined by
  its expiration, so it is that number, 0 where there is none.
* **Escrow** has three variables: a status per request, what is held, what is
  earned.  `Chainlink!Status` reads the status off commitments and nonces.
* **Manager**.  `fulfillState` is the oracle's transaction.  `Settlement` is the
  storage as `earlyWithdraw` and the arithmetic leave it, `CanFulfill` is
  everything the callback requires, and it succeeds only as a whole; otherwise
  `fulfillStateReverted` keeps what the oracle did and nothing else.
* **Fund** has four variables: pairs sold, tokens redeemed, coins held, and the
  multiplier.  `Manager!F` reads them off the tokens and the pool: `Held` is what
  Manager and pool hold together, `Redeemed` what the Manager took back of A and
  B.  Lending and triggering are invisible to it; a settlement is `Settle`.
* **Consumers** conjoins Chainlink's actions with what the contract does in the
  same transaction, as Manager does.  `read` is what the node has read for a
  request; `fulfill` stores it (times 100 for ATestnetConsumer).
* **Sensor** has `main` in `pc`: construct, setRange, gpio, read, posting.  A
  transfer that fails gives `Fault`, and `I2C` says what the program makes of it.
  The registers are the device's and survive the program.  `Earthquake` joins
  `posted` and `raised` to the end of a call to the API.
* **EarthquakeApi** has a record per client in `call`.  A POST is two steps,
  `change_state` and `get_state`; `fail` and `lose` cut it off before, between
  and after them.  `stale` is what a read that is not consistent may still
  return; `propagate` empties it.
* **WebClient** has the progress of each click in `stage`.  A transaction is
  mined (`approved`, `bought`, `redeemed`), reverts, or is declined; its receipt
  runs the callback if the click is still `tracked`, that is if the page has not
  been loaded again.  `balanceRead` and `setState` are the two sides of the last
  await.  `disturbed` and `ether` are read by no action.
* **System** identifies a run of the job with its request: `call[r]`.
  `jobAnswers` is the oracle's transaction with what `call[r]` got.  `offered`
  records what the API might have said since a request was made, for the
  property.

Abstractions: events, names and decimals; gas (taken to be enough); ids and
addresses are model values.  Ether sent to payable functions, which no contract
reads, is in `WebClient` only.  The page's other fields (supply, price, state,
balances of B and coin), read once while it loads, are left out, as is the form
of an earlier example in App.js (`changeVyper`).
`requestState` and `cancelRequest` take arguments that name the oracle, the job
and the price; they are the one oracle and price here.  In `Manager` users move
A, B and their coins by `transfer` and buy with `approve`; other uses of
allowances are in `Token`.  The admin of A and B after deployment is the
Manager; the admin of the coin leaves it alone.  The node is the oracle's owner
in `Manager`; other nodes, permissions and hand-overs of the oracle are in
`Chainlink`.  LINK allowances are unused and left out.

## 3. Runs

| run | question | size |
|---|---|---|
| `token` | conservation, rights to debit, rights to mint | three addresses, one of which grants allowances, words of 0..2, so that sums overflow |
| `mph` | double payment; principal available while interest is covered; SafeMath against exact arithmetic | two depositors, a pool bounded by `MaxLent`; every balance with every 6-bit uint |
| `chainlink` | can the oracle always pay; do the two records agree; Escrow; is any payment stranded when nobody answers | two consumers, three requests' worth of LINK, an operator and another account |
| `consumers` | is an answer paid for and refused; which readings are lost | an updateState with two requests, an ATestnetConsumer with one, an API that goes back and forth |
| `manager` | the money: the abstract fund `FundSpec`, `Solvent`, `WinnersCanRedeem`, `SettlingCollectsTheLoan` | two users, two pairs, one request, three API values, loans of 30 |
| `manager_requests` | who is paid by which answer; does the Manager obey the protocol | two users, two requests, LINK for one and one more to donate |
| `earthquake` | are alarms real; are shakes reported; do readers agree; are the conversions right | three motions on both sides of the threshold, one of them a strong negative one; two clients; states 0, 1 and one that int() refuses |
| `web` | what is lost, left allowed and shown when callbacks interleave | two purchases of one or two pairs, one redemption, one reload, coins for two pairs |
| `system` | what does the contract settle on; does an event arrive | one request, one poster that sets and resets the API, one user, one loan |
| `manager_price`, `manager_event`, `web_ether` | what the repository says and the code does not do | counterexamples, section 4 |

**Bounds.**  `MaxUint` is the width.  It is small in `Token`, where wrap-around
is the point, and large in `Manager`, where the interesting numbers are far
below it.  A pair costs 100, the admin lends 30 and the pool was given 6: one
loan earns 3 and two earn 6, so with two pairs sold the multiplier is 0, 1 or
2, and with one it is 0, 2 or 5.  Below, at and above the price are all
reached.  `MaxSold` and `MaxPool` bound the pairs sold and the pool's balance,
`MaxLent` what `MPH` is lent, `MaxRequests` the requests of a consumer, `MaxNow`
the time.  `MaxNow` leaves time for a request to expire and be cancelled, before
or after an answer to another.  Two users suffice for payments to the
wrong one, and two requests for answers out of order.  `SYMMETRY` permutes the
users, whose initial balances are equal, and is used in no run that checks
liveness.  The motions of `earthquake` are at rest, 77/256 g along y, just above
the threshold of 0.3 g, and 76/256 g together with -128 g along x, so that one
wrong bit or sign would report the third.  `system` has one request: what
requests do to each other is in `manager_requests` and `consumers`.  Its safety
property also held with two (2.7 million states).

Deadlock is checked except in `consumers`, `web`, `web_ether` and `system`, where
people may stop: all clicks done, all requests made, no time left.

**Fairness.**  Transactions are sent by people, and a node may be down, so most
specifications have none.  `Chainlink!OwnerSpec`: time passes, and the owner of
a consumer cancels an expired request that stays open, for which
`cancelRequest` exists.  `Manager!NodeSpec`, `Consumers!Spec` and `System!Spec`:
the node starts a run for every request and answers with what it read, which is
what it runs for.  Weak fairness is enough, nobody but an answer or a
cancellation closes a request.  In `System` and `Earthquake` invocations of the
lambda run on (weak fairness of `Serve`), which does not keep them from being
cut off.  `Earthquake!LiveSpec` also has the program's loop run on, copies of
the item catch up, and strong fairness of two steps of the sensor's call: among
posts made again and again, one gets through.  Without it `ShakesAreReported`
would promise more than a network can.  Beyond the owner who cancels nothing is
assumed of people: nobody need shake, post, click, buy or redeem.

## 4. What the checks show

The passing properties are stated with their reasons in the modules.  The most
important:

* `Chainlink!OracleCovers` and `EscrowSpec`: in every order of requests,
  answers, failed callbacks, refunds, withdrawals and donations the oracle holds
  all it earned plus a refund of every open request, and each payment goes one
  way.
* `Chainlink!CommittedIsPending`: a request open at the oracle is pending at its
  consumer.  The converse is false: after a reverted callback the consumer
  waits for ever.
* `Manager!Solvent`: while redemptions pay at most the price, Manager and pool
  hold the price of every token not redeemed.  It rests on the check of line
  170, that the interest is not negative, and on redeemed tokens being taken
  before they are paid (122).
* `Manager!FundSpec`: every transaction sells pairs at the price, redeems tokens,
  each once, at the multiplier, settles on at most what was earned beyond the
  price of everything sold, or leaves the money alone.
* `Manager!AnswersPayTheirRequester`, `SettlingCollectsTheLoan`: what a step may do
  to other users and to an outcome.
* `Manager!WinnersCanRedeem`: at a multiplier of at most 1 and with the loan
  collected no winner is left without coins, unless the outcome was changed after
  tokens of the other kind were redeemed.  Above 1 this is false: the multiplier
  is the interest in whole per cent used as a factor (171), and the first
  redemption may already find too few coins.
* `Manager!RequestProtocol`: the Manager's steps are steps of `Chainlink`.
* `Consumers!EarnedAnswersAreAwaited`, `FreshAnswersStay`: no order of answers,
  cancellations and hand-overs makes a consumer pay for an answer it refuses; a
  fresh reading is lost only to an older one still under way, and that does
  happen: without the condition the property fails.
* `Earthquake!AlarmsAreReal`: no failed transfer and no arithmetic of the program
  makes a report of a motion below the threshold.  `ReadingsAreOneOff` says why
  65535 does no harm: it moves negative readings up by one, and never across.
* `Earthquake!ShakesAreReported`, `ReportsSettle`: because `api_called` is never
  set, a lasting shake is reported again after every failed post and every
  reset, if the device measures.  A state that stays is in the end what every
  reader is told, though the answer to a POST may be the state before it.
* `WebClient!LostPurchasesOverlapped`, `LeftoversAreOfOnePurchase`,
  `ShownIsReal`: purchases are lost only to each other; what remains allowed is
  the price of one that did not happen; the balance shown is wrong only after an
  overlap.  Each of these exceptions occurs.
* `System!SettlesOnWhatTheApiSaid`, `EventsAreSettled`: an outcome settled by the
  oracle was on the API, or in a copy of its item, at some time after the request
  was made; and if the API has settled on the event when a run begins, the
  contract is triggered, unless the API is set back, the run's call fails, or
  `fulfillState` cannot go through.

Also seen: a second deposit with 88mph replaces the record of the first, whose
coins stay in the pool (`test88MPH.sol` 23).  The accelerometer stays in standby
if the first read or write of `__init__` fails (`raspberry_earthquake.py` 44-46),
and the program polls zeros and reports nothing; the properties of `Earthquake`
therefore speak of a device that measures.

Three sentences of the repository's documentation do not hold of the code:

* `manager_price`: after a trigger `interestMultiplier` is 0, and redeeming
  takes the token and pays nothing (`Manager.sol` 120; README 5).
* `manager_event`: without a recorded loan `fulfillState` reverts on every
  answer that brings news, the request is used up, and the contract stays active
  (`Manager.sol` 167, README 9).
* `web_ether`: the page approves the price in coins and sends the same number of
  wei with the purchase, which no contract returns (`App.js` 170; the line it
  displays, 263, gives the price in wei only).

## 5. Proofs

Each theorem holds for every value of the constants that meets the assumptions.

| module | theorems | what they say | assumptions on the constants |
|---|---|---|---|
| `TokenOpsProofs` | `AddExact`, `MulExact` | `add` and `mul` go on exactly when the true result fits | a word of any width |
| `TokenProofs` | `TokenTypeOK`, `TokenSupplyIsSumOfBalances`, `TokenSupplyFollowsAdmin`, `TokenDebitsAreAuthorised` | two invariants and two action properties: no balance leaves its range, tokens are conserved, rights to mint and to debit | finitely many addresses, any width |
| `MPHProofs` | `MPHTypeOK`, `MPHRecordsAreBacked`, `MPHPrincipalIsAvailable`, `MPHAddIsExact`, `MPHMulIsExact` | the invariants of the pool, and that SafeMath is right about every balance | amounts are uints; the coin is well typed and its balances add up to at most its supply |
| `ChainlinkProofs` | `ChainlinkTypeOK`, `ChainlinkCommittedIsPending`, `ChainlinkOracleCovers` | the three invariants | the oracle is no consumer, consumers are finitely many, the first owner has a key; prices and times are natural numbers |
| | `ChainlinkEscrow`, `EscrowCovered` | `Spec => E!Spec`, the refinement, and that the escrow can always pay | the same |
| | `ChainlinkRefundIsReady`, `ChainlinkDeadlinesStand` | an open request can be refunded from a time on that never moves | the same |
| `ManagerProofs` | `ManagerRequestProtocol`, `ManagerRequestsAreCovered`, `ManagerRefundIsReady` | `Spec => CL!Spec`, and what Chainlink promises of the Manager's requests | those of Chainlink, and of Manager: see below |
| | `ManagerFund`, `FundSolvent` | `Spec => F!Spec`, the refinement, and that the fund stays solvent | the same |
| | `ManagerTypeOK`, `ManagerSolvent`, `ManagerWinnersCanRedeem`, `ManagerAnswersGoThrough` | the invariants of the money, and when `fulfillState` cannot revert | the same |
| | `ManagerPayoutsRetireTokens`, `ManagerAnswersPayTheirRequester`, `ManagerSettlingCollectsTheLoan` | the action properties | the same |
| `EarthquakeProofs` | `EarthquakeTypeOK`, `EarthquakeReadingsAreOneOff`, `EarthquakeByteOrdersAgree`, `EarthquakeFormatIsKept` | types and conversions, under every failure of the bus | motions are triples of words |
| | `EarthquakeShakesArePosted`, `EarthquakeReportsStay` | the steps of a report: a shake that is read is posted, a post sets the item, what has settled is what is read | the same |
| | `EarthquakeAlarmsAreReal` | no false alarm | and the item is not 1 when the sensor starts |
| `WebClientProofs` | `WebClientRunsManager` | `Spec => M!Spec`: the page does to the contracts only what Manager allows | those of Manager; purchases are finitely many, `MaxSold` leaves room for them, nothing is allowed at first |
| | `WebClientKeepsManager`, `WebClientEtherIsKept` | `FundSpec`, `Solvent`, `WinnersCanRedeem` and the two action properties of Manager under the page; the ether the Manager holds is the price of all pairs, once more | the same |
| | `WebClientTypeOK`, `WebClientFormsHaveAnAccount`, `WebClientLeftovers`, `WebClientShownIsReal`, `WebClientLostPurchasesOverlapped` | the four invariants and the action property of the page | the same |
| `SystemProofs` | `SystemRunsManager`, `SystemTypeOK`, `SystemSettlesOnWhatTheApiSaid` | `Spec => M!Spec`, the types, and where an outcome comes from | those of Manager; the poster is no request |
| | `SystemKeepsManager` | the same promises of Manager, with the node's answers | the same |
| | `SystemRunsAdvance`, `SystemEventsStay` | the steps of a run of the job, and of an event on its way to the contract | the same |
| | `ConsumersTypeOK`, `ConsumersEarnedAnswersAreAwaited` | the types of the two small contracts, and that no payment is kept for an answer they refuse | in the theorems: those of Chainlink, and that the deployer is an account |
| | `ConsumersFreshReadingsStay` | the steps of a fresh reading on its way to a contract | and that a request costs something |

Of Manager it is assumed that there are finitely many addresses; that Manager and
pool differ, and neither they nor `address(0)` are users or the admin; that
price, 2 and `MaxSold` are uints; and that the coins are well typed, the Manager
has none at first, and the balances add up to at most the supply.  A token of
`Token.sol` meets the last as long as its supply has not wrapped around
(`TokenSupplyIsSumOfBalances`).  The others describe how the contracts are
deployed.

The arguments:

* **SafeMath.**  `AddExact`: a sum that wraps wraps once and is then below either
  summand.  `MulExact`: if the wrapped product divided by `a` gives `b` back, it
  is at least `a * b`, so nothing wrapped.
* **Operators.**  For each operator on a token's storage `TokenOpsProofs` says what
  it keeps (`MoveType`, ...) when its guard holds and what it does (`MoveEffect`,
  `MoveFromEffect`).  These lemmas speak of any storage; Token, MPH and Manager
  cite the same ones.
* **Sums.**  Properties about all balances need sums over a set of addresses.
  `SumsExist` gives a function on the subsets of `Address` with the recursion of a
  sum: finite sets are built up one element at a time (`SubsetInduction`), and the
  fold of the community modules agrees with it.  From `SumUpdate`, that changing
  one value changes the sum by the difference, follow what a move and a mint do
  to the total, `TotalCovers`, that two balances never exceed it, and
  `MoveSucceeds`, that a move of what one has cannot overflow at the other end
  while the total is a uint.
* **Token.**  `TypeOK` is inductive, and the action properties follow from it,
  one step per function.  The overflow check of `_transfer` is what keeps a
  balance in range, by `AddExact`.
* **MPH.**  `TypeOK` alone is not inductive, because what is lent to the pool
  would fall below zero if a record could exceed it, so `Inv` is `TypeOK` and
  `RecordsAreBacked` together.  `PrincipalIsAvailable` needs
  `PoolIsAccountedFor`: the pool holds what is lent and the surplus.
* **Chainlink.**  `CommittedIsPending` is inductive with `TypeOK`.  The refinement
  needs `NoncesAreFresh`, that no request not yet made is open, to tell a new
  request from a closed one.  Each step then is the escrow's `Request`,
  `Settle`, `Refund`, `Collect` or `Donate`, or leaves it unchanged.  The escrow
  is a few lines, so that it can pay is proved there (`EscrowCovered`: one open
  request more or less is one payment more or less), and `OracleCovers` is that
  theorem read back through the refinement.  `RefundIsReady` adds `FallDue` to
  these, that every expiration lies at most `ExpiryTime` ahead.
* **Manager.**  `RequestProtocol` is proved first: every action changes the LINK
  contracts as one of Chainlink's does, a reverted callback as `CallbackReverted`,
  and the oracle is its first owner's all along.  The theorems of Chainlink
  then hold of it, and `CL!TypeOK` is part of the types.  `StorageOK` is the rest
  of them, inductive because every number that grows passes a `require` or wraps
  around.  Seen from the money, every step is a `Sale(n)` or a `Redemption(n)`, of no token if
  it is neither (`FundsStep`); one lemma per action says so.  The step that
  needs most is `fulfillState`, whose loan comes home with interest, is compared
  with the price of what was sold (`SettlementIsCovered`), and may be followed by
  a redemption in the same transaction.  `Books` then follows: A and B exist in
  the number sold, whoever holds them, and no more coins exist than a uint
  counts.  `BooksInv`, the storage and the books, is inductive.  With it each of
  these steps is one of `Fund` (`FundStep`): a settlement compares coins with the
  supply of A, which by the books is `tokensSold`, and each pair is redeemed at
  most once as A and once as B.  `FundSolvent` is proved of the fund alone
  (`FundInv`), where a step is a line of arithmetic, and `Solvent` is that theorem
  read back through the refinement.
  `AnswersGoThrough` says which condition on the coins alone, `LoanIsRepaid`,
  makes every `require` of `fulfillState` pass; the redemption at its end then
  goes through by `RedeemSucceeds`, which `WinnersCanRedeem` cites as well.
  `WinnersCanRedeem` uses the sums once more: no redemption can fail for an
  overflow of a balance.
* **Earthquake.**  `TypeInv` is the types of the sensor and of the API.  The
  conversions are proved for every word and not for those at
  the edges only; `reverseByteOrder` is a fold over the two bytes of a word,
  which is unfolded twice.  `AlarmsAreReal` needs `QuietInv`: as long as nothing
  has shaken the device, its motion is not above the threshold, the program is
  not posting, the LED is off, and no call and no copy of the item holds a 1.
  `ShakesArePosted` needs `ReportInv`: `api_called` stays FALSE, and a call of the
  program's is a POST of 1, under way only while it is posting or has ended.
* **The page.**  `StagesOK` counts: the pairs sold and those of the purchases
  under way are at most what all purchases ask for, so the bound `MaxSold` of
  Manager is never what stops one, and `WebClientRunsManager` holds without it.
  `CoinsInv` says what the allowance is: the price of one purchase that is buying
  or did not happen, and of `p` itself if `p` is buying and nothing ran beside
  it.  With `BuySucceeds` of `ManagerProofs`, that `buyTokens` goes through
  whenever the coins and the allowance are there, a revert then needs another
  reason.  `EtherIsThePrice` follows from the same steps, since a sale is always a
  `bought` of the page (`SaleAdds`).  `RealInv` follows a balance from the chain through the callback to the
  page, as long as clicks do not overlap.
* **System.**  `OffersInv`: what a run of the job has read has been offered to its
  request, and the item and its copies have been offered to every open request.
  An outcome that changes is the answer of such a run.  A request made anew has
  no run and no offer from before, because its nonce is new (`OpenIsMade`).
  `RunsRead` adds that a run only ever reads, in the order of `RunPhases`; `Stage`
  counts how far it is.  A step that closes a request is its answer
  or its cancellation (`ClosingStep`).
* **Consumers.**  The actions of `Consumers` are steps of Chainlink
  (`ConsumersStep`), so `CommittedIsPending` holds of it.  An answer is paid for
  only while its request is open, and then it is pending too, so that it is
  accepted.  The types are inductive with those of Chainlink.  `ConsumersInv` adds
  that nonces are fresh and that nothing is read for a request before it is made,
  so that a new request brings no old reading.

`Manager` and `Chainlink` are instantiated in the modules that compose them and in
those of the theorems.  A few lemmas there (`SameManager`, `SameTypes`,
`SameAssumptions`) say that both instances define the same thing.

**Liveness.**  The prover does not reason about fairness and ENABLED, so
`RequestsAreResolved`, `EventsAreSettled`, `ShakesAreReported`, `ReportsSettle` and
`FreshAnswersStay` are properties that TLC checks.  What is proved is the part of
each that no fairness can give, for all values of the constants:

| property | proved | left to TLC |
|---|---|---|
| `Chainlink!RequestsAreResolved` | an open request can be refunded once its deadline is past, and the deadline stands still (`RefundIsReady`, `DeadlineStands`) | time passes, the owner cancels |
| `System!RequestsAreResolved` | while its request is open a run never goes back, and each of its steps takes it further (`RunAdvances`) | the steps are taken |
| `System!EventsAreSettled` | a run that begins when the API has settled on the event keeps awaiting it, until it is settled or one of the exceptions of the property holds (`EventStays`) | the run ends |
| `Earthquake!ShakesAreReported` | a reading of a shaken device becomes a post, and a post that is not dropped sets the item (`ShakesArePosted`) | among posts without end one gets through |
| `Earthquake!ReportsSettle` | a report that has settled is what is read, until the item changes (`Told`) | copies catch up, calls return |
| `Consumers!FreshAnswersStay` | what the API says stays the only reading under way, an answer stores it, and nothing sets it back (`FreshStays`) | the node answers |

The counterexamples of section 4 are TLC's as well.  Every safety property that
a passing run checks is proved.

## 6. Plan

Every component with logic of its own is modelled: SafeMath, Token, MPH,
Chainlink with Escrow, Manager with Fund, Consumers, Earthquake with its parts,
WebClient and System, each used by later ones.  Every safety property is proved
for all values of the constants, Manager's promises are carried over to the page
and to the whole system, and the steps behind the liveness properties are proved.
When the code changes, these come first:

1. A condition or statement of `fulfillState` or `redeemExecute` that changes moves
   `CanSettle`, `Settlement` or `Retired`; `FundsStep` in `ManagerProofs` is then
   where a proof breaks, or `FundStep` if the books still hold.
2. If `api_called` is ever set, `ShakesAreReported` fails in the run `earthquake`
   and `ShakesArePosted` in the proofs.
3. If a trigger computes `interestMultiplier`, or `fulfillState` stops depending on
   the loan, `manager_price` or `manager_event` becomes a passing run.

## 7. Not modelled

* `token/protocol-v2-master` (Aave, imported by nothing), the other contracts in
  `token/evm-contracts` (aggregators, VRF, older versions), and the Python
  packages beside the lambda (`requests`, `urllib3`, `chardet`, `idna`
  and `certifi`): third-party code.  The lambda imports `requests` and does not
  use it.  These packages are most of the repository's lines, and most of
  theirs are tables of code points.
* `contracts/AAVE.sol`: commented out.
* `token/scripts`: sequences of deployments without state.  They fix the initial
  states of `Manager` and `WebClient`; those that call functions which the
  contracts no longer have, or pass the constructor other arguments
  (`deploy.py` 9 lacks the pool), cannot be run as they are.
* `getWeb3.js`, `getEthereum.js`: which provider is used.  The reads a page makes
  once and only displays.
* In the vendored contracts that are modelled: LINK allowances, ENS look-ups and
  requests added from elsewhere, none of which the program uses.
