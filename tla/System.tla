-------------------------------- MODULE System --------------------------------
(***************************************************************************)
(* The way from the web API to the contract: the lambda and its item (an   *)
(* instance of EarthquakeApi), the Chainlink node's job, and the Manager   *)
(* (an instance of Manager) with whoever deals with it.                    *)
(*                                                                         *)
(* The node, external, runs the job of a request once: it asks the API and *)
(* sends the answer it got.  If the call fails so does the run, and the    *)
(* request goes unanswered until the Manager's owner cancels it.  Whoever  *)
(* posts to the API, the sensor or a person, is one client.  Triggers and  *)
(* trades are left to Manager.                                             *)
(***************************************************************************)
EXTENDS Integers, FiniteSets

CONSTANTS Poster,       \* who posts to the API
          NoItem, NoState, InitialItem      \* of EarthquakeApi

CONSTANTS MaxUint, Address, Users, Admin, Manager, Pool, Zero, tokenPrice,
          InitialCoin, Answers, BuyAmounts, MaxSold, DepositAmounts, MaxPool,
          TradeAmounts, Owners, LinkAddress, Oracle, Operator, InitialLink,
          Payment, ExpiryTime, MaxRequests, MaxNow, LinkAmounts
          \* those of Manager

VARIABLES stableCoin, AtokenContract, BtokenContract, deposit_records, state,
          tokensSold, interestEarned, interestMultiplier, redeem_book, owner,
          link, pendingRequests, requestCount, commitments,
          withdrawableTokens, authorizedNodes, oracle_owner, now

VARIABLES item, stale, call     \* of EarthquakeApi; call has the node's runs

VARIABLE offered    \* what the API might have said since a request was made
                    \* (read by no action)

managerVars == <<stableCoin, AtokenContract, BtokenContract, deposit_records,
                 state, tokensSold, interestEarned, interestMultiplier,
                 redeem_book, owner, link, pendingRequests, requestCount,
                 commitments, withdrawableTokens, authorizedNodes,
                 oracle_owner, now>>
apiVars == <<item, stale, call>>
vars    == <<managerVars, apiVars, offered>>

M == INSTANCE Manager

Requests == M!CL!Requests
Clients  == Requests \cup {Poster}

A == INSTANCE EarthquakeApi WITH States <- Answers, Integral <- Answers

ASSUME ManagerAssumptions == /\ M!MaxUintAssumption /\ M!FiniteAssumption
                             /\ M!PoolAssumption    /\ M!ManagerAssumption
                             /\ M!ValueAssumption   /\ M!ChainlinkAssumption
ASSUME SystemAssumption   == A!ApiAssumption /\ Poster \notin Requests

Open(r) == commitments[r] # M!CL!None

Init == /\ M!Init
        /\ A!Init
        /\ offered = [r \in Requests |-> {}]

\* What the API may say is offered to every request that is open
Offer ==
  offered' = [r \in Requests |->
                IF commitments'[r] # M!CL!None
                THEN offered[r] \cup {item'} \cup stale' ELSE offered[r]]

Api     == UNCHANGED managerVars /\ Offer
Dealing == UNCHANGED apiVars /\ Offer
-----------------------------------------------------------------------------
\* mutation of jobStarts: the node asks before it is asked
jobStartsEarly(r) ==
  /\ A!send(r, "GET", NoState)
  /\ Api

\* The node: a run of the job asks the API, and its answer is mined later
jobStarts(r) ==
  /\ Open(r)
  /\ A!send(r, "GET", NoState)
  /\ Api

jobAnswers(r) ==
  /\ call[r].phase = "ok"
  /\ \/ M!fulfillState(oracle_owner, r, call[r].answer)
     \/ M!fulfillStateReverted(oracle_owner, r, call[r].answer)
  /\ A!take(r)
  /\ Offer

Serve(c) == A!Handler(c) /\ Api

\* Anything may fail, the answer of a run and that of a post
Break(c) == (A!fail(c) \/ A!lose(c)) /\ Api

Post ==
  /\ \E s \in Answers : A!send(Poster, "POST", s)
  /\ Api

Posted == A!take(Poster) /\ Api

Propagate == A!propagate /\ Api
-----------------------------------------------------------------------------
\* Those who deal with the Manager
Sale ==
  /\ \E user \in Users, n \in BuyAmounts :
       tokensSold + n <= MaxSold /\ (M!approve(user, n) \/ M!buyTokens(user, n))
  /\ Dealing

Ask ==
  /\ M!requestState \/ \E user \in Users : M!redeem(user)
  /\ Dealing

Loan ==
  /\ \/ \E amount \in DepositAmounts :
          /\ stableCoin.balances[Pool] + amount <= MaxPool
          /\ M!admin88mphDeposit(Admin, amount)
     \/ M!admin88mphWithdraw(Admin)
  /\ Dealing

Cancel(r) == M!cancelRequest(owner, r) /\ Dealing

Tick ==
  /\ M!CL!Tick
  /\ UNCHANGED <<stableCoin, AtokenContract, BtokenContract, deposit_records,
                 state, tokensSold, interestEarned, interestMultiplier,
                 redeem_book, owner>>
  /\ Dealing

Next ==
  \/ \E r \in Requests : jobStarts(r) \/ jobAnswers(r) \/ Cancel(r)
  \/ \E c \in Clients : Serve(c) \/ Break(c)
  \/ Post \/ Posted \/ Propagate
  \/ Sale \/ Ask \/ Loan \/ Tick

\* The node and the lambda run on; nobody need deal with the Manager
Spec == /\ Init /\ [][Next]_vars
        /\ \A r \in Requests : WF_vars(jobStarts(r)) /\ WF_vars(jobAnswers(r))
        /\ \A c \in Clients : WF_vars(Serve(c))
-----------------------------------------------------------------------------
TypeOK == /\ M!TypeOK
          /\ A!TypeOK
          /\ offered \in [Requests -> SUBSET (Answers \cup {NoItem})]

\* The oracle settles the contract only on something the API may have said
\* after the request was made (lambda_function.py:21, Manager.sol:156): an
\* answer is never older than its question, but for what the database still
\* returns of an older state.
SettlesOnWhatTheApiSaid ==
  [][state' # state =>
       \E r \in Requests : Open(r) /\ commitments'[r] = M!CL!None
                           /\ state' \in offered[r]]_vars

\* The positive side of what the repository's README says of an event: if the
\* API has settled on 1 when a run begins, the contract ends as triggered,
\* unless the API is set back, the call of the run fails, or the Manager cannot
\* go through with it (Manager.sol:163-178) or has no longer to.
EventsAreSettled ==
  \A r \in Requests :
    Open(r) /\ call[r].phase = "idle" /\ item = 1 /\ stale = {}
      ~> \/ state = 1
         \/ item # 1
         \/ call[r].phase \in {"error", "lost"}
         \/ ~ M!CanFulfill(r, 1)

\* The node closes every request, although the Manager may revert on its
\* answer (Oracle.sol:147-154), unless the call of its run fails: int() of a
\* missing state, an invocation cut off, a connection lost.  Such a request is
\* open until its owner cancels it (see Chainlink!OwnerSpec).
RequestsAreResolved ==
  \A r \in Requests : Open(r) ~> ~ Open(r) \/ call[r].phase \in {"error", "lost"}
=============================================================================
