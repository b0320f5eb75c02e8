----------------------------- MODULE SystemProofs -----------------------------
(***************************************************************************)
(* What holds of the way from the web API to the contract, for any number  *)
(* of requests, any answers and any order of calls, failures and           *)
(* transactions: whoever deals with the Manager runs it as Manager.tla     *)
(* has it, and the oracle settles only on what the API may have said after *)
(* the request was made.  At the end, what holds of the two small          *)
(* contracts, an instance of Consumers, that ask an oracle the same way.   *)
(***************************************************************************)
EXTENDS System, TLAPS

\* The theorems about the Manager
MP == INSTANCE ManagerProofs

\* The Manager of the theorems is the Manager of the system: the two instances
\* have the same definitions,
LEMMA SameManager ==
  /\ M!Init => MP!Init
  /\ [M!Next]_(M!vars) => [MP!Next]_(MP!vars)
BY Zenon
   DEF M!Uint, MP!Uint, M!Wrap, MP!Wrap, M!AddOK, MP!AddOK, M!SubOK,
         MP!SubOK, M!MulOK, MP!MulOK, M!DivOK, MP!DivOK, M!TokenState,
         MP!TokenState, M!Deployed, MP!Deployed, M!Debited, MP!Debited,
         M!CanMove, MP!CanMove, M!Move, MP!Move, M!CanMoveFrom,
         MP!CanMoveFrom, M!MoveFrom, MP!MoveFrom, M!CanAdminMove,
         MP!CanAdminMove, M!Approve, MP!Approve, M!CanMint, MP!CanMint,
         M!Mint, MP!Mint, M!HandOver, MP!HandOver, M!Records, MP!Records,
         M!CanDeposit, MP!CanDeposit, M!DepositCoin, MP!DepositCoin,
         M!DepositRecord, MP!DepositRecord, M!Matured, MP!Matured,
         M!CanWithdraw, MP!CanWithdraw, M!WithdrawCoin, MP!WithdrawCoin,
         M!CanEarlyWithdraw, MP!CanEarlyWithdraw, M!EarlyWithdrawCoin,
         MP!EarlyWithdrawCoin, M!Cleared, MP!Cleared, M!linkVars,
         MP!linkVars, M!coinVars, MP!coinVars, M!tokenVars, MP!tokenVars,
         M!interestVars, MP!interestVars, M!vars, MP!vars, M!Init, MP!Init,
         M!approve, MP!approve, M!CanBuy, MP!CanBuy, M!buyTokens,
         MP!buyTokens, M!trade, MP!trade, M!Winner, MP!Winner, M!Payout,
         MP!Payout, M!CanRedeem, MP!CanRedeem, M!Retired, MP!Retired,
         M!redeemExecute, MP!redeemExecute, M!requestState,
         MP!requestState, M!redeemLater, MP!redeemLater, M!redeemNow,
         MP!redeemNow, M!redeem, MP!redeem, M!Principal, MP!Principal,
         M!Interest, MP!Interest, M!Multiplier, MP!Multiplier, M!CanSettle,
         MP!CanSettle, M!Settlement, MP!Settlement, M!Payee, MP!Payee,
         M!CanFulfill, MP!CanFulfill, M!fulfillState, MP!fulfillState,
         M!fulfillStateReverted, MP!fulfillStateReverted, M!Fulfil,
         MP!Fulfil, M!trigger, MP!trigger, M!trigger_active,
         MP!trigger_active, M!trigger_triggered, MP!trigger_triggered,
         M!trigger_timeout, MP!trigger_timeout, M!admin88mphDeposit,
         MP!admin88mphDeposit, M!admin88mphWithdraw, MP!admin88mphWithdraw,
         M!cancelRequest, MP!cancelRequest, M!transferOwnership,
         MP!transferOwnership, M!Elsewhere, MP!Elsewhere, M!Next, MP!Next,
         M!CL!Accounts, MP!CL!Accounts, M!CL!clientVars, MP!CL!clientVars,
         M!CL!oracleVars, MP!CL!oracleVars, M!CL!rightsVars,
         MP!CL!rightsVars, M!CL!vars, MP!CL!vars, M!CL!Requests,
         MP!CL!Requests, M!CL!None, MP!CL!None,
         M!CL!OneForConsistentGasCost, MP!CL!OneForConsistentGasCost,
         M!CL!Init, MP!CL!Init, M!CL!LinkMoves, MP!CL!LinkMoves,
         M!CL!oracleRequest, MP!CL!oracleRequest, M!CL!transferAndCall,
         MP!CL!transferAndCall, M!CL!sendChainlinkRequestTo,
         MP!CL!sendChainlinkRequestTo, M!CL!fulfillOracleRequest,
         MP!CL!fulfillOracleRequest, M!CL!recordChainlinkFulfillment,
         MP!CL!recordChainlinkFulfillment, M!CL!Answered, MP!CL!Answered,
         M!CL!CallbackReverted, MP!CL!CallbackReverted,
         M!CL!cancelOracleRequest, MP!CL!cancelOracleRequest,
         M!CL!cancelChainlinkRequest, MP!CL!cancelChainlinkRequest,
         M!CL!withdraw, MP!CL!withdraw, M!CL!linkTransfer,
         MP!CL!linkTransfer, M!CL!Tick, MP!CL!Tick

\* the same types
LEMMA SameTypes == MP!TypeOK => M!TypeOK
BY Zenon
   DEF M!TypeOK, MP!TypeOK, M!TokenState, MP!TokenState, M!Uint, MP!Uint,
       M!Records, MP!Records, M!CL!TypeOK, MP!CL!TypeOK, M!CL!Requests,
       MP!CL!Requests, M!CL!Accounts, MP!CL!Accounts

\* and the same assumptions.
LEMMA SameAssumptions ==
  /\ MP!MaxUintAssumption /\ MP!FiniteAssumption /\ MP!PoolAssumption
  /\ MP!ManagerAssumption /\ MP!ValueAssumption /\ MP!ChainlinkAssumption
<1>1. MP!FiniteAssumption
  BY ManagerAssumptions DEF M!IsFiniteSet, MP!IsFiniteSet
<1>2. MP!ChainlinkAssumption
  BY ManagerAssumptions
     DEF M!CL!AddressAssumption, MP!CL!AddressAssumption,
         M!CL!LinkAssumption, MP!CL!LinkAssumption, M!CL!TimeAssumption,
         MP!CL!TimeAssumption, M!CL!Accounts, MP!CL!Accounts,
         M!CL!IsFiniteSet, MP!CL!IsFiniteSet
<1>3. MP!ManagerAssumption /\ MP!ValueAssumption
  <2>1. M!ManagerAssumption /\ M!ValueAssumption
          => MP!ManagerAssumption /\ MP!ValueAssumption
    BY Zenon
       DEF M!Uint, MP!Uint, M!TokenState, MP!TokenState, M!SumFunction,
           MP!SumFunction, M!SumFunctionOnSet, MP!SumFunctionOnSet,
           M!FoldFunctionOnSet, MP!FoldFunctionOnSet, M!MapThenFoldSet,
           MP!MapThenFoldSet
  <2>2. QED
    BY <2>1, ManagerAssumptions
<1>4. QED
  BY <1>1, <1>2, <1>3, ManagerAssumptions

-----------------------------------------------------------------------------
\* The API's state is well typed, a call that is to change the item has a
\* state to change it to, and one that went well an answer.
CallOK(c) == /\ call[c].phase = "change" => call[c].body \in Answers
             /\ call[c].phase = "ok" => call[c].answer \in Answers

ApiOK == A!TypeOK /\ \A c \in Clients : CallOK(c)

\* A call as it is, as it is sent and as its phase changes.
LEMMA CallFacts ==
  ASSUME ApiOK, NEW c \in Clients
  PROVE  /\ A!Idle \in A!Calls /\ A!Idle.phase = "idle"
         /\ \A phase \in A!Phases :
              /\ [call[c] EXCEPT !.phase = phase] \in A!Calls
              /\ [call[c] EXCEPT !.phase = phase].phase = phase
              /\ [call[c] EXCEPT !.phase = phase].body = call[c].body
         /\ call[c] \in A!Calls /\ call[c].body \in Answers \cup {NoState}
         /\ NoState \notin Answers
BY SystemAssumption
   DEF ApiOK, A!TypeOK, A!ApiAssumption, A!Calls, A!Idle, A!Phases, A!Methods,
       A!Bodies

\* A client's call goes on to another phase.
LEMMA CallGoes ==
  ASSUME ApiOK, NEW c \in Clients, NEW phase \in A!Phases \ {"ok"},
         A!Go(c, phase), phase = "change" => call[c].body \in Answers
  PROVE  call' \in [Clients -> A!Calls] /\ \A d \in Clients : CallOK(d)'
<1>1. call \in [Clients -> A!Calls] /\ \A d \in Clients : CallOK(d)
  BY DEF ApiOK, A!TypeOK
<1>2. QED
  BY <1>1, CallFacts DEF A!Go, CallOK

\* The API keeps its state so, whoever calls it and however calls end.
LEMMA ApiStep ==
  ASSUME ApiOK,
         \/ \E c \in Clients : A!Handler(c) \/ A!fail(c) \/ A!lose(c) \/ A!take(c)
         \/ \E c \in Clients, method \in A!Methods, body \in A!Bodies :
              A!send(c, method, body)
         \/ A!propagate
         \/ UNCHANGED apiVars
  PROVE  ApiOK'
<1>0. call \in [Clients -> A!Calls] /\ \A c \in Clients : CallOK(c)
  BY DEF ApiOK, A!TypeOK
<1>1. {"get", "change", "error", "lost"} \subseteq A!Phases \ {"ok"}
  BY DEF A!Phases
<1>2. ASSUME NEW c \in Clients, A!lambda_handler(c) \/ A!fail(c) \/ A!lose(c)
      PROVE  ApiOK'
  <2>1. PICK phase \in A!Phases \ {"ok"} :
          A!Go(c, phase) /\ (phase = "change" => call[c].body # NoState)
    BY <1>1, <1>2 DEF A!lambda_handler, A!fail, A!lose
  <2>2. UNCHANGED <<item, stale>>
    BY <1>2 DEF A!lambda_handler, A!fail, A!lose
  <2>3. phase = "change" => call[c].body \in Answers
    BY <2>1, CallFacts
  <2>4. QED
    BY <2>1, <2>2, <2>3, CallGoes DEF ApiOK, A!TypeOK
<1>3. ASSUME NEW c \in Clients, A!change_state(c)
      PROVE  ApiOK'
  <2>1. A!Go(c, "get") /\ call[c].body \in Answers
    BY <1>0, <1>3 DEF A!change_state, CallOK
  <2>2. item' = call[c].body /\ stale' = (stale \cup {item}) \ {item'}
    BY <1>3 DEF A!change_state
  <2>3. QED
    BY <1>1, <2>1, <2>2, CallGoes DEF ApiOK, A!TypeOK
<1>4. ASSUME NEW c \in Clients, A!get_state(c)
      PROVE  ApiOK'
  <2>1. PICK value : A!Answered(c, value)
    BY <1>4 DEF A!get_state
  <2>2. UNCHANGED <<item, stale>>
    BY <1>4 DEF A!get_state
  <2>3. CASE value \in Answers
    <3> DEFINE new == [call[c] EXCEPT !.phase = "ok", !.answer = value]
    <3>1. call' = [call EXCEPT ![c] = new]
      BY <2>1, <2>3 DEF A!Answered
    <3>2. new \in A!Calls /\ new.phase = "ok" /\ new.answer = value
      BY <2>3, CallFacts DEF A!Calls, A!Phases
    <3> HIDE DEF new
    <3>3. call' \in [Clients -> A!Calls] /\ \A d \in Clients : CallOK(d)'
      BY <1>0, <2>3, <3>1, <3>2 DEF CallOK
    <3>4. QED
      BY <2>2, <3>3 DEF ApiOK, A!TypeOK
  <2>4. CASE value \notin Answers
    <3>1. A!Go(c, "error")
      BY <2>1, <2>4 DEF A!Answered
    <3>2. QED
      BY <1>1, <2>2, <3>1, CallGoes DEF ApiOK, A!TypeOK
  <2>5. QED
    BY <2>3, <2>4
<1>5. ASSUME NEW c \in Clients, A!take(c)
      PROVE  ApiOK'
  BY <1>0, <1>5, CallFacts DEF A!take, ApiOK, A!TypeOK, CallOK
<1>6. ASSUME NEW c \in Clients, NEW method \in A!Methods, NEW body \in A!Bodies,
             A!send(c, method, body)
      PROVE  ApiOK'
  <2> DEFINE new == [call[c] EXCEPT !.phase = "sent", !.method = method,
                                    !.body = body]
  <2>1. call' = [call EXCEPT ![c] = new]
    BY <1>6 DEF A!send
  <2>2. new \in A!Calls /\ new.phase = "sent"
    BY <1>6, CallFacts DEF A!Calls, A!Phases
  <2> HIDE DEF new
  <2>3. call' \in [Clients -> A!Calls] /\ \A d \in Clients : CallOK(d)'
    BY <1>0, <2>1, <2>2 DEF CallOK
  <2>4. QED
    BY <1>6, <2>3 DEF A!send, ApiOK, A!TypeOK
<1>7. CASE A!propagate \/ UNCHANGED apiVars
  BY <1>7 DEF A!propagate, apiVars, ApiOK, A!TypeOK, CallOK
<1>8. QED
  BY <1>2, <1>3, <1>4, <1>5, <1>6, <1>7 DEF A!Handler

\* Every step is one of the API's or leaves it alone.
LEMMA StepsOfApi ==
  ASSUME [Next]_vars
  PROVE  \/ \E c \in Clients : A!Handler(c) \/ A!fail(c) \/ A!lose(c) \/ A!take(c)
         \/ \E c \in Clients, method \in A!Methods, body \in A!Bodies :
              A!send(c, method, body)
         \/ A!propagate
         \/ UNCHANGED apiVars
<1>1. /\ Poster \in Clients /\ Requests \subseteq Clients
      /\ {"GET", "POST"} \subseteq A!Methods
      /\ NoState \in A!Bodies /\ Answers \subseteq A!Bodies
  BY DEF Clients, A!Methods, A!Bodies
<1>2. ASSUME NEW r \in Requests, jobStarts(r)
      PROVE  A!send(r, "GET", NoState) /\ r \in Clients
  BY <1>1, <1>2 DEF jobStarts
<1>3. ASSUME NEW r \in Requests, jobAnswers(r)
      PROVE  A!take(r) /\ r \in Clients
  BY <1>1, <1>3 DEF jobAnswers
<1>4. ASSUME Post
      PROVE  \E s \in Answers : A!send(Poster, "POST", s)
  BY <1>4 DEF Post
<1>5. CASE \/ Sale \/ Ask \/ Loan \/ Tick \/ (\E r \in Requests : Cancel(r))
           \/ UNCHANGED vars
  BY <1>5 DEF Sale, Ask, Loan, Tick, Cancel, Dealing, vars, apiVars
<1>6. CASE (\E c \in Clients : Serve(c) \/ Break(c)) \/ Posted \/ Propagate
  BY <1>1, <1>6 DEF Serve, Break, Posted, Propagate
<1>7. QED
  BY <1>1, <1>2, <1>3, <1>4, <1>5, <1>6 DEF Next
-----------------------------------------------------------------------------
\* Nobody is given the Manager here.
OwnerIsAdmin == owner = Admin

\* Whoever deals with the Manager does what Manager.tla lets them: the node
\* answers with a value of the API, and the owner is the admin.
LEMMA ManagerStep ==
  ASSUME ApiOK, OwnerIsAdmin, [Next]_vars
  PROVE  [M!Next]_(M!vars) /\ OwnerIsAdmin'
<1>0. Admin \in Users \cup {Admin} /\ Requests = M!CL!Requests
  BY DEF Requests
<1>1. CASE UNCHANGED managerVars
  BY <1>1 DEF managerVars, M!vars, M!coinVars, M!tokenVars, M!interestVars,
              M!linkVars, OwnerIsAdmin
<1>2. ASSUME NEW r \in Requests, jobAnswers(r)
      PROVE  M!Next /\ OwnerIsAdmin'
  <2>1. call[r].answer \in Answers
    BY <1>2 DEF jobAnswers, ApiOK, CallOK, Clients
  <2>2. M!Fulfil(r)
    BY <1>2, <2>1 DEF jobAnswers, M!Fulfil
  <2>3. M!Next
    BY <1>0, <2>2 DEF M!Next
  <2>4. QED
    BY <2>2, <2>3 DEF M!Fulfil, M!fulfillState, M!fulfillStateReverted,
                      OwnerIsAdmin
<1>3. CASE Sale
  <2>1. M!Next
    BY <1>3 DEF Sale, M!Next
  <2>2. QED
    BY <1>3, <2>1 DEF Sale, M!approve, M!buyTokens, OwnerIsAdmin
<1>4. CASE Ask
  <2>1. M!Next
    BY <1>4 DEF Ask, M!Next
  <2>2. QED
    BY <1>4, <2>1 DEF Ask, M!requestState, M!redeem, M!redeemLater,
                      M!redeemNow, OwnerIsAdmin
<1>5. CASE Loan
  <2>1. M!Next
    BY <1>0, <1>5 DEF Loan, M!Next
  <2>2. QED
    BY <1>5, <2>1 DEF Loan, M!admin88mphDeposit, M!admin88mphWithdraw,
                      OwnerIsAdmin
<1>6. ASSUME NEW r \in Requests, Cancel(r)
      PROVE  M!Next /\ OwnerIsAdmin'
  <2>1. M!cancelRequest(Admin, r)
    BY <1>6 DEF Cancel, OwnerIsAdmin
  <2>2. M!Next
    BY <1>0, <2>1 DEF M!Next
  <2>3. QED
    BY <2>1, <2>2 DEF M!cancelRequest, OwnerIsAdmin
<1>7. CASE Tick
  <2>1. M!Elsewhere
    BY <1>7 DEF Tick, M!Elsewhere, M!coinVars, M!tokenVars, M!interestVars
  <2>2. QED
    BY <1>7, <2>1 DEF Tick, M!Next, OwnerIsAdmin
<1>8. QED
  BY <1>1, <1>2, <1>3, <1>4, <1>5, <1>6, <1>7
     DEF Next, jobStarts, Serve, Break, Post, Posted, Propagate, Api, vars

LEMMA SystemApiOK == Spec => [](ApiOK /\ OwnerIsAdmin)
<1>1. Init => ApiOK /\ OwnerIsAdmin
  <2> SUFFICES ASSUME Init PROVE ApiOK
    BY DEF Init, M!Init, OwnerIsAdmin
  <2>1. /\ item = InitialItem /\ stale = {}
        /\ call = [c \in Clients |-> A!Idle]
    BY DEF Init, A!Init
  <2>2. A!Idle \in A!Calls /\ A!Idle.phase = "idle"
    BY DEF A!Idle, A!Calls, A!Phases, A!Methods, A!Bodies
  <2>3. QED
    BY <2>1, <2>2, SystemAssumption DEF ApiOK, A!TypeOK, A!ApiAssumption, CallOK
<1>2. ApiOK /\ OwnerIsAdmin /\ [Next]_vars => ApiOK' /\ OwnerIsAdmin'
  BY ApiStep, StepsOfApi, ManagerStep
<1>3. QED
  BY <1>1, <1>2, PTL DEF Spec

\* The way from the API to the contract is a run of the Manager, in which the
\* node answers with what it got from the API: what is proved of Manager.sol
\* for any answers holds here.
THEOREM SystemRunsManager == Spec => M!Spec
<1>1. Init => M!Init
  BY DEF Init
<1>2. ApiOK /\ OwnerIsAdmin /\ [Next]_vars => [M!Next]_(M!vars)
  BY ManagerStep
<1>3. QED
  BY <1>1, <1>2, SystemApiOK, PTL DEF Spec, M!Spec

LEMMA ManagerInvariants == Spec => [](M!TypeOK /\ MP!OpenIsMade)
<1>1. M!Spec => MP!Spec
  BY SameManager, PTL DEF M!Spec, MP!Spec
<1>2. QED
  BY <1>1, SystemRunsManager, SameAssumptions, SameTypes,
     MP!ManagerTypeOK, MP!ManagerOpenIsMade, PTL

\* What Manager.sol keeps for any answers it keeps for those of the API: coins
\* move as Fund has it, the price of what is out is there, every winner can
\* redeem, an answer pays only who asked, and it changes the outcome only by
\* collecting a loan.
THEOREM SystemKeepsManager ==
  Spec => /\ M!FundSpec
          /\ [](M!Solvent /\ M!WinnersCanRedeem)
          /\ M!AnswersPayTheirRequester
          /\ M!SettlingCollectsTheLoan
<1>1. M!Spec => MP!Spec
  BY SameManager, PTL DEF M!Spec, MP!Spec
<1>2. MP!FundSpec => M!FundSpec
  <2>1. /\ MP!F!Init => M!F!Init
        /\ [MP!F!Next]_(MP!F!vars) => [M!F!Next]_(M!F!vars)
    BY Zenon
       DEF MP!F!Init, M!F!Init, MP!F!Next, M!F!Next, MP!F!vars, M!F!vars,
           MP!F!Sell, M!F!Sell, MP!F!Redeem, M!F!Redeem, MP!F!Pay, M!F!Pay,
           MP!F!Settle, M!F!Settle, MP!Held, M!Held, MP!Redeemed, M!Redeemed
  <2>2. QED
    BY <2>1, PTL DEF MP!FundSpec, M!FundSpec, MP!F!Spec, M!F!Spec
<1>3. MP!Solvent /\ MP!WinnersCanRedeem => M!Solvent /\ M!WinnersCanRedeem
  BY Zenon
     DEF MP!Wrap, M!Wrap, MP!Solvent, M!Solvent, MP!WinnersCanRedeem,
         M!WinnersCanRedeem,
         MP!Held, M!Held, MP!Redeemed, M!Redeemed, MP!CanRedeem, M!CanRedeem,
         MP!Winner, M!Winner, MP!Payout, M!Payout, MP!CanMove, M!CanMove,
         MP!CanAdminMove, M!CanAdminMove, MP!AddOK, M!AddOK, MP!SubOK,
         M!SubOK, MP!MulOK, M!MulOK, MP!Uint, M!Uint, MP!Debited, M!Debited,
         MP!Move, M!Move
<1>4. /\ MP!AnswersPayTheirRequester => M!AnswersPayTheirRequester
      /\ MP!SettlingCollectsTheLoan => M!SettlingCollectsTheLoan
  <2>1. /\ MP!CL!Requests = M!CL!Requests
        /\ MP!CL!None = M!CL!None
        /\ MP!vars = M!vars
    BY Zenon
       DEF MP!CL!Requests, M!CL!Requests, MP!CL!None, M!CL!None, MP!vars, M!vars,
           MP!coinVars, M!coinVars, MP!tokenVars, M!tokenVars, MP!interestVars,
           M!interestVars, MP!linkVars, M!linkVars
  <2> DEFINE
    Pays(requests, none) ==
      \A r \in requests :
        commitments[r] # none /\ commitments'[r] = none =>
          \A user \in Users \ {redeem_book[r]} :
            /\ stableCoin'.balances[user]     = stableCoin.balances[user]
            /\ AtokenContract'.balances[user] = AtokenContract.balances[user]
            /\ BtokenContract'.balances[user] = BtokenContract.balances[user]
    Collects(requests, none) ==
      \A r \in requests :
        /\ commitments[r] # none /\ commitments'[r] = none
        /\ state' # state
        => /\ state' \in {1, 2}
           /\ deposit_records[Manager] > 0
           /\ deposit_records'[Manager] = 0
    PaysMP == Pays(MP!CL!Requests, MP!CL!None)
    PaysM  == Pays(M!CL!Requests, M!CL!None)
    CollectsMP == Collects(MP!CL!Requests, MP!CL!None)
    CollectsM  == Collects(M!CL!Requests, M!CL!None)
  <2>2. /\ MP!AnswersPayTheirRequester => [][PaysMP]_(MP!vars)
        /\ MP!SettlingCollectsTheLoan  => [][CollectsMP]_(MP!vars)
    BY DEF MP!AnswersPayTheirRequester, MP!SettlingCollectsTheLoan
  <2>3. /\ [][PaysM]_(M!vars)     => M!AnswersPayTheirRequester
        /\ [][CollectsM]_(M!vars) => M!SettlingCollectsTheLoan
    BY DEF M!AnswersPayTheirRequester, M!SettlingCollectsTheLoan
  <2>4. (PaysMP => PaysM) /\ (CollectsMP => CollectsM)
    BY <2>1, Zenon
  <2>5. UNCHANGED MP!vars => UNCHANGED M!vars
    BY Zenon
       DEF MP!vars, M!vars, MP!coinVars, M!coinVars, MP!tokenVars, M!tokenVars,
           MP!interestVars, M!interestVars, MP!linkVars, M!linkVars
  <2> HIDE DEF Pays, Collects, PaysMP, PaysM, CollectsMP, CollectsM
  <2>6. /\ [PaysMP]_(MP!vars) => [PaysM]_(M!vars)
        /\ [CollectsMP]_(MP!vars) => [CollectsM]_(M!vars)
    BY <2>4, <2>5
  <2>7. QED
    BY <2>2, <2>3, <2>6, PTL
<1>5. QED
  BY <1>1, <1>2, <1>3, <1>4, SystemRunsManager, SameAssumptions,
     MP!ManagerFund, MP!ManagerSolvent, MP!ManagerWinnersCanRedeem,
     MP!ManagerAnswersPayTheirRequester, MP!ManagerSettlingCollectsTheLoan, PTL
-----------------------------------------------------------------------------
\* What has been offered to a request
OfferedOK == offered \in [Requests -> SUBSET (Answers \cup {NoItem})]

\* The state of the contracts, of the API and of its calls stays well typed.
THEOREM SystemTypeOK == Spec => []TypeOK
<1>1. Init => OfferedOK
  BY DEF Init, OfferedOK
<1>2. OfferedOK /\ ApiOK' /\ [Next]_vars => OfferedOK'
  <2> SUFFICES ASSUME OfferedOK, ApiOK', [Next]_vars PROVE OfferedOK'
    OBVIOUS
  <2>1. Offer \/ UNCHANGED offered
    BY DEF Next, vars, jobStarts, jobAnswers, Cancel, Serve, Break, Post,
           Posted, Propagate, Sale, Ask, Loan, Tick, Api, Dealing
  <2>2. item' \in Answers \cup {NoItem} /\ stale' \subseteq Answers \cup {NoItem}
    BY DEF ApiOK, A!TypeOK
  <2>3. QED
    BY <2>1, <2>2 DEF Offer, OfferedOK
<1>3. M!TypeOK /\ ApiOK /\ OfferedOK => TypeOK
  BY DEF TypeOK, ApiOK, OfferedOK
<1>4. QED
  BY <1>1, <1>2, <1>3, SystemApiOK, ManagerInvariants, PTL DEF Spec
-----------------------------------------------------------------------------
\* A call begins only for a request that is open, and an answer is what the
\* item or a stale copy of it was when the call got it.
LEMMA CallStep ==
  ASSUME ApiOK, [Next]_vars, NEW r \in Requests
  PROVE  /\ call'[r].phase # "idle" => call[r].phase # "idle" \/ Open(r)
         /\ call'[r].phase = "ok" =>
              \/ call[r].phase = "ok" /\ call'[r].answer = call[r].answer
              \/ call'[r].answer \in {item'} \cup stale'
<1> DEFINE P == /\ call'[r].phase # "idle" => call[r].phase # "idle" \/ Open(r)
                /\ call'[r].phase = "ok" =>
                     \/ call[r].phase = "ok" /\ call'[r].answer = call[r].answer
                     \/ call'[r].answer \in {item'} \cup stale'
<1>0. /\ call \in [Clients -> A!Calls] /\ r \in Clients
      /\ r # Poster
  BY SystemAssumption DEF ApiOK, A!TypeOK, Clients
<1>1. CASE call'[r] = call[r]
  BY <1>1
<1>2. ASSUME NEW c, NEW phase, phase # "ok", A!Go(c, phase), call[c].phase # "idle"
      PROVE  P
  BY <1>0, <1>2 DEF A!Go, A!Calls
<1>3. ASSUME NEW c, A!lambda_handler(c) \/ A!change_state(c) \/ A!fail(c)
      PROVE  P
  BY <1>2, <1>3 DEF A!lambda_handler, A!change_state, A!fail
<1>4. ASSUME NEW c, A!lose(c)
      PROVE  P
  BY <1>2, <1>4 DEF A!lose
<1>5. ASSUME NEW c, A!get_state(c)
      PROVE  P
  <2>1. PICK value \in {item} \cup stale : A!Answered(c, value)
    BY <1>5 DEF A!get_state
  <2>2. CASE value \in Answers
    <3>1. /\ call' = [call EXCEPT ![c].phase = "ok", ![c].answer = value]
          /\ UNCHANGED <<item, stale>> /\ call[c].phase # "idle"
      BY <1>5, <2>1, <2>2 DEF A!get_state, A!Answered
    <3>2. CASE c = r
      BY <1>0, <2>1, <3>1, <3>2 DEF A!Calls
    <3>3. CASE c # r
      BY <1>0, <1>1, <3>1, <3>3
    <3>4. QED
      BY <3>2, <3>3
  <2>3. CASE value \notin Answers
    BY <1>2, <1>5, <2>1, <2>3 DEF A!get_state, A!Answered
  <2>4. QED
    BY <2>2, <2>3
<1>6. ASSUME NEW c, A!take(c)
      PROVE  P
  BY <1>0, <1>6 DEF A!take, A!Idle
<1>7. ASSUME NEW q \in Requests, jobStarts(q)
      PROVE  P
  <2>1. /\ call' = [call EXCEPT ![q].phase = "sent", ![q].method = "GET",
                                ![q].body = NoState]
        /\ Open(q)
    BY <1>7 DEF jobStarts, A!send
  <2>2. CASE q = r
    BY <1>0, <2>1, <2>2 DEF A!Calls
  <2>3. CASE q # r
    BY <1>0, <1>1, <2>1, <2>3
  <2>4. QED
    BY <2>2, <2>3
<1>8. CASE Post \/ Propagate
  BY <1>0, <1>1, <1>8 DEF Post, A!send, Propagate, A!propagate
<1>9. CASE \/ Sale \/ Ask \/ Loan \/ Tick \/ (\E q \in Requests : Cancel(q))
           \/ UNCHANGED vars
  BY <1>1, <1>9 DEF Sale, Ask, Loan, Tick, Cancel, Dealing, vars, apiVars
<1>10. QED
  BY <1>3, <1>4, <1>5, <1>6, <1>7, <1>8, <1>9
     DEF Next, jobAnswers, Serve, A!Handler, Break, Posted

\* Only the next request of the Manager opens.
LEMMA OpenStep ==
  ASSUME M!TypeOK, [Next]_vars
  PROVE  /\ requestCount'[Manager] \in
              {requestCount[Manager], requestCount[Manager] + 1}
         /\ \A r \in Requests :
              Open(r)' => Open(r) \/ r[2] = requestCount[Manager]
<1>0. /\ requestCount \in [{Manager} -> 1 .. MaxRequests + 1]
      /\ requestCount[Manager] \in Nat
      /\ commitments \in [Requests -> 0 .. MaxNow]
  BY ManagerAssumptions DEF M!TypeOK, M!CL!TypeOK, Requests, M!CL!Requests,
       M!ChainlinkAssumption, M!CL!TimeAssumption
<1>1. CASE UNCHANGED <<requestCount, commitments>>
  BY <1>0, <1>1 DEF Open, M!CL!None
<1>2. CASE M!CL!sendChainlinkRequestTo(Manager)
  <2>1. /\ requestCount' = [requestCount EXCEPT ![Manager] = @ + 1]
        /\ commitments' = [commitments EXCEPT
                             ![<<Manager, requestCount[Manager]>>] =
                               now + ExpiryTime]
    BY <1>2 DEF M!CL!sendChainlinkRequestTo, M!CL!transferAndCall,
                M!CL!oracleRequest
  <2>2. requestCount'[Manager] = requestCount[Manager] + 1
    BY <1>0, <2>1
  <2>3. ASSUME NEW r \in Requests, Open(r)'
        PROVE  Open(r) \/ r[2] = requestCount[Manager]
    <3>1. CASE r = <<Manager, requestCount[Manager]>>
      BY <3>1
    <3>2. CASE r # <<Manager, requestCount[Manager]>>
      BY <1>0, <2>1, <2>3, <3>2 DEF Open, M!CL!None
    <3>3. QED
      BY <3>1, <3>2
  <2>4. QED
    BY <1>0, <2>2, <2>3
<1>3. ASSUME NEW q, commitments' = [commitments EXCEPT ![q] = M!CL!None],
             UNCHANGED requestCount
      PROVE  /\ requestCount'[Manager] = requestCount[Manager]
             /\ \A r \in Requests : Open(r)' => Open(r)
  BY <1>0, <1>3 DEF Open, M!CL!None
<1>4. ASSUME NEW q \in Requests, jobAnswers(q)
      PROVE  /\ commitments' = [commitments EXCEPT ![q] = M!CL!None]
             /\ UNCHANGED requestCount
  BY <1>4 DEF jobAnswers, M!fulfillState, M!fulfillStateReverted,
              M!CL!Answered, M!CL!CallbackReverted, M!CL!fulfillOracleRequest
<1>5. ASSUME NEW q \in Requests, Cancel(q)
      PROVE  /\ commitments' = [commitments EXCEPT ![q] = M!CL!None]
             /\ UNCHANGED requestCount
  BY <1>5 DEF Cancel, M!cancelRequest, M!CL!cancelChainlinkRequest,
              M!CL!cancelOracleRequest
<1>6. CASE Ask
  BY <1>1, <1>2, <1>6 DEF Ask, M!requestState, M!redeem, M!redeemLater,
                          M!redeemNow, M!linkVars
<1>7. CASE Sale \/ Loan \/ Tick
  BY <1>1, <1>7 DEF Sale, M!approve, M!buyTokens, Loan, M!admin88mphDeposit,
                    M!admin88mphWithdraw, Tick, M!CL!Tick, M!linkVars,
                    M!CL!clientVars, M!CL!oracleVars
<1>8. QED
  BY <1>1, <1>3, <1>4, <1>5, <1>6, <1>7
     DEF Next, vars, jobStarts, Serve, Break, Post, Posted, Propagate, Api,
         managerVars

\* What the API may say is offered to every open request; a call is under way
\* only for a request that was made; and the answer it has got was offered.
OffersInv ==
  \A r \in Requests :
    /\ Open(r) => {item} \cup stale \subseteq offered[r]
    /\ call[r].phase # "idle" => r[2] < requestCount[Manager]
    /\ Open(r) /\ call[r].phase = "ok" => call[r].answer \in offered[r]

LEMMA OffersStep ==
  ASSUME M!TypeOK, MP!OpenIsMade, ApiOK, OffersInv, [Next]_vars
  PROVE  OffersInv'
<1> SUFFICES ASSUME NEW r \in Requests
             PROVE  /\ Open(r)' => {item'} \cup stale' \subseteq offered'[r]
                    /\ call'[r].phase # "idle" => r[2] < requestCount'[Manager]
                    /\ Open(r)' /\ call'[r].phase = "ok" =>
                         call'[r].answer \in offered'[r]
  BY DEF OffersInv
<1>0. /\ requestCount[Manager] \in Nat /\ r[2] \in Nat
      /\ requestCount \in [{Manager} -> 1 .. MaxRequests + 1]
      /\ r[1] = Manager /\ r \in MP!CL!Requests
  BY ManagerAssumptions DEF M!TypeOK, M!CL!TypeOK, Requests, M!CL!Requests,
       M!ChainlinkAssumption, M!CL!TimeAssumption, MP!CL!Requests
<1>1. CASE UNCHANGED vars
  BY <1>1 DEF vars, managerVars, apiVars, OffersInv, Open
<1>2. CASE Next
  <2>1. Offer
    BY <1>2 DEF Next, jobStarts, jobAnswers, Cancel, Serve, Break, Post,
                Posted, Propagate, Sale, Ask, Loan, Tick, Api, Dealing
  <2>2. Open(r)' => offered'[r] = offered[r] \cup {item'} \cup stale'
    BY <2>1 DEF Offer, Open
  <2>3. call'[r].phase # "idle" => r[2] < requestCount'[Manager]
    <3>1. Open(r) => r[2] < requestCount[Manager]
      BY <1>0 DEF MP!OpenIsMade, Open, M!CL!None, MP!CL!None
    <3>2. call'[r].phase # "idle" => r[2] < requestCount[Manager]
      BY <3>1, CallStep DEF OffersInv
    <3>3. requestCount'[Manager] \in
            {requestCount[Manager], requestCount[Manager] + 1}
      BY OpenStep
    <3>4. QED
      BY <1>0, <3>2, <3>3
  <2>4. ASSUME Open(r)', call'[r].phase = "ok"
        PROVE  call'[r].answer \in offered'[r]
    <3>1. CASE call'[r].answer \in {item'} \cup stale'
      BY <2>2, <2>4, <3>1
    <3>2. CASE call[r].phase = "ok" /\ call'[r].answer = call[r].answer
      <4>1. r[2] < requestCount[Manager]
        BY <3>2 DEF OffersInv
      <4>2. Open(r)
        BY <1>0, <2>4, <4>1, OpenStep
      <4>3. QED
        BY <2>2, <2>4, <3>2, <4>2 DEF OffersInv
    <3>3. QED
      BY <2>4, <3>1, <3>2, CallStep
  <2>5. QED
    BY <2>2, <2>3, <2>4
<1>3. QED
  BY <1>1, <1>2

LEMMA SystemOffers == Spec => []OffersInv
<1>1. Init => OffersInv
  BY DEF Init, M!Init, M!CL!Init, A!Init, A!Idle, OffersInv, Open, Requests,
         Clients
<1>2. QED
  BY <1>1, OffersStep, SystemApiOK, ManagerInvariants, PTL DEF Spec

\* The contract is never settled on an answer older than the question, whatever
\* else is under way, but for what the database still returns of an older state
\* (lambda_function.py:21 reads it, Manager.sol:156 is called back with it).
THEOREM SystemSettlesOnWhatTheApiSaid == Spec => SettlesOnWhatTheApiSaid
<1>1. OffersInv /\ M!TypeOK /\ [Next]_vars =>
        (state' # state =>
           \E r \in Requests : Open(r) /\ commitments'[r] = M!CL!None
                               /\ state' \in offered[r])
  <2> SUFFICES ASSUME OffersInv, M!TypeOK, [Next]_vars, state' # state
               PROVE  \E r \in Requests : Open(r) /\ commitments'[r] = M!CL!None
                                          /\ state' \in offered[r]
    OBVIOUS
  <2>1. ASSUME NEW r \in Requests, jobAnswers(r)
        PROVE  Open(r) /\ commitments'[r] = M!CL!None /\ state' \in offered[r]
    <3>1. M!fulfillState(oracle_owner, r, call[r].answer)
      BY <2>1 DEF jobAnswers, M!fulfillStateReverted
    <3>2. /\ state' = call[r].answer /\ Open(r)
          /\ commitments' = [commitments EXCEPT ![r] = M!CL!None]
      BY <3>1 DEF M!fulfillState, M!CL!Answered, M!CL!fulfillOracleRequest, Open
    <3>3. commitments'[r] = M!CL!None
      BY <3>2 DEF M!TypeOK, M!CL!TypeOK, Requests
    <3>4. QED
      BY <2>1, <3>2, <3>3 DEF jobAnswers, OffersInv
  <2>2. \E r \in Requests : jobAnswers(r)
    BY DEF Next, vars, managerVars, jobStarts, Serve, Break, Post, Posted,
           Propagate, Api, Sale, M!approve, M!buyTokens, Ask, M!requestState,
           M!redeem, M!redeemLater, M!redeemNow, Loan, M!admin88mphDeposit,
           M!admin88mphWithdraw, Cancel, M!cancelRequest, Tick
  <2>3. QED
    BY <2>1, <2>2
<1>2. QED
  BY <1>1, SystemOffers, ManagerInvariants, PTL
     DEF Spec, SettlesOnWhatTheApiSaid
-----------------------------------------------------------------------------
\* Towards the liveness of a run of the job: all of the argument but the
\* fairness of the node and the lambda.  A run only reads, and it goes through
\* these phases, unless its call fails,
RunPhases == {"idle", "sent", "get", "ok"}
Stage == [idle |-> 0, sent |-> 1, get |-> 2, ok |-> 3]

OnlyReads(r) == /\ call[r].phase \in RunPhases \cup {"error", "lost"}
                /\ call[r].phase # "idle" => call[r].method = "GET"

RunsRead == \A r \in Requests : OnlyReads(r)

\* each step of its own taking it to the next.
RunStep(r) ==
  \/ call'[r] = call[r]
  \/ /\ call'[r].phase \in {"error", "lost"}
     /\ call'[r].method = call[r].method
     /\ call[r].phase # "idle"
  \/ call[r].phase = "idle" /\ call'[r].phase = "sent" /\ call'[r].method = "GET"
  \/ /\ call[r].phase = "sent" /\ call'[r].phase = "get"
     /\ call'[r].method = call[r].method
  \/ /\ call[r].phase = "get" /\ call'[r].phase = "ok"
     /\ call'[r].method = call[r].method
     /\ call'[r].answer \in {item} \cup stale
     /\ UNCHANGED <<item, stale>>
  \/ jobAnswers(r) /\ call'[r].phase = "idle"

LEMMA RunSteps ==
  ASSUME ApiOK, NEW r \in Requests, OnlyReads(r), [Next]_vars
  PROVE  RunStep(r)
<1>0. /\ call \in [Clients -> A!Calls] /\ r \in Clients /\ r # Poster
      /\ \A c \in Clients : call[c] \in A!Calls
  BY SystemAssumption DEF ApiOK, A!TypeOK, Clients
<1>1. CASE call'[r] = call[r]
  BY <1>1 DEF RunStep
<1>2. ASSUME NEW c \in Clients, NEW phase, A!Go(c, phase)
      PROVE  /\ c # r => call'[r] = call[r]
             /\ c = r => /\ call'[r].phase = phase
                         /\ call'[r].method = call[r].method
  BY <1>0, <1>2 DEF A!Go, A!Calls
<1>3. ASSUME NEW c \in Clients, Serve(c)
      PROVE  RunStep(r)
  <2>1. CASE A!lambda_handler(c)
    BY <1>1, <1>2, <2>1 DEF A!lambda_handler, OnlyReads, RunStep
  <2>2. CASE A!change_state(c)
    <3>1. A!Go(c, "get") /\ call[c].phase = "change"
      BY <2>2 DEF A!change_state
    <3>2. c # r
      BY <3>1 DEF OnlyReads, RunPhases
    <3>3. QED
      BY <1>1, <1>2, <3>1, <3>2
  <2>3. CASE A!get_state(c)
    <3>1. PICK value \in {item} \cup stale : A!Answered(c, value)
      BY <2>3 DEF A!get_state
    <3>2. call[c].phase = "get" /\ UNCHANGED <<item, stale>>
      BY <2>3 DEF A!get_state
    <3>3. CASE value \in Answers
      <4>1. call' = [call EXCEPT ![c].phase = "ok", ![c].answer = value]
        BY <3>1, <3>3 DEF A!Answered
      <4>2. CASE c = r
        <5>1. /\ call'[r].phase = "ok" /\ call'[r].answer = value
              /\ call'[r].method = call[r].method
          BY <1>0, <4>1, <4>2 DEF A!Calls
        <5>2. QED
          BY <3>1, <3>2, <4>2, <5>1 DEF RunStep
      <4>3. QED
        BY <1>0, <1>1, <4>1, <4>2
    <3>4. CASE value \notin Answers
      <4>1. A!Go(c, "error")
        BY <3>1, <3>4 DEF A!Answered
      <4>2. QED
        BY <1>1, <1>2, <3>2, <4>1 DEF RunStep
    <3>5. QED
      BY <3>3, <3>4
  <2>4. QED
    BY <1>3, <2>1, <2>2, <2>3 DEF Serve, A!Handler
<1>4. ASSUME NEW c \in Clients, Break(c)
      PROVE  RunStep(r)
  <2>1. PICK phase \in {"error", "lost"} : A!Go(c, phase) /\ call[c].phase # "idle"
    BY <1>4 DEF Break, A!fail, A!lose
  <2>2. QED
    BY <1>1, <1>2, <2>1 DEF RunStep
<1>5. ASSUME NEW q \in Requests, jobStarts(q)
      PROVE  RunStep(r)
  <2>1. /\ call' = [call EXCEPT ![q].phase = "sent", ![q].method = "GET",
                                ![q].body = NoState]
        /\ call[q].phase = "idle"
    BY <1>5 DEF jobStarts, A!send
  <2>2. CASE q = r
    BY <1>0, <2>1, <2>2 DEF A!Calls, RunStep
  <2>3. CASE q # r
    BY <1>0, <1>1, <2>1, <2>3
  <2>4. QED
    BY <2>2, <2>3
<1>6. ASSUME NEW q \in Requests, jobAnswers(q)
      PROVE  RunStep(r)
  <2>1. call' = [call EXCEPT ![q] = A!Idle]
    BY <1>6 DEF jobAnswers, A!take
  <2>2. QED
    BY <1>0, <1>1, <1>6, <2>1 DEF A!Idle, RunStep
<1>7. CASE Post \/ Posted \/ Propagate
  <2>1. call' = call \/ \E new : call' = [call EXCEPT ![Poster] = new]
    BY <1>7 DEF Post, A!send, Posted, A!take, Propagate, A!propagate
  <2>2. QED
    BY <1>0, <1>1, <2>1
<1>8. CASE \/ Sale \/ Ask \/ Loan \/ Tick \/ (\E q \in Requests : Cancel(q))
           \/ UNCHANGED vars
  BY <1>1, <1>8 DEF Sale, Ask, Loan, Tick, Cancel, Dealing, vars, apiVars
<1>9. QED
  BY <1>3, <1>4, <1>5, <1>6, <1>7, <1>8 DEF Next

LEMMA SystemRunsRead == Spec => []RunsRead
<1>1. Init => RunsRead
  BY DEF Init, A!Init, A!Idle, Clients, RunsRead, OnlyReads, RunPhases
<1>2. ApiOK /\ RunsRead /\ [Next]_vars => RunsRead'
  <2> SUFFICES ASSUME ApiOK, RunsRead, [Next]_vars, NEW r \in Requests
               PROVE  OnlyReads(r)'
    BY DEF RunsRead
  <2>1. OnlyReads(r) /\ RunStep(r)
    BY RunSteps DEF RunsRead
  <2>2. QED
    BY <2>1 DEF OnlyReads, RunStep, RunPhases
<1>3. QED
  BY <1>1, <1>2, SystemApiOK, PTL DEF Spec

\* An open request closes by an answer of its run or by a cancellation.
LEMMA ClosingStep ==
  ASSUME M!TypeOK, NEW r \in Requests, [Next]_vars, Open(r), ~ Open(r)'
  PROVE  jobAnswers(r) \/ Cancel(r)
<1>0. commitments \in [Requests -> 0 .. MaxNow]
  BY DEF M!TypeOK, M!CL!TypeOK, Requests
<1>1. commitments' # commitments
  BY DEF Open
<1>2. ASSUME NEW q \in Requests, jobAnswers(q) \/ Cancel(q)
      PROVE  commitments' = [commitments EXCEPT ![q] = M!CL!None]
  BY <1>2 DEF jobAnswers, M!fulfillState, M!fulfillStateReverted,
              M!CL!Answered, M!CL!CallbackReverted, M!CL!fulfillOracleRequest,
              Cancel, M!cancelRequest, M!CL!cancelChainlinkRequest,
              M!CL!cancelOracleRequest
<1>3. ASSUME M!CL!sendChainlinkRequestTo(Manager)
      PROVE  FALSE
  <2>1. PICK q : commitments' = [commitments EXCEPT ![q] = now + ExpiryTime]
    BY <1>3 DEF M!CL!sendChainlinkRequestTo, M!CL!transferAndCall,
                M!CL!oracleRequest
  <2>2. now + ExpiryTime # M!CL!None
    BY ManagerAssumptions DEF M!TypeOK, M!CL!TypeOK, M!CL!None,
         M!ChainlinkAssumption, M!CL!TimeAssumption
  <2>3. QED
    BY <1>0, <2>1, <2>2 DEF Open
<1>4. \E q \in Requests : jobAnswers(q) \/ Cancel(q)
  BY <1>1, <1>3
     DEF Next, vars, managerVars, jobStarts, Serve, Break, Post, Posted,
         Propagate, Api, Sale, M!approve, M!buyTokens, Ask, M!requestState,
         M!redeem, M!redeemLater, M!redeemNow, Loan, M!admin88mphDeposit,
         M!admin88mphWithdraw, Tick, M!CL!Tick, M!linkVars, M!CL!clientVars,
         M!CL!oracleVars
<1>5. PICK q \in Requests : jobAnswers(q) \/ Cancel(q)
  BY <1>4
<1>6. q = r
  BY <1>0, <1>2, <1>5 DEF Open
<1>7. QED
  BY <1>5, <1>6

\* A run under way, or to begin, for a request that is open
Running(r) == Open(r) /\ call[r].phase \in RunPhases
Failed(r)  == call[r].phase \in {"error", "lost"}

\* A run never goes back: whatever else happens, its request stays open and the
\* run where it is or further, until it has failed, or answered, or the request
\* is cancelled; and each step of the node's or the lambda's takes it further.
\* With the node and the lambda running on, RequestsAreResolved follows.
RunAdvances(r) ==
  Running(r) =>
    \/ ~ Open(r)' \/ Failed(r)'
    \/ /\ Running(r)'
       /\ Stage[call'[r].phase] >= Stage[call[r].phase]
       /\ jobStarts(r) \/ Serve(r) \/ jobAnswers(r) =>
            Stage[call'[r].phase] > Stage[call[r].phase]

\* What the call of a client does is to change its phase.
LEMMA CallsGoOn ==
  ASSUME ApiOK, NEW r \in Requests, jobStarts(r) \/ Serve(r) \/ jobAnswers(r)
  PROVE  call'[r] # call[r]
<1>1. call \in [Clients -> A!Calls] /\ r \in Clients /\ call[r] \in A!Calls
  BY DEF ApiOK, A!TypeOK, Clients
<1>2. CASE jobStarts(r)
  BY <1>1, <1>2 DEF jobStarts, A!send, A!Calls
<1>3. CASE jobAnswers(r)
  BY <1>1, <1>3 DEF jobAnswers, A!take, A!Idle
<1>4. ASSUME NEW phase, A!Go(r, phase), phase # call[r].phase
      PROVE  call'[r] # call[r]
  BY <1>1, <1>4 DEF A!Go, A!Calls
<1>5. CASE A!lambda_handler(r) \/ A!change_state(r)
  <2>1. PICK phase \in {"get", "change", "error"} :
          A!Go(r, phase) /\ phase # call[r].phase
    BY <1>5 DEF A!lambda_handler, A!change_state
  <2>2. QED
    BY <1>4, <2>1
<1>6. CASE A!get_state(r)
  <2>1. PICK value : A!Answered(r, value)
    BY <1>6 DEF A!get_state
  <2>2. call[r].phase = "get"
    BY <1>6 DEF A!get_state
  <2>3. CASE value \in Answers
    <3>1. call' = [call EXCEPT ![r].phase = "ok", ![r].answer = value]
      BY <2>1, <2>3 DEF A!Answered
    <3>2. call'[r].phase = "ok"
      BY <1>1, <3>1 DEF A!Calls
    <3>3. QED
      BY <2>2, <3>2
  <2>4. CASE value \notin Answers
    BY <1>4, <2>1, <2>2, <2>4 DEF A!Answered
  <2>5. QED
    BY <2>3, <2>4
<1>7. QED
  BY <1>2, <1>3, <1>5, <1>6 DEF Serve, A!Handler

LEMMA AdvanceStep ==
  ASSUME M!TypeOK, ApiOK, RunsRead, NEW r \in Requests, [Next]_vars
  PROVE  RunAdvances(r)
<1> SUFFICES ASSUME Running(r), Open(r)', ~ Failed(r)'
             PROVE  /\ Running(r)'
                    /\ Stage[call'[r].phase] >= Stage[call[r].phase]
                    /\ jobStarts(r) \/ Serve(r) \/ jobAnswers(r) =>
                         Stage[call'[r].phase] > Stage[call[r].phase]
  BY DEF RunAdvances
<1>1. RunStep(r)
  BY RunSteps DEF RunsRead
<1>2. ~ jobAnswers(r)
  <2>1. jobAnswers(r) => commitments' = [commitments EXCEPT ![r] = M!CL!None]
    BY DEF jobAnswers, M!fulfillState, M!fulfillStateReverted, M!CL!Answered,
           M!CL!CallbackReverted, M!CL!fulfillOracleRequest
  <2>2. QED
    BY <2>1 DEF Open, M!TypeOK, M!CL!TypeOK, Requests
<1>3. /\ Stage["idle"] = 0 /\ Stage["sent"] = 1
      /\ Stage["get"] = 2  /\ Stage["ok"] = 3
  BY DEF Stage
<1>4. CASE call'[r] = call[r]
  <2>1. ~ (jobStarts(r) \/ Serve(r) \/ jobAnswers(r))
    BY <1>4, CallsGoOn
  <2>2. QED
    BY <1>3, <1>4, <2>1 DEF Running, RunPhases
<1>5. QED
  BY <1>1, <1>2, <1>3, <1>4 DEF RunStep, Running, RunPhases, Failed

\* No step of the API, the node, people or the contracts takes a run back.
THEOREM SystemRunsAdvance == Spec => [][\A r \in Requests : RunAdvances(r)]_vars
<1>1. M!TypeOK /\ ApiOK /\ RunsRead /\ [Next]_vars
        => [\A r \in Requests : RunAdvances(r)]_vars
  BY AdvanceStep
<1>2. QED
  BY <1>1, ManagerInvariants, SystemApiOK, SystemRunsRead, PTL DEF Spec

\* An event is awaited by a run that has yet to read it, or that has: the API
\* has settled on 1, and the run has no other answer.
Awaiting(r) == /\ Running(r)
               /\ item = 1 /\ stale = {}
               /\ call[r].phase = "ok" => call[r].answer = 1

\* What EventsAreSettled says it comes to
Settled(r) == \/ state = 1
              \/ item # 1
              \/ Failed(r)
              \/ ~ M!CanFulfill(r, 1)

\* As long as the API is not set back, what it settled on cannot be overtaken
\* by an older answer or a stale read, until the contract is settled on it, the
\* run fails or the Manager cannot go through with it (lambda_function.py:21,
\* Manager.sol:156): with RunAdvances, EventsAreSettled but for fairness.
EventStays(r) == Awaiting(r) => Awaiting(r)' \/ Settled(r) \/ Settled(r)'

\* The item settles once and for all, unless it is set back.
LEMMA ItemStep ==
  ASSUME [Next]_vars, item = 1, stale = {}, item' = 1
  PROVE  stale' = {}
<1>1. ASSUME NEW c, A!change_state(c)
      PROVE  stale' = {}
  BY <1>1 DEF A!change_state
<1>2. CASE UNCHANGED stale
  BY <1>2
<1>3. CASE Propagate
  BY <1>3 DEF Propagate, A!propagate
<1>4. QED
  BY <1>1, <1>2, <1>3
     DEF Next, vars, apiVars, jobStarts, A!send, jobAnswers, A!take, Serve,
         A!Handler, A!lambda_handler, A!get_state, Break, A!fail, A!lose, Post,
         Posted, Sale, Ask, Loan, Tick, Cancel, Dealing

LEMMA EventStep ==
  ASSUME M!TypeOK, ApiOK, RunsRead, NEW r \in Requests, [Next]_vars
  PROVE  EventStays(r)
<1> SUFFICES ASSUME Awaiting(r), ~ Settled(r), ~ Settled(r)'
             PROVE  Awaiting(r)'
  BY DEF EventStays
<1>1. item' = 1 /\ stale' = {}
  BY ItemStep DEF Awaiting, Settled
<1>2. ASSUME ~ Open(r)'
      PROVE  FALSE
  <2>1. CASE jobAnswers(r)
    <3>1. call[r].answer = 1
      BY <2>1 DEF jobAnswers, Awaiting
    <3>2. CASE M!fulfillState(oracle_owner, r, 1)
      BY <3>2 DEF M!fulfillState, Settled
    <3>3. CASE M!fulfillStateReverted(oracle_owner, r, 1)
      BY <3>3 DEF M!fulfillStateReverted, Settled
    <3>4. QED
      BY <2>1, <3>1, <3>2, <3>3 DEF jobAnswers
  <2>2. CASE Cancel(r)
    <3>1. r \notin pendingRequests'
      BY <2>2 DEF Cancel, M!cancelRequest, M!CL!cancelChainlinkRequest
    <3>2. ~ M!CanFulfill(r, 1)'
      BY <3>1 DEF M!CanFulfill
    <3>3. QED
      BY <3>2 DEF Settled
  <2>3. QED
    BY <1>2, <2>1, <2>2, ClosingStep DEF Awaiting, Running
<1>3. Running(r)'
  BY <1>2, AdvanceStep DEF RunAdvances, Awaiting, Settled
<1>4. call'[r].phase = "ok" => call'[r].answer = 1
  <2>1. RunStep(r)
    BY RunSteps DEF RunsRead
  <2>2. QED
    BY <2>1 DEF RunStep, Awaiting
<1>5. QED
  BY <1>1, <1>3, <1>4 DEF Awaiting

\* A run of the job that is to begin when the API has settled on 1 awaits it,
\* and goes on to until the event is settled.
THEOREM SystemEventsStay ==
  Spec => [][\A r \in Requests :
               /\ Open(r) /\ call[r].phase = "idle" /\ item = 1 /\ stale = {}
                    => Awaiting(r)
               /\ EventStays(r)]_vars
<1>1. \A r \in Requests :
        Open(r) /\ call[r].phase = "idle" /\ item = 1 /\ stale = {} => Awaiting(r)
  BY DEF Awaiting, Running, RunPhases
<1>2. M!TypeOK /\ ApiOK /\ RunsRead /\ [Next]_vars
        => \A r \in Requests : EventStays(r)
  BY EventStep
<1>3. M!TypeOK /\ ApiOK /\ RunsRead /\ [Next]_vars
        => [\A r \in Requests :
               /\ Open(r) /\ call[r].phase = "idle" /\ item = 1 /\ stale = {}
                    => Awaiting(r)
               /\ EventStays(r)]_vars
  BY <1>1, <1>2
<1>4. QED
  BY <1>3, ManagerInvariants, SystemApiOK, SystemRunsRead, PTL DEF Spec
-----------------------------------------------------------------------------
\* updateState and ATestnetConsumer with an oracle and a node.  The variables of
\* LINK and the oracle stand for theirs; nothing is assumed of the Manager.
CONSTANTS Updater, Consumer
VARIABLES stored, consumer_owner, api, read

C == INSTANCE Consumers WITH Address <- LinkAddress, owner <- consumer_owner

\* The theorems about the request protocol, for their requests
CP == INSTANCE ChainlinkProofs WITH
        Address <- LinkAddress, Consumers <- {Updater, Consumer},
        InitialOwner <- Operator, owner <- oracle_owner, LinkAmounts <- {}

\* Their operator owns the oracle contract for good, and every step is one of
\* the request protocol, or leaves its state alone.
OracleIsOperated == oracle_owner = Operator

LEMMA ConsumersStep ==
  ASSUME C!ChainlinkAssumption, OracleIsOperated, [C!Next]_(C!vars)
  PROVE  [C!CL!Next]_(C!CL!vars) /\ OracleIsOperated'
<1> USE DEF OracleIsOperated
<1>0. Operator \in C!CL!Accounts
  BY DEF C!ChainlinkAssumption, C!CL!AddressAssumption
<1>1. CASE UNCHANGED C!linkVars
  BY <1>1 DEF C!linkVars, C!CL!vars, C!CL!clientVars, C!CL!oracleVars,
              C!CL!rightsVars
<1>2. ASSUME NEW c \in C!Contracts, NEW sender, C!request(c, sender)
      PROVE  C!CL!Next /\ oracle_owner' = oracle_owner
  BY <1>2 DEF C!request, C!CL!Next, C!CL!sendChainlinkRequestTo,
              C!CL!transferAndCall, C!CL!oracleRequest, C!CL!rightsVars
<1>3. ASSUME NEW r \in C!CL!Requests, C!nodeAnswers(r)
      PROVE  C!CL!Next /\ oracle_owner' = oracle_owner
  <2>1. /\ C!CL!fulfillOracleRequest(oracle_owner, r)
        /\ pendingRequests' = pendingRequests \ {r}
    BY <1>3 DEF C!nodeAnswers, C!fulfill
  <2>2. C!CL!Answered(oracle_owner, r) \/ C!CL!CallbackReverted(oracle_owner, r)
    BY <2>1 DEF C!CL!Answered, C!CL!CallbackReverted,
                C!CL!recordChainlinkFulfillment
  <2>3. C!CL!Fulfil(r)
    BY <1>0, <2>2 DEF C!CL!Fulfil
  <2>4. oracle_owner' = oracle_owner
    BY <2>1 DEF C!CL!fulfillOracleRequest, C!CL!rightsVars
  <2>5. QED
    BY <2>3, <2>4 DEF C!CL!Next
<1>4. ASSUME NEW r \in C!CL!Requests, NEW sender, C!cancelRequest(r, sender)
      PROVE  C!CL!Next /\ oracle_owner' = oracle_owner
  BY <1>4 DEF C!cancelRequest, C!CL!Next, C!CL!cancelChainlinkRequest,
              C!CL!cancelOracleRequest, C!CL!rightsVars
<1>5. CASE C!Tick
  BY <1>5 DEF C!Tick, C!CL!Tick, C!CL!Next, C!CL!rightsVars
<1>6. QED
  BY <1>1, <1>2, <1>3, <1>4, <1>5
     DEF C!Next, C!nodeReads, C!apiChanges, C!transferOwnership, C!vars,
         C!linkVars

\* The protocol's theorems hold of the two contracts.
LEMMA ConsumersProtocol ==
  ASSUME C!ChainlinkAssumption
  PROVE  C!Spec => [](C!CL!TypeOK /\ C!CL!CommittedIsPending /\ CP!NoncesAreFresh)
<1>1. CP!AddressAssumption /\ CP!LinkAssumption /\ CP!TimeAssumption
  BY DEF C!ChainlinkAssumption, C!CL!AddressAssumption, C!CL!LinkAssumption,
         C!CL!TimeAssumption, C!CL!Accounts, CP!Accounts, C!Contracts,
         C!CL!IsFiniteSet, CP!IsFiniteSet
<1>2. /\ C!CL!Init => CP!Init
      /\ [C!CL!Next]_(C!CL!vars) => [CP!Next]_(CP!vars)
  BY Zenon
     DEF C!Contracts, C!CL!Init, CP!Init, C!CL!Next, CP!Next, C!CL!Fulfil,
         CP!Fulfil, C!CL!sendChainlinkRequestTo, CP!sendChainlinkRequestTo,
         C!CL!transferAndCall, CP!transferAndCall, C!CL!oracleRequest,
         CP!oracleRequest, C!CL!LinkMoves, CP!LinkMoves,
         C!CL!fulfillOracleRequest, CP!fulfillOracleRequest,
         C!CL!recordChainlinkFulfillment, CP!recordChainlinkFulfillment,
         C!CL!Answered, CP!Answered, C!CL!CallbackReverted,
         CP!CallbackReverted, C!CL!cancelOracleRequest,
         CP!cancelOracleRequest, C!CL!cancelChainlinkRequest,
         CP!cancelChainlinkRequest, C!CL!withdraw, CP!withdraw,
         C!CL!linkTransfer, CP!linkTransfer, C!CL!setFulfillmentPermission,
         CP!setFulfillmentPermission, C!CL!transferOwnership,
         CP!transferOwnership, C!CL!Tick, CP!Tick, C!CL!Requests,
         CP!Requests, C!CL!Accounts, CP!Accounts, C!CL!None, CP!None,
         C!CL!OneForConsistentGasCost, CP!OneForConsistentGasCost,
         C!CL!vars, CP!vars, C!CL!clientVars, CP!clientVars,
         C!CL!oracleVars, CP!oracleVars, C!CL!rightsVars, CP!rightsVars
<1>3. CP!TypeOK /\ CP!CommittedIsPending
        => C!CL!TypeOK /\ C!CL!CommittedIsPending
  BY Zenon
     DEF C!Contracts, C!CL!TypeOK, CP!TypeOK, C!CL!CommittedIsPending,
         CP!CommittedIsPending, C!CL!Committed, CP!Committed, C!CL!Requests,
         CP!Requests, C!CL!None, CP!None, C!CL!Accounts, CP!Accounts
<1>4. C!Init => C!CL!Init /\ OracleIsOperated
  BY DEF C!Init, C!CL!Init, OracleIsOperated
<1>5. OracleIsOperated /\ [C!Next]_(C!vars)
        => [C!CL!Next]_(C!CL!vars) /\ OracleIsOperated'
  BY ConsumersStep
<1>6. CP!EscrowInv => CP!NoncesAreFresh
  BY DEF CP!EscrowInv
<1>7. QED
  BY <1>1, <1>2, <1>3, <1>4, <1>5, <1>6, CP!ChainlinkTypeOK,
     CP!ChainlinkCommittedIsPending, CP!ChainlinkEscrowInv, PTL
     DEF C!Spec, CP!Spec

\* What updateState and ATestnetConsumer store is what the API has said, and
\* their owners are accounts, whoever asks, answers, cancels and hands over.
THEOREM ConsumersTypeOK ==
  ASSUME C!ConsumersAssumption, C!ChainlinkAssumption
  PROVE  C!Spec => []C!TypeOK
<1> DEFINE Own == /\ stored \in [C!Contracts -> {0, 1, 100}]
                  /\ stored[Updater] \in {0, 1} /\ stored[Consumer] \in {0, 100}
                  /\ consumer_owner \in [C!Contracts -> C!CL!Accounts]
                  /\ api \in {0, 1}
                  /\ read \in [C!CL!Requests -> {C!Unread, 0, 1}]
<1>1. C!Init => Own
  BY DEF C!Init, C!ConsumersAssumption, C!Contracts
<1>2. Own /\ [C!Next]_(C!vars) => Own'
  <2> SUFFICES ASSUME Own, [C!Next]_(C!vars) PROVE Own'
    OBVIOUS
  <2>0. /\ Updater # Consumer /\ C!Contracts = {Updater, Consumer}
        /\ \A r \in C!CL!Requests : r[1] \in {Updater, Consumer}
    BY DEF C!ConsumersAssumption, C!Contracts, C!CL!Requests
  <2>1. CASE UNCHANGED <<stored, consumer_owner, api, read>>
    BY <2>1
  <2>2. ASSUME NEW r \in C!CL!Requests, C!nodeReads(r) PROVE Own'
    BY <2>2 DEF C!nodeReads
  <2>3. ASSUME NEW r \in C!CL!Requests, C!nodeAnswers(r) PROVE Own'
    <3>1. read[r] \in {0, 1}
      BY <2>3 DEF C!nodeAnswers, C!fulfill
    <3>2. /\ C!Value(r[1], read[r]) \in {0, 1, 100}
          /\ r[1] = Updater => C!Value(r[1], read[r]) \in {0, 1}
          /\ r[1] = Consumer => C!Value(r[1], read[r]) \in {0, 100}
      BY <2>0, <3>1 DEF C!Value
    <3>3. \/ stored' = stored
          \/ stored' = [stored EXCEPT ![r[1]] = C!Value(r[1], read[r])]
      BY <2>3 DEF C!nodeAnswers, C!fulfill
    <3>4. UNCHANGED <<consumer_owner, api, read>>
      BY <2>3 DEF C!nodeAnswers, C!fulfill
    <3>5. QED
      BY <2>0, <3>2, <3>3, <3>4
  <2>4. ASSUME NEW c \in C!Contracts, NEW sender, NEW newOwner \in C!CL!Accounts,
               C!transferOwnership(c, sender, newOwner)
        PROVE  Own'
    BY <2>4 DEF C!transferOwnership
  <2>5. CASE C!apiChanges
    BY <2>5 DEF C!apiChanges
  <2> HIDE DEF Own
  <2>6. QED
    BY <2>1, <2>2, <2>3, <2>4, <2>5
       DEF C!Next, C!request, C!cancelRequest, C!Tick, C!vars
<1>3. Own /\ C!CL!TypeOK => C!TypeOK
  BY DEF C!TypeOK
<1> HIDE DEF Own
<1>4. QED
  BY <1>1, <1>2, <1>3, ConsumersProtocol, PTL DEF C!Spec

\* The oracle earns only for answers that the two contracts await and take, so
\* that no payment is kept for one that is refused, whatever was cancelled,
\* handed over or answered before (Oracle.sol:147-154, updateState.sol:35).
THEOREM ConsumersEarnedAnswersAreAwaited ==
  ASSUME C!ChainlinkAssumption
  PROVE  C!Spec => C!EarnedAnswersAreAwaited
<1> DEFINE Awaited == withdrawableTokens' > withdrawableTokens =>
             \E r \in pendingRequests \ pendingRequests' :
               commitments[r] # C!CL!None /\ commitments'[r] = C!CL!None
<1>1. C!CL!TypeOK /\ C!CL!CommittedIsPending /\ [C!Next]_(C!vars)
        => [Awaited]_(C!vars)
  <2> SUFFICES ASSUME C!CL!TypeOK, C!CL!CommittedIsPending, C!Next,
                      withdrawableTokens' > withdrawableTokens
               PROVE  \E r \in pendingRequests \ pendingRequests' :
                        commitments[r] # C!CL!None /\ commitments'[r] = C!CL!None
    OBVIOUS
  <2>1. withdrawableTokens' # withdrawableTokens
    BY DEF C!CL!TypeOK
  <2>2. PICK r \in C!CL!Requests : C!nodeAnswers(r)
    BY <2>1
       DEF C!Next, C!request, C!cancelRequest, C!transferOwnership, C!nodeReads,
           C!apiChanges, C!Tick, C!linkVars, C!CL!sendChainlinkRequestTo,
           C!CL!transferAndCall, C!CL!oracleRequest, C!CL!Tick,
           C!CL!cancelChainlinkRequest, C!CL!cancelOracleRequest,
           C!CL!oracleVars
  <2>3. /\ C!CL!fulfillOracleRequest(oracle_owner, r)
        /\ pendingRequests' = pendingRequests \ {r}
    BY <2>2 DEF C!nodeAnswers, C!fulfill
  <2>4. commitments[r] # C!CL!None /\ commitments'[r] = C!CL!None
    BY <2>3 DEF C!CL!fulfillOracleRequest, C!CL!TypeOK
  <2>5. r \in pendingRequests
    BY <2>4 DEF C!CL!CommittedIsPending, C!CL!Committed
  <2>6. QED
    BY <2>3, <2>4, <2>5
<1> HIDE DEF Awaited
<1>2. C!Spec => [][Awaited]_(C!vars)
  BY <1>1, ConsumersProtocol, PTL DEF C!Spec
<1>3. QED
  BY <1>2 DEF C!EarnedAnswersAreAwaited, Awaited
-----------------------------------------------------------------------------
\* The node has read only for requests that were made.
ReadsFollow ==
  \A r \in C!CL!Requests : read[r] # C!Unread => r[2] < requestCount[r[1]]

StoredOK == stored \in [C!Contracts -> Int]

\* Their types and what is known of a request: whether it is open, awaited, made
\* and read
ConsumersInv == /\ C!TypeOK /\ StoredOK
                /\ C!CL!CommittedIsPending
                /\ CP!NoncesAreFresh
                /\ ReadsFollow

LEMMA RequestFacts ==
  ASSUME C!ConsumersAssumption, C!ChainlinkAssumption, C!CL!TypeOK
  PROVE  /\ Updater # Consumer /\ C!Contracts = {Updater, Consumer}
         /\ C!CL!Requests = CP!Requests
         /\ \A r \in C!CL!Requests :
              r[1] \in C!Contracts /\ r[2] \in Nat /\ r = <<r[1], r[2]>>
         /\ requestCount \in [C!Contracts -> Nat]
         /\ commitments \in [C!CL!Requests -> Nat]
         /\ now + ExpiryTime # C!CL!None
BY DEF C!ConsumersAssumption, C!ChainlinkAssumption, C!CL!TypeOK, C!Contracts,
       C!CL!Requests, CP!Requests, C!CL!TimeAssumption, C!CL!None

LEMMA ReadsFollowStep ==
  ASSUME C!ConsumersAssumption, C!ChainlinkAssumption, ConsumersInv,
         [C!Next]_(C!vars)
  PROVE  ReadsFollow'
<1>0. C!CL!TypeOK /\ read \in [C!CL!Requests -> {C!Unread, 0, 1}]
  BY DEF ConsumersInv, C!TypeOK
<1>1. CASE UNCHANGED <<read, requestCount>>
  BY <1>1 DEF ConsumersInv, ReadsFollow
<1>2. ASSUME NEW c \in C!Contracts, NEW sender, C!request(c, sender)
      PROVE  ReadsFollow'
  <2>1. requestCount' = [requestCount EXCEPT ![c] = @ + 1] /\ read' = read
    BY <1>2 DEF C!request, C!CL!sendChainlinkRequestTo
  <2>2. \A d \in C!Contracts :
          requestCount[d] \in Nat /\ requestCount'[d] >= requestCount[d]
    BY <1>0, <2>1, RequestFacts
  <2>3. QED
    BY <1>0, <2>1, <2>2, RequestFacts DEF ConsumersInv, ReadsFollow
<1>3. ASSUME NEW r \in C!CL!Requests, C!nodeReads(r)
      PROVE  ReadsFollow'
  <2>1. r[2] < requestCount[r[1]]
    BY <1>0, <1>3, RequestFacts
       DEF C!nodeReads, ConsumersInv, CP!NoncesAreFresh, C!CL!None, CP!None
  <2>2. QED
    BY <1>0, <1>3, <2>1 DEF C!nodeReads, C!linkVars, ConsumersInv, ReadsFollow
<1>4. QED
  BY <1>1, <1>2, <1>3
     DEF C!Next, C!vars, C!linkVars, C!transferOwnership, C!nodeAnswers,
         C!fulfill, C!CL!fulfillOracleRequest, C!cancelRequest,
         C!CL!cancelChainlinkRequest, C!apiChanges, C!Tick, C!CL!Tick,
         C!CL!clientVars

LEMMA StoredStep ==
  ASSUME C!ConsumersAssumption, C!ChainlinkAssumption, ConsumersInv,
         [C!Next]_(C!vars)
  PROVE  StoredOK'
<1>0. /\ StoredOK /\ C!CL!TypeOK
      /\ read \in [C!CL!Requests -> {C!Unread, 0, 1}]
  BY DEF ConsumersInv, C!TypeOK
<1>1. CASE UNCHANGED stored
  BY <1>0, <1>1 DEF StoredOK
<1>2. ASSUME NEW r \in C!CL!Requests, C!nodeAnswers(r)
      PROVE  StoredOK'
  <2>1. read[r] \in {0, 1}
    BY <1>0, <1>2 DEF C!nodeAnswers, C!fulfill
  <2>2. C!Value(r[1], read[r]) \in Int
    BY <2>1 DEF C!Value
  <2>3. \/ stored' = stored
        \/ stored' = [stored EXCEPT ![r[1]] = C!Value(r[1], read[r])]
    BY <1>2 DEF C!nodeAnswers, C!fulfill
  <2>4. QED
    BY <1>0, <2>2, <2>3 DEF StoredOK
<1>3. QED
  BY <1>1, <1>2
     DEF C!Next, C!vars, C!request, C!transferOwnership, C!nodeReads,
         C!cancelRequest, C!apiChanges, C!Tick

LEMMA ConsumersInvariant ==
  ASSUME C!ConsumersAssumption, C!ChainlinkAssumption
  PROVE  C!Spec => []ConsumersInv
<1>1. C!Init => ReadsFollow /\ StoredOK
  BY DEF C!Init, ReadsFollow, StoredOK
<1>2. ConsumersInv /\ [C!Next]_(C!vars) => ReadsFollow' /\ StoredOK'
  BY ReadsFollowStep, StoredStep
<1>3. /\ C!TypeOK /\ C!CL!CommittedIsPending /\ CP!NoncesAreFresh
      /\ ReadsFollow /\ StoredOK
      <=> ConsumersInv
  BY DEF ConsumersInv
<1>4. QED
  BY <1>1, <1>2, <1>3, ConsumersTypeOK, ConsumersProtocol, PTL DEF C!Spec

\* What FreshAnswersStay rests on besides the fairness of the node: the API has
\* said v for as long as any reading under way for contract c is old, and a
\* request of c is open, or c holds v already.
Fresh(c, v) ==
  /\ api = v
  /\ C!NeverRefunded(c)
  /\ \A r \in C!CL!Committed : r[1] = c => read[r] \in {C!Unread, v}
  /\ \/ \E r \in C!CL!Committed : r[1] = c
     \/ stored[c] = C!Value(c, v)

\* As long as the API says v and nothing is refunded, that stays so, whoever
\* asks and in whatever order answers are mined, every answer makes c hold v,
\* and c, once it does, holds it for good (updateState.sol:38).
FreshStays(c, v) ==
  Fresh(c, v) /\ api' = v /\ C!NeverRefunded(c)' =>
    /\ Fresh(c, v)'
    /\ stored[c] = C!Value(c, v) => stored'[c] = C!Value(c, v)
    /\ \A r \in C!CL!Requests :
         r[1] = c /\ C!nodeAnswers(r) => stored'[c] = C!Value(c, v)

\* A refund shows in what the contract holds.
LEMMA RefundShows ==
  ASSUME C!ConsumersAssumption, C!ChainlinkAssumption, Payment # 0,
         C!CL!TypeOK, NEW r \in C!CL!Requests, C!CL!cancelChainlinkRequest(r),
         C!NeverRefunded(r[1])
  PROVE  ~ C!NeverRefunded(r[1])'
<1>1. /\ link \in [LinkAddress -> Nat] /\ Payment \in Nat
      /\ r[1] \in LinkAddress /\ Oracle \in LinkAddress /\ r[1] # Oracle
  BY RequestFacts
     DEF C!CL!TypeOK, C!ChainlinkAssumption, C!CL!LinkAssumption,
         C!CL!AddressAssumption
<1>2. link'[r[1]] = link[r[1]] + Payment /\ requestCount' = requestCount
  BY <1>1 DEF C!CL!cancelChainlinkRequest, C!CL!cancelOracleRequest,
              C!CL!LinkMoves
<1>3. C!NeverRefunded(r[1])' => link'[r[1]] = link[r[1]]
  BY <1>2 DEF C!NeverRefunded
<1>4. link[r[1]] \in Nat
  BY <1>1
<1>5. QED
  BY <1>1, <1>2, <1>3, <1>4

LEMMA FreshStep ==
  ASSUME C!ConsumersAssumption, C!ChainlinkAssumption, Payment # 0,
         ConsumersInv, [C!Next]_(C!vars), NEW c \in C!Contracts, NEW v \in {0, 1}
  PROVE  FreshStays(c, v)
<1> SUFFICES ASSUME Fresh(c, v), api' = v, C!NeverRefunded(c)'
             PROVE  /\ \A r \in C!CL!Requests :
                         r[1] = c /\ commitments'[r] # C!CL!None =>
                           read'[r] \in {C!Unread, v}
                    /\ \/ \E r \in C!CL!Requests :
                            r[1] = c /\ commitments'[r] # C!CL!None
                       \/ stored'[c] = C!Value(c, v)
                    /\ stored[c] = C!Value(c, v) => stored'[c] = C!Value(c, v)
                    /\ \A r \in C!CL!Requests :
                         r[1] = c /\ C!nodeAnswers(r) =>
                           stored'[c] = C!Value(c, v)
  BY DEF FreshStays, Fresh, C!CL!Committed, C!Value
<1>0. /\ C!CL!TypeOK /\ api = v
      /\ read \in [C!CL!Requests -> {C!Unread, 0, 1}]
      /\ \A r \in C!CL!Requests :
           r[1] = c /\ commitments[r] # C!CL!None => read[r] \in {C!Unread, v}
      /\ \/ \E r \in C!CL!Requests : r[1] = c /\ commitments[r] # C!CL!None
         \/ stored[c] = C!Value(c, v)
      /\ \A r \in C!CL!Requests :
           commitments[r] # C!CL!None => r \in pendingRequests
  BY DEF ConsumersInv, C!TypeOK, Fresh, C!CL!Committed, C!CL!CommittedIsPending
<1>1. commitments \in [C!CL!Requests -> Nat]
  BY <1>0, RequestFacts
<1>2. ASSUME NEW r \in C!CL!Requests, r[1] = c, C!nodeAnswers(r)
      PROVE  stored'[c] = C!Value(c, v)
  <2>1. /\ read[r] # C!Unread /\ commitments[r] # C!CL!None
        /\ stored' = IF r \in pendingRequests
                     THEN [stored EXCEPT ![r[1]] = C!Value(r[1], read[r])]
                     ELSE stored
    BY <1>2 DEF C!nodeAnswers, C!fulfill, C!CL!fulfillOracleRequest
  <2>2. read[r] = v /\ r \in pendingRequests
    BY <1>0, <1>2, <2>1
  <2>3. stored \in [C!Contracts -> Int]
    BY DEF ConsumersInv, StoredOK
  <2>4. QED
    BY <1>2, <2>1, <2>2, <2>3
<1>3. CASE UNCHANGED <<commitments, read, stored>>
  BY <1>0, <1>2, <1>3
<1>4. ASSUME NEW d \in C!Contracts, NEW sender, C!request(d, sender)
      PROVE  /\ UNCHANGED <<read, stored>>
             /\ \A r \in C!CL!Requests : commitments'[r] # C!CL!None =>
                  commitments[r] # C!CL!None \/ read[r] = C!Unread
             /\ \A r \in C!CL!Requests : commitments[r] # C!CL!None =>
                  commitments'[r] # C!CL!None
  <2> DEFINE q == <<d, requestCount[d]>>
  <2>1. /\ commitments[q] = C!CL!None
        /\ commitments' = [commitments EXCEPT ![q] = now + ExpiryTime]
        /\ UNCHANGED <<read, stored>>
    BY <1>4 DEF C!request, C!CL!sendChainlinkRequestTo, C!CL!transferAndCall,
                C!CL!oracleRequest
  <2>2. q \in C!CL!Requests => read[q] = C!Unread
    BY <1>0, RequestFacts DEF ConsumersInv, ReadsFollow
  <2>3. QED
    BY <1>0, <1>1, <2>1, <2>2, RequestFacts
<1>5. ASSUME NEW q \in C!CL!Requests, C!nodeReads(q)
      PROVE  /\ UNCHANGED <<commitments, stored>>
             /\ \A r \in C!CL!Requests : read'[r] \in {read[r], v}
  BY <1>0, <1>5 DEF C!nodeReads, C!linkVars
<1>6. ASSUME NEW q \in C!CL!Requests,
             C!nodeAnswers(q) \/ \E sender \in C!CL!Accounts :
                                   C!cancelRequest(q, sender)
      PROVE  /\ read' = read
             /\ \A r \in C!CL!Requests : commitments'[r] =
                  IF r = q THEN C!CL!None ELSE commitments[r]
             /\ q[1] # c => stored'[c] = stored[c]
             /\ q[1] = c => C!nodeAnswers(q)
  <2>1. commitments' = [commitments EXCEPT ![q] = C!CL!None] /\ read' = read
    BY <1>6 DEF C!nodeAnswers, C!fulfill, C!CL!fulfillOracleRequest,
                C!cancelRequest, C!CL!cancelChainlinkRequest,
                C!CL!cancelOracleRequest
  <2>2. q[1] # c => stored'[c] = stored[c]
    BY <1>6 DEF C!nodeAnswers, C!fulfill, C!cancelRequest, ConsumersInv,
                StoredOK
  <2>3. q[1] = c => C!nodeAnswers(q)
    BY <1>0, <1>6, RefundShows DEF C!cancelRequest, Fresh
  <2>4. QED
    BY <1>1, <2>1, <2>2, <2>3
<1>7. CASE \E d \in C!Contracts, sender \in C!CL!Accounts : C!request(d, sender)
  BY <1>0, <1>2, <1>4, <1>7
<1>8. CASE \E q \in C!CL!Requests : C!nodeReads(q)
  BY <1>0, <1>2, <1>5, <1>8
<1>9. ASSUME NEW q \in C!CL!Requests,
             C!nodeAnswers(q) \/ \E sender \in C!CL!Accounts :
                                   C!cancelRequest(q, sender)
      PROVE  /\ \A r \in C!CL!Requests :
                  r[1] = c /\ commitments'[r] # C!CL!None =>
                    read'[r] \in {C!Unread, v}
             /\ \/ \E r \in C!CL!Requests :
                     r[1] = c /\ commitments'[r] # C!CL!None
                \/ stored'[c] = C!Value(c, v)
             /\ stored[c] = C!Value(c, v) => stored'[c] = C!Value(c, v)
  <2>1. CASE q[1] = c
    BY <1>0, <1>2, <1>6, <1>9, <2>1
  <2>2. CASE q[1] # c
    BY <1>0, <1>6, <1>9, <2>2
  <2>3. QED
    BY <2>1, <2>2
<1>10. QED
  BY <1>2, <1>3, <1>7, <1>8, <1>9
     DEF C!Next, C!vars, C!linkVars, C!transferOwnership, C!apiChanges, C!Tick,
         C!CL!Tick, C!CL!oracleVars

\* A reading that is not old cannot be lost: until the API changes or a request
\* is refunded, an answer of the request sets the contract to what the API says,
\* and nothing that is answered afterwards sets it back.
THEOREM ConsumersFreshReadingsStay ==
  ASSUME C!ConsumersAssumption, C!ChainlinkAssumption, Payment # 0
  PROVE  C!Spec =>
           [][\A c \in C!Contracts, v \in {0, 1} : FreshStays(c, v)]_(C!vars)
<1>1. ConsumersInv /\ [C!Next]_(C!vars) =>
        [\A c \in C!Contracts, v \in {0, 1} : FreshStays(c, v)]_(C!vars)
  BY FreshStep
<1>2. QED
  BY <1>1, ConsumersInvariant, PTL DEF C!Spec
=============================================================================
