------------------------------- MODULE Consumers -------------------------------
(***************************************************************************)
(* contracts/updateState.sol and contracts/ATestnetConsumer.sol: two       *)
(* contracts that ask the oracle for what the web API says and store the   *)
(* answer, over the request protocol (an instance of Chainlink).  The      *)
(* second has the node multiply it by 100 (the "times" of its request).    *)
(*                                                                         *)
(* The node, external, reads the API when it sees a request and sends its  *)
(* answer later; the transaction may be mined after that of a later        *)
(* request, or after a cancellation.  The API goes from 0 to 1 and back.   *)
(* The oracle contract's owner and nodes are left as they are: Chainlink   *)
(* changes them.                                                           *)
(***************************************************************************)
EXTENDS Integers, FiniteSets

CONSTANTS Updater,      \* a deployed updateState
          Consumer,     \* a deployed ATestnetConsumer
          Admin,        \* the account that deployed both
          Zero          \* address(0)

CONSTANTS Address, Oracle, InitialLink, Operator, Payment, ExpiryTime,
          MaxRequests, MaxNow       \* those of Chainlink

VARIABLES link, pendingRequests, requestCount, commitments,
          withdrawableTokens, authorizedNodes, oracle_owner, now

VARIABLES stored,   \* updateState.State and ATestnetConsumer.currentPrice
          owner,    \* of each consumer
          api,      \* what the web API says
          read      \* what the node has read for a request

Contracts == {Updater, Consumer}

CL == INSTANCE Chainlink WITH
        Consumers <- Contracts, InitialOwner <- Operator,
        owner <- oracle_owner, LinkAmounts <- {}

linkVars == <<link, pendingRequests, requestCount, commitments,
              withdrawableTokens, authorizedNodes, oracle_owner, now>>
vars == <<linkVars, stored, owner, api, read>>

Unread == -1

ASSUME ConsumersAssumption ==
  /\ Updater # Consumer
  /\ Admin \in CL!Accounts \ {Zero}
ASSUME ChainlinkAssumption ==
  CL!AddressAssumption /\ CL!LinkAssumption /\ CL!TimeAssumption

Init == /\ CL!Init
        /\ stored = [c \in Contracts |-> 0]
        /\ owner = [c \in Contracts |-> Admin]
        /\ api \in {0, 1}
        /\ read = [r \in CL!Requests |-> Unread]
-----------------------------------------------------------------------------
\* requestState and requestEthereumPrice
request(c, sender) ==
  /\ sender = owner[c]
  /\ CL!sendChainlinkRequestTo(c)
  /\ UNCHANGED <<stored, owner, api, read>>

\* mutation of Value: the "times" of the request is lost
ValueUntimed(c, v) == v

\* What the node sends for a value of the API
Value(c, v) == IF c = Consumer THEN v * 100 ELSE v

\* mutation of fulfill: the answer is announced by an event and not stored
fulfillUnstored(r, sender) ==
  /\ read[r] # Unread
  /\ CL!Answered(sender, r)
  /\ UNCHANGED <<stored, owner, api, read>>

\* The oracle earns, and calls fulfillState or fulfillEthereumPrice, which
\* reverts for a request that is not awaited
fulfill(r, sender) ==
  /\ read[r] # Unread
  /\ CL!fulfillOracleRequest(sender, r)
  /\ pendingRequests' = pendingRequests \ {r}
  /\ stored' = IF r \in pendingRequests
               THEN [stored EXCEPT ![r[1]] = Value(r[1], read[r])]
               ELSE stored
  /\ UNCHANGED <<owner, api, read>>

\* mutation of cancelRequest: the oracle is not told
cancelRequestLocally(r, sender) ==
  /\ sender = owner[r[1]]
  /\ r \in pendingRequests
  /\ pendingRequests' = pendingRequests \ {r}
  /\ UNCHANGED <<link, requestCount, commitments, withdrawableTokens,
                 authorizedNodes, oracle_owner, now, stored, owner, api, read>>

cancelRequest(r, sender) ==
  /\ sender = owner[r[1]]
  /\ CL!cancelChainlinkRequest(r)
  /\ UNCHANGED <<stored, owner, api, read>>

transferOwnership(c, sender, newOwner) ==
  /\ sender = owner[c]
  /\ newOwner # Zero
  /\ owner' = [owner EXCEPT ![c] = newOwner]
  /\ UNCHANGED <<linkVars, stored, api, read>>
-----------------------------------------------------------------------------
\* The node reads the API for a request it sees, and later answers
nodeReads(r) ==
  /\ commitments[r] # CL!None
  /\ read[r] = Unread
  /\ read' = [read EXCEPT ![r] = api]
  /\ UNCHANGED <<linkVars, stored, owner, api>>

nodeAnswers(r) == fulfill(r, oracle_owner)

apiChanges ==
  /\ api' = 1 - api
  /\ UNCHANGED <<linkVars, stored, owner, read>>

Tick ==
  /\ CL!Tick
  /\ UNCHANGED <<stored, owner, api, read>>

Next ==
  \/ \E c \in Contracts, sender \in CL!Accounts :
       \/ request(c, sender)
       \/ \E newOwner \in CL!Accounts : transferOwnership(c, sender, newOwner)
  \/ \E r \in CL!Requests :
       \/ nodeReads(r) \/ nodeAnswers(r)
       \/ \E sender \in CL!Accounts : cancelRequest(r, sender)
  \/ apiChanges \/ Tick

\* The node reads what it sees and answers what it read; nobody need ask or
\* cancel, no time need pass, and the API need not change
Spec == /\ Init /\ [][Next]_vars
        /\ \A r \in CL!Requests : WF_vars(nodeReads(r)) /\ WF_vars(nodeAnswers(r))
-----------------------------------------------------------------------------
\* The types of the two contracts' state, of the API and of the node's readings
TypeOK == /\ CL!TypeOK
          /\ stored[Updater] \in {0, 1} /\ stored[Consumer] \in {0, 100}
          /\ owner \in [Contracts -> CL!Accounts]
          /\ api \in {0, 1}
          /\ read \in [CL!Requests -> {Unread, 0, 1}]

\* The oracle never keeps a payment for an answer that these consumers refuse,
\* whatever cancellations, hand-overs and other answers come first: what it
\* earns for was still awaited, and is settled by that very transaction
\* (updateState.sol:35 and :50, Oracle.sol:147-154 and :246).
EarnedAnswersAreAwaited ==
  [][withdrawableTokens' > withdrawableTokens =>
       \E r \in pendingRequests \ pendingRequests' :
         commitments[r] # CL!None /\ commitments'[r] = CL!None]_vars

\* The last answer written wins, whichever request it answers
\* (updateState.sol:38), so one that was read earlier and is mined later sets
\* the state back for good.  That is the only way to lose the reading: when the
\* API stays v, a request is yet to be read, no other reading is under way and
\* nothing is refunded, the contract comes to hold v and keeps it.
NeverRefunded(c) ==
  link[c] = InitialLink[c] - Payment * (requestCount[c] - 1)

FreshAnswersStay ==
  \A c \in Contracts, v \in {0, 1} :
    [](  /\ [](api = v /\ NeverRefunded(c))
         /\ \E r \in CL!Committed : r[1] = c /\ read[r] = Unread
         /\ \A r \in CL!Committed : r[1] = c => read[r] \in {Unread, v}
       => <>[](stored[c] = Value(c, v)))
=============================================================================
