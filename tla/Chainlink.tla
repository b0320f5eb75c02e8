------------------------------ MODULE Chainlink ------------------------------
(***************************************************************************)
(* The Chainlink request protocol as the contracts here run it: consumers  *)
(* (evm-contracts/src/v0.6/ChainlinkClient.sol), the oracle contract       *)
(* (Oracle.sol), the LINK token that carries a request from the one to the *)
(* other, and the node that answers.  Every step is one transaction,       *)
(* except Tick, the passing of time between blocks.                        *)
(*                                                                         *)
(* A request is named by what its id hashes, the consumer and its nonce.   *)
(* There is one oracle contract, the one whose address Manager.sol holds,  *)
(* and one price, ORACLE_PAYMENT; a commitment is then determined by its   *)
(* expiration, and the arguments of cancelOracleRequest and                *)
(* fulfillOracleRequest that must hash back to it are left out.            *)
(***************************************************************************)
EXTENDS Integers, FiniteSets

CONSTANTS Address,      \* the accounts that may hold LINK
          Consumers,    \* the contracts that are ChainlinkClients
          Oracle,       \* the oracle contract
          InitialLink,  \* who holds how much LINK at first
          InitialOwner, \* the account that deployed the oracle contract
          Payment,      \* ORACLE_PAYMENT, in units of LINK
          ExpiryTime,   \* EXPIRY_TIME of Oracle.sol
          MaxRequests,  \* bound: the requests of one consumer
          MaxNow,       \* bound: the last moment
          LinkAmounts   \* bound: the amounts withdrawn or transferred

Accounts == Address \ (Consumers \cup {Oracle})     \* those with a key

ASSUME AddressAssumption == /\ Consumers \subseteq Address
                            /\ IsFiniteSet(Consumers)
                            /\ Oracle \in Address \ Consumers
                            /\ InitialOwner \in Accounts
ASSUME LinkAssumption    == /\ InitialLink \in [Address -> Nat]
                            /\ Payment \in Nat
                            /\ LinkAmounts \subseteq Nat
ASSUME TimeAssumption    == /\ ExpiryTime \in Nat \ {0}
                            /\ MaxNow \in Nat
                            /\ MaxRequests \in Nat

VARIABLES link,               \* LINK balances
          pendingRequests,    \* the requests whose consumer awaits an answer
          requestCount,       \* each consumer's next nonce
          commitments,        \* Oracle.sol: a request's expiration, or None
          withdrawableTokens,
          authorizedNodes,
          owner,              \* of the oracle contract
          now                 \* block.timestamp

clientVars == <<pendingRequests, requestCount>>
oracleVars == <<commitments, withdrawableTokens>>
rightsVars == <<authorizedNodes, owner>>
vars == <<link, clientVars, oracleVars, rightsVars, now>>

Requests == Consumers \X (1 .. MaxRequests)
None == 0
OneForConsistentGasCost == 1

Committed == {r \in Requests : commitments[r] # None}

Init ==
  /\ link               = InitialLink
  /\ pendingRequests    = {}
  /\ requestCount       = [c \in Consumers |-> 1]
  /\ commitments        = [r \in Requests |-> None]
  /\ withdrawableTokens = OneForConsistentGasCost
  /\ authorizedNodes    = {}
  /\ owner              = InitialOwner
  /\ now                = 1

\* LinkToken.transfer; the supply of LINK is too small to overflow a uint
LinkMoves(from, to, amount) ==
  /\ link[from] >= amount
  /\ link' = IF from = to THEN link
             ELSE [link EXCEPT ![from] = @ - amount, ![to] = @ + amount]

\* oracleRequest, which onTokenTransfer delegates to
oracleRequest(r) ==
  /\ now + ExpiryTime <= MaxNow               \* bound
  /\ commitments[r] = None
  /\ commitments' = [commitments EXCEPT ![r] = now + ExpiryTime]
  /\ UNCHANGED <<withdrawableTokens, rightsVars, now>>

\* The consumer pays and the oracle, as the receiver, is called
transferAndCall(c, r) == LinkMoves(c, Oracle, Payment) /\ oracleRequest(r)

\* mutation of sendChainlinkRequestTo: the consumer does not record it
sendUnrecorded(c) ==
  /\ requestCount[c] <= MaxRequests
  /\ transferAndCall(c, <<c, requestCount[c]>>)
  /\ requestCount' = [requestCount EXCEPT ![c] = @ + 1]
  /\ UNCHANGED pendingRequests

sendChainlinkRequestTo(c) ==
  LET r == <<c, requestCount[c]>>
  IN  /\ requestCount[c] <= MaxRequests         \* bound
      /\ pendingRequests' = pendingRequests \cup {r}
      /\ transferAndCall(c, r)
      /\ requestCount' = [requestCount EXCEPT ![c] = @ + 1]

\* mutation of fulfillOracleRequest: the commitment stays
fulfillKeepsCommitment(sender, r) ==
  /\ sender \in authorizedNodes \cup {owner}
  /\ commitments[r] # None
  /\ withdrawableTokens' = withdrawableTokens + Payment
  /\ UNCHANGED <<link, commitments, requestCount, rightsVars, now>>

\* fulfillOracleRequest: the payment is earned and the commitment deleted
\* before the consumer is called, and stay so if the consumer reverts
fulfillOracleRequest(sender, r) ==
  /\ sender \in authorizedNodes \cup {owner}
  /\ commitments[r] # None
  /\ withdrawableTokens' = withdrawableTokens + Payment
  /\ commitments' = [commitments EXCEPT ![r] = None]
  /\ UNCHANGED <<link, requestCount, rightsVars, now>>

\* recordChainlinkFulfillment: what the callback must do to be accepted
recordChainlinkFulfillment(r) ==
  /\ r \in pendingRequests
  /\ pendingRequests' = pendingRequests \ {r}

Answered(sender, r) ==
  fulfillOracleRequest(sender, r) /\ recordChainlinkFulfillment(r)

CallbackReverted(sender, r) ==
  fulfillOracleRequest(sender, r) /\ UNCHANGED pendingRequests

\* cancelOracleRequest: the refund, once the request has expired
cancelOracleRequest(r) ==
  /\ commitments[r] # None
  /\ commitments[r] <= now
  /\ commitments' = [commitments EXCEPT ![r] = None]
  /\ LinkMoves(Oracle, r[1], Payment)
  /\ UNCHANGED <<withdrawableTokens, rightsVars, now>>

cancelChainlinkRequest(r) ==
  /\ r \in pendingRequests
  /\ pendingRequests' = pendingRequests \ {r}
  /\ cancelOracleRequest(r)
  /\ UNCHANGED requestCount

\* mutations of withdraw: the token kept back is not reckoned with, and the
\* available funds are not checked at all
withdrawToZero(sender, recipient, amount) ==
  /\ sender = owner
  /\ withdrawableTokens >= amount
  /\ LinkMoves(Oracle, recipient, amount)
  /\ withdrawableTokens' = withdrawableTokens - amount
  /\ UNCHANGED <<clientVars, commitments, rightsVars, now>>

withdrawUnchecked(sender, recipient, amount) ==
  /\ sender = owner
  /\ LinkMoves(Oracle, recipient, amount)
  /\ withdrawableTokens' = withdrawableTokens - amount
  /\ UNCHANGED <<clientVars, commitments, rightsVars, now>>

\* Oracle.withdraw
withdraw(sender, recipient, amount) ==
  /\ sender = owner
  /\ withdrawableTokens >= amount + OneForConsistentGasCost
  /\ LinkMoves(Oracle, recipient, amount)
  /\ withdrawableTokens' = withdrawableTokens - amount
  /\ UNCHANGED <<clientVars, commitments, rightsVars, now>>

setFulfillmentPermission(sender, node, allowed) ==
  /\ sender = owner
  /\ authorizedNodes' = IF allowed THEN authorizedNodes \cup {node}
                                   ELSE authorizedNodes \ {node}
  /\ UNCHANGED <<link, clientVars, oracleVars, owner, now>>

transferOwnership(sender, newOwner) ==
  /\ sender = owner
  /\ owner' = newOwner
  /\ UNCHANGED <<link, clientVars, oracleVars, authorizedNodes, now>>

\* LINK sent by the holder of a key; consumers send none but in requests
linkTransfer(from, to, amount) ==
  /\ LinkMoves(from, to, amount)
  /\ UNCHANGED <<clientVars, oracleVars, rightsVars, now>>

Tick ==
  /\ now < MaxNow
  /\ now' = now + 1
  /\ UNCHANGED <<link, clientVars, oracleVars, rightsVars>>

Fulfil(r) ==
  \E sender \in Accounts : Answered(sender, r) \/ CallbackReverted(sender, r)

Next ==
  \/ \E c \in Consumers : sendChainlinkRequestTo(c)
  \/ \E r \in Requests : Fulfil(r) \/ cancelChainlinkRequest(r)
  \/ \E sender \in Accounts, to \in Address, amount \in LinkAmounts :
       withdraw(sender, to, amount) \/ linkTransfer(sender, to, amount)
  \/ \E sender, node \in Accounts, allowed \in BOOLEAN :
       setFulfillmentPermission(sender, node, allowed)
  \/ \E sender, newOwner \in Accounts : transferOwnership(sender, newOwner)
  \/ Tick

Spec == Init /\ [][Next]_vars

\* No node answers, or not surely; but time passes, and whoever owns a
\* consumer cancels what has expired
OwnerSpec ==
  Spec /\ WF_vars(Tick)
       /\ \A r \in Requests : WF_vars(cancelChainlinkRequest(r))
-----------------------------------------------------------------------------
TypeOK ==
  /\ link \in [Address -> Nat]
  /\ pendingRequests \subseteq Requests
  /\ requestCount \in [Consumers -> 1 .. MaxRequests + 1]
  /\ commitments \in [Requests -> 0 .. MaxNow]
  /\ withdrawableTokens \in Nat \ {0}
  /\ authorizedNodes \subseteq Accounts
  /\ owner \in Accounts
  /\ now \in Nat

\* The asserts around the oracle's LINK transfers never fail (Oracle.sol:198,
\* where the operator withdraws, and :249, where a requester is refunded):
\* the contract holds everything earned and every open payment, all at once.
OracleCovers ==
  link[Oracle] >= (withdrawableTokens - OneForConsistentGasCost)
                    + Payment * Cardinality(Committed)

\* A request the oracle has yet to answer is one its consumer still awaits,
\* so the answer is accepted and the refund can be claimed: the consumer's
\* pendingRequests and the oracle's commitments are two contracts' records of
\* one fact (ChainlinkClient.sol:85 and :110, Oracle.sol:87, :147 and :246).
CommittedIsPending == Committed \subseteq pendingRequests

\* How far a request has got, read off the oracle's record and the nonce
Status ==
  [r \in Requests |-> IF commitments[r] # None        THEN "open"
                      ELSE IF r[2] >= requestCount[r[1]] THEN "new"
                      ELSE "closed"]

E == INSTANCE Escrow WITH
       status <- Status,
       held   <- link[Oracle],
       earned <- withdrawableTokens - OneForConsistentGasCost

\* Each payment is made once and leaves the escrow once, earned by the
\* operator or refunded to the requester, whichever transaction comes first
\* when a late answer races a cancellation.
EscrowSpec == E!Spec

\* No payment is stranded in the oracle.  Under OwnerSpec a request is resolved
\* although nobody may ever answer it, its node revoked or the oracle handed
\* over: no step of anyone, the operator's withdrawals included, takes the
\* refund away but an answer (Oracle.sol:244-249, ChainlinkClient.sol:110).
RequestsAreResolved ==
  \A r \in Requests : commitments[r] # None ~> commitments[r] = None
=============================================================================
