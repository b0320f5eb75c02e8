--------------------------- MODULE ChainlinkProofs ---------------------------
(***************************************************************************)
(* What the Chainlink request protocol guarantees for any number of        *)
(* consumers, requests and accounts, any price and any expiry time: its    *)
(* storage is well typed, an open request is pending at its consumer, and  *)
(* the oracle holds what it earned and every refund it may have to make.   *)
(***************************************************************************)
EXTENDS Chainlink, FiniteSetTheorems, TLAPS

\* LINK moves from balances that cover it, so they stay natural numbers.
LEMMA LinkMovesType ==
  ASSUME link \in [Address -> Nat], NEW from \in Address, NEW to \in Address,
         NEW amount \in Nat, LinkMoves(from, to, amount)
  PROVE  /\ link' \in [Address -> Nat]
         /\ \A a \in Address \ {from, to} : link'[a] = link[a]
         /\ from = to => link' = link
         /\ from # to => /\ link'[from] = link[from] - amount
                         /\ link'[to]   = link[to] + amount
BY DEF LinkMoves

\* Every address a step names is one: consumers, accounts and the oracle.
LEMMA AddressFacts ==
  /\ Consumers \subseteq Address /\ Accounts \subseteq Address
  /\ Oracle \in Address
  /\ Oracle \notin Consumers /\ Oracle \notin Accounts
  /\ \A r \in Requests : r[1] \in Consumers /\ r[2] \in 1 .. MaxRequests
BY AddressAssumption DEF Accounts, Requests

\* A request takes the next nonce of its consumer.
LEMMA NextRequest ==
  ASSUME TypeOK, NEW c \in Consumers, requestCount[c] <= MaxRequests
  PROVE  <<c, requestCount[c]>> \in Requests
BY TimeAssumption DEF TypeOK, Requests
-----------------------------------------------------------------------------
\* The storage of all the contracts involved stays well typed: no balance, and
\* no count of earned tokens, falls below zero or below the token kept back.
THEOREM ChainlinkTypeOK == Spec => []TypeOK
<1>1. Init => TypeOK
  BY AddressAssumption, LinkAssumption, TimeAssumption
     DEF Init, TypeOK, Requests, None, OneForConsistentGasCost
<1>2. TypeOK /\ [Next]_vars => TypeOK'
  <2> SUFFICES ASSUME TypeOK, [Next]_vars PROVE TypeOK'
    OBVIOUS
  <2> USE AddressFacts, LinkAssumption, TimeAssumption
  <2>1. ASSUME NEW c \in Consumers, sendChainlinkRequestTo(c) PROVE TypeOK'
    <3>1. <<c, requestCount[c]>> \in Requests
      BY <2>1, NextRequest DEF sendChainlinkRequestTo
    <3>2. link' \in [Address -> Nat]
      BY <2>1, LinkMovesType DEF sendChainlinkRequestTo, transferAndCall, TypeOK
    <3>3. commitments' \in [Requests -> 0 .. MaxNow]
      BY <2>1, <3>1 DEF sendChainlinkRequestTo, transferAndCall, oracleRequest,
                        TypeOK
    <3>4. requestCount' \in [Consumers -> 1 .. MaxRequests + 1]
      BY <2>1 DEF sendChainlinkRequestTo, TypeOK
    <3>5. QED
      BY <2>1, <3>1, <3>2, <3>3, <3>4
         DEF sendChainlinkRequestTo, transferAndCall, oracleRequest, rightsVars,
             TypeOK
  <2>2. ASSUME NEW r \in Requests, Fulfil(r) PROVE TypeOK'
    <3>1. PICK sender \in Accounts : fulfillOracleRequest(sender, r)
      BY <2>2 DEF Fulfil, Answered, CallbackReverted
    <3>2. pendingRequests' \subseteq Requests
      BY <2>2 DEF Fulfil, Answered, CallbackReverted,
                  recordChainlinkFulfillment, TypeOK
    <3>3. commitments' \in [Requests -> 0 .. MaxNow]
      BY <3>1 DEF fulfillOracleRequest, TypeOK, None
    <3>4. QED
      BY <3>1, <3>2, <3>3 DEF fulfillOracleRequest, rightsVars, TypeOK
  <2>3. ASSUME NEW r \in Requests, cancelChainlinkRequest(r) PROVE TypeOK'
    <3>1. link' \in [Address -> Nat]
      BY <2>3, LinkMovesType
         DEF cancelChainlinkRequest, cancelOracleRequest, TypeOK
    <3>2. commitments' \in [Requests -> 0 .. MaxNow]
      BY <2>3 DEF cancelChainlinkRequest, cancelOracleRequest, TypeOK, None
    <3>3. QED
      BY <2>3, <3>1, <3>2
         DEF cancelChainlinkRequest, cancelOracleRequest, rightsVars, TypeOK
  <2>4. ASSUME NEW sender \in Accounts, NEW to \in Address,
               NEW amount \in LinkAmounts, withdraw(sender, to, amount)
        PROVE  TypeOK'
    <3>1. link' \in [Address -> Nat]
      BY <2>4, LinkMovesType DEF withdraw, TypeOK
    <3>2. withdrawableTokens' \in Nat \ {0}
      BY <2>4 DEF withdraw, TypeOK, OneForConsistentGasCost
    <3>3. QED
      BY <2>4, <3>1, <3>2 DEF withdraw, clientVars, rightsVars, TypeOK
  <2>5. ASSUME NEW sender \in Accounts, NEW to \in Address,
               NEW amount \in LinkAmounts, linkTransfer(sender, to, amount)
        PROVE  TypeOK'
    <3>1. link' \in [Address -> Nat]
      BY <2>5, LinkMovesType DEF linkTransfer, TypeOK
    <3>2. QED
      BY <2>5, <3>1 DEF linkTransfer, clientVars, oracleVars, rightsVars, TypeOK
  <2>6. ASSUME NEW sender \in Accounts, NEW node \in Accounts,
               NEW allowed \in BOOLEAN,
               setFulfillmentPermission(sender, node, allowed)
        PROVE  TypeOK'
    BY <2>6 DEF setFulfillmentPermission, clientVars, oracleVars, TypeOK
  <2>7. ASSUME NEW sender \in Accounts, NEW newOwner \in Accounts,
               transferOwnership(sender, newOwner)
        PROVE  TypeOK'
    BY <2>7 DEF transferOwnership, clientVars, oracleVars, TypeOK
  <2>8. CASE Tick
    BY <2>8 DEF Tick, clientVars, oracleVars, rightsVars, TypeOK
  <2>9. CASE UNCHANGED vars
    BY <2>9 DEF vars, clientVars, oracleVars, rightsVars, TypeOK
  <2>10. QED
    BY <2>1, <2>2, <2>3, <2>4, <2>5, <2>6, <2>7, <2>8, <2>9 DEF Next
<1>3. QED
  BY <1>1, <1>2, PTL DEF Spec
-----------------------------------------------------------------------------
\* The oracle never awaits an answer its consumer has given up on: both records
\* of a request are made in one transaction, and only the oracle's is ever
\* deleted alone.
THEOREM ChainlinkCommittedIsPending == Spec => []CommittedIsPending
<1>1. Init => CommittedIsPending
  BY DEF Init, CommittedIsPending, Committed
<1>2. TypeOK /\ CommittedIsPending /\ [Next]_vars => CommittedIsPending'
  <2> SUFFICES ASSUME TypeOK, CommittedIsPending, [Next]_vars
               PROVE  CommittedIsPending'
    OBVIOUS
  <2> USE DEF CommittedIsPending, Committed
  <2>1. ASSUME NEW c \in Consumers, sendChainlinkRequestTo(c)
        PROVE  CommittedIsPending'
    BY <2>1 DEF sendChainlinkRequestTo, transferAndCall, oracleRequest, TypeOK
  <2>2. ASSUME NEW r \in Requests, Fulfil(r) PROVE CommittedIsPending'
    BY <2>2 DEF Fulfil, Answered, CallbackReverted, fulfillOracleRequest,
                recordChainlinkFulfillment, TypeOK
  <2>3. ASSUME NEW r \in Requests, cancelChainlinkRequest(r)
        PROVE  CommittedIsPending'
    BY <2>3 DEF cancelChainlinkRequest, cancelOracleRequest, TypeOK
  <2>4. ASSUME NEW sender \in Accounts, NEW to \in Address,
               NEW amount \in LinkAmounts,
               withdraw(sender, to, amount) \/ linkTransfer(sender, to, amount)
        PROVE  CommittedIsPending'
    BY <2>4 DEF withdraw, linkTransfer, clientVars, oracleVars
  <2>5. ASSUME NEW sender \in Accounts, NEW other \in Accounts,
               \/ transferOwnership(sender, other)
               \/ \E allowed \in BOOLEAN :
                    setFulfillmentPermission(sender, other, allowed)
        PROVE  CommittedIsPending'
    BY <2>5 DEF setFulfillmentPermission, transferOwnership, clientVars,
                oracleVars
  <2>6. CASE Tick \/ UNCHANGED vars
    BY <2>6 DEF Tick, vars, clientVars, oracleVars
  <2>7. QED
    BY <2>1, <2>2, <2>3, <2>4, <2>5, <2>6 DEF Next
<1>3. QED
  BY <1>1, <1>2, ChainlinkTypeOK, PTL DEF Spec
-----------------------------------------------------------------------------
\* A request yet to be made is not open: nonces are used once, in order.
NoncesAreFresh ==
  \A r \in Requests : r[2] >= requestCount[r[1]] => commitments[r] = None

\* What the refinement needs to know of a reachable state.
EscrowInv == TypeOK /\ NoncesAreFresh

LEMMA ChainlinkEscrowInv == Spec => []EscrowInv
<1>1. Init => NoncesAreFresh
  BY DEF Init, NoncesAreFresh
<1>2. TypeOK /\ NoncesAreFresh /\ [Next]_vars => NoncesAreFresh'
  <2> SUFFICES ASSUME TypeOK, NoncesAreFresh, [Next]_vars
               PROVE  NoncesAreFresh'
    OBVIOUS
  <2> USE AddressFacts DEF NoncesAreFresh
  <2>1. ASSUME NEW c \in Consumers, sendChainlinkRequestTo(c)
        PROVE  NoncesAreFresh'
    <3> SUFFICES ASSUME NEW r \in Requests, r[2] >= requestCount'[r[1]]
                 PROVE  commitments'[r] = None
      OBVIOUS
    <3>1. r[2] >= requestCount[r[1]] /\ r # <<c, requestCount[c]>>
      BY <2>1, TimeAssumption DEF sendChainlinkRequestTo, TypeOK
    <3>2. QED
      BY <2>1, <3>1 DEF sendChainlinkRequestTo, transferAndCall, oracleRequest,
                        TypeOK
  <2>2. ASSUME NEW r \in Requests, Fulfil(r) \/ cancelChainlinkRequest(r)
        PROVE  NoncesAreFresh'
    BY <2>2 DEF Fulfil, Answered, CallbackReverted, fulfillOracleRequest,
                cancelChainlinkRequest, cancelOracleRequest, TypeOK
  <2>3. CASE UNCHANGED <<requestCount, commitments>>
    BY <2>3
  <2>4. QED
    BY <2>1, <2>2, <2>3
       DEF Next, withdraw, linkTransfer, setFulfillmentPermission,
           transferOwnership, Tick, vars, clientVars, oracleVars
<1>3. QED
  BY <1>1, <1>2, ChainlinkTypeOK, PTL DEF Spec, EscrowInv

\* The end of an open request closes it for good.
LEMMA StatusCloses ==
  ASSUME EscrowInv, NEW r \in Requests, commitments[r] # None,
         commitments' = [commitments EXCEPT ![r] = None],
         UNCHANGED requestCount
  PROVE  /\ Status[r] = "open"
         /\ Status' = [Status EXCEPT ![r] = "closed"]
<1>1. ~ (r[2] >= requestCount[r[1]])
  BY DEF EscrowInv, NoncesAreFresh
<1>2. QED
  BY <1>1 DEF EscrowInv, TypeOK, Status, None

\* Chainlink implements Escrow: whatever the contracts do with requests and
\* LINK is a payment, its settlement or refund, a collection or a donation.
THEOREM ChainlinkEscrow == Spec => EscrowSpec
<1>1. Init => E!Init
  BY AddressFacts, LinkAssumption, TimeAssumption
     DEF Init, E!Init, Status, Requests, OneForConsistentGasCost
<1>2. EscrowInv /\ EscrowInv' /\ [Next]_vars => [E!Next]_(E!vars)
  <2> SUFFICES ASSUME EscrowInv, EscrowInv', [Next]_vars
               PROVE  E!Next \/ UNCHANGED E!vars
    OBVIOUS
  <2>0. /\ link[Oracle] \in Nat /\ link'[Oracle] \in Nat
        /\ withdrawableTokens \in Nat \ {0}
        /\ withdrawableTokens' \in Nat \ {0}
    BY AddressFacts DEF EscrowInv, TypeOK
  <2>1. ASSUME NEW c \in Consumers, sendChainlinkRequestTo(c) PROVE E!Next
    <3> DEFINE r == <<c, requestCount[c]>>
    <3>1. r \in Requests
      BY <2>1, NextRequest DEF sendChainlinkRequestTo, EscrowInv
    <3>2. commitments[r] = None /\ Status[r] = "new"
      BY <2>1, <3>1 DEF sendChainlinkRequestTo, transferAndCall, oracleRequest,
                        Status, EscrowInv, TypeOK
    <3>3. Status' = [Status EXCEPT ![r] = "open"]
      <4>1. /\ commitments'[r] # None
            /\ \A q \in Requests \ {r} : commitments'[q] = commitments[q]
        BY <2>1, <3>1, TimeAssumption
           DEF sendChainlinkRequestTo, transferAndCall, oracleRequest,
               EscrowInv, TypeOK, None
      <4>2. \A q \in Requests \ {r} :
              q[2] >= requestCount'[q[1]] <=> q[2] >= requestCount[q[1]]
        <5> SUFFICES ASSUME NEW q \in Requests, q # r
                     PROVE  q[2] >= requestCount'[q[1]]
                              <=> q[2] >= requestCount[q[1]]
          OBVIOUS
        <5>1. /\ requestCount' = [requestCount EXCEPT ![c] = @ + 1]
              /\ requestCount \in [Consumers -> Nat]
          BY <2>1, TimeAssumption
             DEF sendChainlinkRequestTo, EscrowInv, TypeOK
        <5>2. q = <<q[1], q[2]>> /\ q[1] \in Consumers /\ q[2] \in Nat
          BY TimeAssumption DEF Requests
        <5>3. QED
          BY <5>1, <5>2
      <4>3. QED
        BY <3>1, <4>1, <4>2 DEF Status
    <3>4. link'[Oracle] = link[Oracle] + Payment
      BY <2>1, LinkMovesType, AddressFacts, LinkAssumption
         DEF sendChainlinkRequestTo, transferAndCall, EscrowInv, TypeOK
    <3>5. withdrawableTokens' = withdrawableTokens
      BY <2>1 DEF sendChainlinkRequestTo, transferAndCall, oracleRequest
    <3> HIDE DEF r
    <3>6. E!Request(r)
      BY <3>2, <3>3, <3>4, <3>5 DEF E!Request
    <3>7. QED
      BY <3>1, <3>6 DEF E!Next
  <2>2. ASSUME NEW r \in Requests, Fulfil(r) PROVE E!Next
    <3>1. PICK sender \in Accounts : fulfillOracleRequest(sender, r)
      BY <2>2 DEF Fulfil, Answered, CallbackReverted
    <3>2. Status[r] = "open" /\ Status' = [Status EXCEPT ![r] = "closed"]
      BY <3>1, StatusCloses DEF fulfillOracleRequest
    <3>3. E!Settle(r)
      BY <2>0, <3>1, <3>2, LinkAssumption
         DEF fulfillOracleRequest, E!Settle, E!Close, OneForConsistentGasCost
    <3>4. QED
      BY <3>3 DEF E!Next
  <2>3. ASSUME NEW r \in Requests, cancelChainlinkRequest(r) PROVE E!Next
    <3>1. Status[r] = "open" /\ Status' = [Status EXCEPT ![r] = "closed"]
      BY <2>3, StatusCloses DEF cancelChainlinkRequest, cancelOracleRequest
    <3>2. link'[Oracle] = link[Oracle] - Payment
      BY <2>3, LinkMovesType, AddressFacts, LinkAssumption
         DEF cancelChainlinkRequest, cancelOracleRequest, EscrowInv, TypeOK
    <3>3. E!Refund(r)
      BY <2>3, <3>1, <3>2
         DEF cancelChainlinkRequest, cancelOracleRequest, E!Refund, E!Close
    <3>4. QED
      BY <3>3 DEF E!Next
  <2>4. ASSUME NEW sender \in Accounts, NEW to \in Address,
               NEW amount \in LinkAmounts, withdraw(sender, to, amount)
        PROVE  E!Next
    <3>1. link'[Oracle] \in {link[Oracle], link[Oracle] - amount}
      BY <2>4, LinkMovesType, AddressFacts, LinkAssumption
         DEF withdraw, EscrowInv, TypeOK
    <3>2. /\ withdrawableTokens' = withdrawableTokens - amount
          /\ amount \in Nat
          /\ Status' = Status
      BY <2>4, LinkAssumption DEF withdraw, clientVars, Status
    <3>3. E!Collect
      BY <2>0, <3>1, <3>2 DEF E!Collect, OneForConsistentGasCost
    <3>4. QED
      BY <3>3 DEF E!Next
  <2>5. ASSUME NEW sender \in Accounts, NEW to \in Address,
               NEW amount \in LinkAmounts, linkTransfer(sender, to, amount)
        PROVE  E!Next
    <3>0. /\ LinkMoves(sender, to, amount)
          /\ link \in [Address -> Nat]
          /\ amount \in Nat /\ sender \in Address /\ sender # Oracle
      BY <2>5, AddressFacts, LinkAssumption DEF linkTransfer, EscrowInv, TypeOK
    <3>1. link'[Oracle] >= link[Oracle]
      BY <2>0, <3>0, LinkMovesType, AddressFacts
    <3>2. withdrawableTokens' = withdrawableTokens /\ Status' = Status
      BY <2>5 DEF linkTransfer, clientVars, oracleVars, Status
    <3>3. E!Donate
      BY <2>0, <3>1, <3>2 DEF E!Donate
    <3>4. QED
      BY <3>3 DEF E!Next
  <2>6. CASE UNCHANGED <<link, requestCount, oracleVars>>
    BY <2>6 DEF E!vars, Status, oracleVars
  <2>7. QED
    BY <2>1, <2>2, <2>3, <2>4, <2>5, <2>6
       DEF Next, setFulfillmentPermission, transferOwnership, Tick, vars,
           clientVars
<1>3. QED
  BY <1>1, <1>2, ChainlinkEscrowInv, PTL DEF Spec, EscrowSpec, E!Spec
-----------------------------------------------------------------------------
\* There are finitely many requests.
LEMMA RequestsFinite == IsFiniteSet(Requests)
<1>1. IsFiniteSet(1 .. MaxRequests)
  BY TimeAssumption, FS_Interval
<1>2. IsFiniteSet(Consumers)
  BY AddressAssumption
<1>3. QED
  BY <1>1, <1>2, FS_Product DEF Requests

\* What Escrow promises follows from its steps alone, so that whatever
\* implements it can always pay.  These are its variables,
Held   == link[Oracle]
Earned == withdrawableTokens - OneForConsistentGasCost

EscrowTypeOK == /\ Status \in [Requests -> {"new", "open", "closed"}]
                /\ Held \in Int
                /\ Earned \in Nat

\* and its promise with what makes it inductive.
CoveredInv == /\ EscrowTypeOK
              /\ Held >= Earned + Payment * Cardinality(E!Open)

\* One open request more when one is made, one less when one ends.
LEMMA OpenGrows ==
  ASSUME EscrowTypeOK, NEW r \in Requests, E!Request(r)
  PROVE  /\ Cardinality(E!Open) \in Nat
         /\ Cardinality(E!Open') = Cardinality(E!Open) + 1
<1>1. E!Open \in SUBSET Requests
  BY DEF E!Open
<1>2. E!Open' = E!Open \cup {r} /\ r \notin E!Open
  BY DEF E!Open, E!Request, EscrowTypeOK
<1>3. QED
  BY <1>1, <1>2, RequestsFinite, FS_Subset, FS_CardinalityType, FS_AddElement

LEMMA OpenShrinks ==
  ASSUME EscrowTypeOK, NEW r \in Requests, E!Close(r)
  PROVE  /\ Cardinality(E!Open) \in Nat
         /\ Cardinality(E!Open') = Cardinality(E!Open) - 1
<1>1. E!Open \in SUBSET Requests
  BY DEF E!Open
<1>2. E!Open' = E!Open \ {r} /\ r \in E!Open
  BY DEF E!Open, E!Close, EscrowTypeOK
<1>3. QED
  BY <1>1, <1>2, RequestsFinite, FS_Subset, FS_CardinalityType,
     FS_RemoveElement

\* However requests, settlements, refunds, collections and donations follow
\* each other, everything earned and everything refundable is there.
THEOREM EscrowCovered == E!Spec => []E!Covered
<1> USE RequestsFinite, LinkAssumption DEF Held, Earned
<1>1. E!Init => CoveredInv
  <2> SUFFICES ASSUME E!Init PROVE CoveredInv
    OBVIOUS
  <2>1. E!Open = {}
    BY DEF E!Init, E!Open
  <2>2. Cardinality(E!Open) = 0
    BY <2>1, FS_EmptySet
  <2>3. QED
    BY <2>2 DEF E!Init, CoveredInv, EscrowTypeOK
<1>2. CoveredInv /\ [E!Next]_(E!vars) => CoveredInv'
  <2> SUFFICES ASSUME CoveredInv, [E!Next]_(E!vars) PROVE CoveredInv'
    OBVIOUS
  <2> DEFINE n == Cardinality(E!Open)
  <2>0. E!Open \in SUBSET Requests /\ n \in Nat
    <3>1. E!Open \in SUBSET Requests
      BY DEF E!Open
    <3>2. QED
      BY <3>1, FS_Subset, FS_CardinalityType
  <2>1. ASSUME NEW r \in Requests, E!Request(r) PROVE CoveredInv'
    <3>1. n' = n + 1
      BY <2>1, OpenGrows DEF CoveredInv
    <3>2. EscrowTypeOK'
      BY <2>1 DEF E!Request, CoveredInv, EscrowTypeOK
    <3> HIDE DEF n
    <3>3. Payment * n' = Payment * n + Payment
      BY <2>0, <3>1
    <3>4. QED
      BY <2>0, <2>1, <3>2, <3>3 DEF E!Request, CoveredInv, EscrowTypeOK, n
  <2>2. ASSUME NEW r \in Requests, E!Settle(r) \/ E!Refund(r) PROVE CoveredInv'
    <3>1. n' = n - 1
      BY <2>2, OpenShrinks DEF E!Settle, E!Refund, CoveredInv
    <3>2. EscrowTypeOK'
      BY <2>2 DEF E!Settle, E!Refund, E!Close, CoveredInv, EscrowTypeOK
    <3> HIDE DEF n
    <3>3. Payment * n' = Payment * n - Payment
      BY <2>0, <3>1
    <3>4. QED
      BY <2>0, <2>2, <3>2, <3>3 DEF E!Settle, E!Refund, CoveredInv, EscrowTypeOK, n
  <2>3. CASE E!Collect
    <3>1. E!Open' = E!Open /\ Status' = Status
      BY <2>3 DEF E!Collect, E!Open
    <3>2. Held \in Int /\ Earned \in Nat
      BY DEF CoveredInv, EscrowTypeOK
    <3>3. PICK e \in 0 .. Earned :
            Earned' = e /\ Held' \in {Held, Held - (Earned - e)}
      BY <2>3 DEF E!Collect
    <3>4. PICK h \in Int :
            h = Held' /\ h \in {Held, Held - (Earned - e)}
      BY <3>2, <3>3
    <3> DEFINE owed == Payment * n
    <3>5. owed \in Nat /\ Held >= Earned + owed
      BY <2>0 DEF CoveredInv, EscrowTypeOK
    <3> HIDE DEF owed
    <3>6. h >= e + owed
      BY <3>2, <3>3, <3>4, <3>5
    <3>7. EscrowTypeOK'
      BY <3>1, <3>2, <3>3, <3>4 DEF CoveredInv, EscrowTypeOK
    <3>8. QED
      BY <3>1, <3>3, <3>4, <3>6, <3>7 DEF CoveredInv, owed
  <2>4. CASE E!Donate
    <3>1. E!Open' = E!Open
      BY <2>4 DEF E!Donate, E!Open
    <3>2. QED
      BY <2>0, <2>4, <3>1 DEF E!Donate, CoveredInv, EscrowTypeOK
  <2>5. CASE UNCHANGED E!vars
    BY <2>5 DEF E!vars, CoveredInv, EscrowTypeOK, E!Open
  <2>6. QED
    BY <2>1, <2>2, <2>3, <2>4, <2>5 DEF E!Next
<1>3. CoveredInv => E!Covered
  BY DEF CoveredInv, E!Covered, E!Cardinality, Cardinality
<1>4. QED
  BY <1>1, <1>2, <1>3, PTL DEF E!Spec

\* So the oracle, which implements it, can pay all that it has earned and
\* refund all that is open, at once and in any order (Oracle.sol:198 and :249
\* never fail).
THEOREM ChainlinkOracleCovers == Spec => []OracleCovers
<1>1. E!Open = Committed
  BY DEF E!Open, Status, Committed
<1>2. E!Covered => OracleCovers
  BY <1>1 DEF E!Covered, OracleCovers, E!Cardinality, Cardinality
<1>3. QED
  BY <1>2, ChainlinkEscrow, EscrowCovered, PTL DEF EscrowSpec
-----------------------------------------------------------------------------
\* What makes the refund of an open request sure, short of fairness: it falls
\* due within EXPIRY_TIME of the present, its consumer still awaits an answer,
\* and the oracle can pay it, so that cancelChainlinkRequest succeeds from then
\* on (ChainlinkClient.sol:110, Oracle.sol:244-249).
RefundIsReady ==
  \A r \in Committed : /\ commitments[r] <= now + ExpiryTime
                       /\ r \in pendingRequests
                       /\ link[Oracle] >= Payment

\* A request's time of expiry never moves: an open one stays open with the
\* deadline it was given until it is resolved.
DeadlineStands(r) ==
  commitments[r] # None => commitments'[r] \in {commitments[r], None}

\* Every request falls due within EXPIRY_TIME of the present.
FallDue == \A r \in Requests : commitments[r] <= now + ExpiryTime

LEMMA ChainlinkFallDue == Spec => []FallDue
<1>1. Init => FallDue
  BY TimeAssumption DEF Init, FallDue, None
<1>2. TypeOK /\ FallDue /\ [Next]_vars => FallDue'
  <2> SUFFICES ASSUME TypeOK, FallDue, [Next]_vars PROVE FallDue'
    OBVIOUS
  <2> USE TimeAssumption DEF FallDue, TypeOK
  <2>1. ASSUME NEW c \in Consumers, sendChainlinkRequestTo(c) PROVE FallDue'
    BY <2>1 DEF sendChainlinkRequestTo, transferAndCall, oracleRequest
  <2>2. ASSUME NEW r \in Requests, Fulfil(r) \/ cancelChainlinkRequest(r)
        PROVE  FallDue'
    BY <2>2 DEF Fulfil, Answered, CallbackReverted, fulfillOracleRequest,
                cancelChainlinkRequest, cancelOracleRequest, None
  <2>3. CASE Tick
    BY <2>3 DEF Tick, oracleVars
  <2>4. CASE UNCHANGED <<commitments, now>>
    BY <2>4
  <2>5. QED
    BY <2>1, <2>2, <2>3, <2>4
       DEF Next, withdraw, linkTransfer, setFulfillmentPermission,
           transferOwnership, vars, oracleVars
<1>3. QED
  BY <1>1, <1>2, ChainlinkTypeOK, PTL DEF Spec

\* No step of anyone, the operator's withdrawals included, leaves an open
\* request without its refund: nothing but an answer comes before the
\* cancellation.  This is what RequestsAreResolved rests on besides fairness.
THEOREM ChainlinkRefundIsReady == Spec => []RefundIsReady
<1>1. TypeOK /\ OracleCovers /\ CommittedIsPending /\ FallDue => RefundIsReady
  <2> SUFFICES ASSUME TypeOK, OracleCovers, CommittedIsPending, FallDue,
                      NEW r \in Committed
               PROVE  /\ commitments[r] <= now + ExpiryTime
                      /\ r \in pendingRequests
                      /\ link[Oracle] >= Payment
    BY DEF RefundIsReady
  <2>1. Committed \in SUBSET Requests
    BY DEF Committed
  <2>2. IsFiniteSet(Committed) /\ IsFiniteSet(Committed \ {r})
    BY <2>1, RequestsFinite, FS_Subset
  <2>3. PICK n \in Nat : Cardinality(Committed) = n + 1
    <3>1. /\ Cardinality(Committed \ {r}) = Cardinality(Committed) - 1
          /\ Cardinality(Committed) \in Nat
          /\ Cardinality(Committed \ {r}) \in Nat
      BY <2>2, FS_RemoveElement, FS_CardinalityType
    <3>2. QED
      BY <3>1
  <2>4. Payment * (n + 1) = Payment * n + Payment /\ Payment * n \in Nat
    BY LinkAssumption
  <2>5. /\ link[Oracle] \in Nat
        /\ withdrawableTokens - OneForConsistentGasCost \in Nat
    BY AddressFacts DEF TypeOK, OneForConsistentGasCost
  <2>6. link[Oracle] >= Payment
    BY <2>3, <2>4, <2>5, LinkAssumption DEF OracleCovers
  <2>7. QED
    BY <2>1, <2>6 DEF CommittedIsPending, FallDue
<1>2. QED
  BY <1>1, ChainlinkTypeOK, ChainlinkOracleCovers, ChainlinkCommittedIsPending,
     ChainlinkFallDue, PTL

\* No deadline is put off, by anyone.
THEOREM ChainlinkDeadlinesStand ==
  Spec => [][\A r \in Requests : DeadlineStands(r)]_vars
<1>1. TypeOK /\ [Next]_vars => [\A r \in Requests : DeadlineStands(r)]_vars
  <2> SUFFICES ASSUME TypeOK, Next, NEW r \in Requests PROVE DeadlineStands(r)
    OBVIOUS
  <2> USE DEF DeadlineStands, TypeOK
  <2>1. ASSUME NEW c \in Consumers, sendChainlinkRequestTo(c)
        PROVE  DeadlineStands(r)
    BY <2>1 DEF sendChainlinkRequestTo, transferAndCall, oracleRequest
  <2>2. ASSUME NEW q \in Requests, Fulfil(q) \/ cancelChainlinkRequest(q)
        PROVE  DeadlineStands(r)
    BY <2>2 DEF Fulfil, Answered, CallbackReverted, fulfillOracleRequest,
                cancelChainlinkRequest, cancelOracleRequest
  <2>3. CASE UNCHANGED commitments
    BY <2>3
  <2>4. QED
    BY <2>1, <2>2, <2>3
       DEF Next, withdraw, linkTransfer, setFulfillmentPermission,
           transferOwnership, Tick, oracleVars
<1>2. QED
  BY <1>1, ChainlinkTypeOK, PTL DEF Spec
=============================================================================
