SPECIFICATION Spec
CONSTANTS
  MaxUint = 65535
  alice = alice
  bob = bob
  admin = admin
  manager = manager
  pool = pool
  zero = zero
  oracle = oracle
  operator = operator
  Address <- MCAddress
  Users <- MCUsers
  Owners <- MCOwners
  Admin = admin
  Manager = manager
  Pool = pool
  Zero = zero
  tokenPrice = 100
  InitialCoin <- MCPlainCoin
  Answers = {0, 1, 2}
  BuyAmounts = {1}
  MaxSold = 2
  DepositAmounts = {30}
  MaxPool = 30
  TradeAmounts = {}
  LinkAddress <- MCLinkAddress
  InitialLink <- MCScarceLink
  Oracle = oracle
  Operator = operator
  Payment = 1
  ExpiryTime = 1
  MaxRequests = 2
  MaxNow = 2
  LinkAmounts = {1}
SYMMETRY MCSymmetry
PROPERTIES AnswersPayTheirRequester 
