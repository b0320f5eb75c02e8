SPECIFICATION NodeSpec
CONSTANTS
  MaxUint = 65535
  alice = alice
  bob = bob
  admin = admin
  manager = manager
  pool = pool
  zero = zero
  oracle = oracle
  operator = operator
  Address <- MCOneAddress
  Users <- MCOneUser
  Owners = {}
  Admin = admin
  Manager = manager
  Pool = pool
  Zero = zero
  tokenPrice = 100
  InitialCoin <- MCOneCoin
  Answers = {1}
  BuyAmounts = {1}
  MaxSold = 1
  DepositAmounts = {30}
  MaxPool = 66
  TradeAmounts = {}
  LinkAddress <- MCLinkAddress
  InitialLink <- MCInitialLink
  Oracle = oracle
  Operator = operator
  Payment = 1
  ExpiryTime = 1
  MaxRequests = 1
  MaxNow = 2
  LinkAmounts = {}
PROPERTIES EventEndsTheContract
