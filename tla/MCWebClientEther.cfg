SPECIFICATION Spec
CONSTANTS
  MaxUint = 65535
  alice = alice
  admin = admin
  manager = manager
  pool = pool
  zero = zero
  oracle = oracle
  operator = operator
  p1 = p1
  p2 = p2
  r1 = r1
  User = alice
  Purchases <- MCPurchases
  Redemptions <- MCRedemptions
  MaxReloads = 1
  Address <- MCAddress
  Users <- MCUsers
  Owners = {}
  Admin = admin
  Manager = manager
  Pool = pool
  Zero = zero
  tokenPrice = 10
  InitialCoin <- MCInitialCoin
  Answers = {0, 1}
  BuyAmounts = {1, 2}
  MaxSold = 4
  DepositAmounts = {}
  MaxPool = 0
  TradeAmounts = {}
  LinkAddress <- MCLinkAddress
  InitialLink <- MCInitialLink
  Oracle = oracle
  Operator = operator
  Payment = 1
  ExpiryTime = 1
  MaxRequests = 1
  MaxNow = 2
  LinkAmounts = {}
PROPERTIES PriceIsPaidOnce
CHECK_DEADLOCK FALSE
