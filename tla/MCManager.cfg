SPECIFICATION Spec
CONSTANTS
  MaxUint = 65535
  alice = alice
  bob = bob
  admin = admin
  manager = manager
  pool = pool
  zero = zero
  oracle = oracle
  operator = operator
  Address <- MCAddress
  Users <- MCUsers
  Owners = {}
  Admin = admin
  Manager = manager
  Pool = pool
  Zero = zero
  tokenPrice = 100
  InitialCoin <- MCInitialCoin
  Answers = {0, 1, 2}
  BuyAmounts = {1}
  MaxSold = 2
  DepositAmounts = {30}
  MaxPool = 66
  TradeAmounts = {1}
  LinkAddress <- MCLinkAddress
  InitialLink <- MCInitialLink
  Oracle = oracle
  Operator = operator
  Payment = 1
  ExpiryTime = 1
  MaxRequests = 1
  MaxNow = 2
  LinkAmounts = {}
SYMMETRY MCSymmetry
INVARIANTS TypeOK  
PROPERTIES  SettlingCollectsTheLoan
