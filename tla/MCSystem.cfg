SPECIFICATION Spec
CONSTANTS
  MaxUint = 65535
  alice = alice
  admin = admin
  manager = manager
  pool = pool
  zero = zero
  oracle = oracle
  operator = operator
  Poster = Poster
  NoItem = NoItem
  NoState = NoState
  InitialItem = 0
  Address <- MCAddress
  Users <- MCUsers
  Owners = {}
  Admin = admin
  Manager = manager
  Pool = pool
  Zero = zero
  tokenPrice = 100
  InitialCoin <- MCInitialCoin
  Answers = {0, 1}
  BuyAmounts = {1}
  MaxSold = 1
  DepositAmounts = {30}
  MaxPool = 33
  TradeAmounts = {}
  LinkAddress <- MCLinkAddress
  InitialLink <- MCInitialLink
  Oracle = oracle
  Operator = operator
  Payment = 1
  ExpiryTime = 1
  MaxRequests = 1
  MaxNow = 2
  LinkAmounts = {}
INVARIANTS TypeOK
PROPERTIES  EventsAreSettled RequestsAreResolved
CHECK_DEADLOCK FALSE
