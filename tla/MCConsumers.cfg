SPECIFICATION Spec
CONSTANTS
  updater = updater
  consumer = consumer
  oracle = oracle
  operator = operator
  admin = admin
  Zero = Zero
  Updater = updater
  Consumer = consumer
  Admin = admin
  Address <- MCAddress
  InitialLink <- MCInitialLink
  Oracle = oracle
  Operator = operator
  Payment = 1
  ExpiryTime = 1
  MaxRequests = 2
  MaxNow = 3
INVARIANTS TypeOK
PROPERTIES EarnedAnswersAreAwaited FreshAnswersStay
CHECK_DEADLOCK FALSE
