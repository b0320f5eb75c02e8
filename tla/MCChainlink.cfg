SPECIFICATION OwnerSpec
CONSTANTS
  manager = manager
  updater = updater
  oracle = oracle
  operator = operator
  other = other
  Address <- MCAddress
  Consumers <- MCConsumers
  InitialLink <- MCInitialLink
  Oracle = oracle
  InitialOwner = operator
  Payment = 1
  ExpiryTime = 2
  MaxRequests = 2
  MaxNow = 4
  LinkAmounts = {1}
INVARIANTS TypeOK OracleCovers CommittedIsPending
PROPERTIES EscrowSpec RequestsAreResolved
