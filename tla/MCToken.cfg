SPECIFICATION Spec
CONSTANTS
  MaxUint = 2
  alice = alice
  bob = bob
  carol = carol
  Address <- MCAddress
  Approvers <- MCApprovers
INVARIANTS TypeOK SupplyIsSumOfBalances
PROPERTIES DebitsAreAuthorised SupplyFollowsAdmin
