SPECIFICATION Spec
CONSTANTS
  MaxUint = 63
  alice = alice
  bob = bob
  pool = pool
  Address <- MCAddress
  Pool = pool
  Depositors <- MCDepositors
  InitialCoin <- MCInitialCoin
  Amounts = {0, 10, 20}
  MaxLent = 20
  Givers <- MCGivers
  Gifts = {1}
INVARIANTS TypeOK RecordsAreBacked PrincipalIsAvailable AddIsExact MulIsExact
