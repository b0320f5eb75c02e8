SPECIFICATION LiveSpec
CONSTANTS
  Fault = Fault
  Motions <- MCMotions
  Formats = {64}
  half = half
  States <- MCStates
  Integral = {0, 1}
  InitialItem = NoItem
  NoItem = NoItem
  NoState = NoState
  Pi = Pi
  Other = Other
  Resets = {0, half, NoState}
INVARIANTS TypeOK AlarmsAreReal ByteOrdersAgree ReadingsAreOneOff
PROPERTIES ShakesAreReported ReportsSettle FormatIsKept
