CONSTANTS
  alice = alice
  bob = bob
  shareA = shareA
  shareB = shareB
  None = None
  User = {alice, bob}
  Asset = {shareB}
  PrimaryAsset = shareA
  Debts = {0, 1, 2}
  OlderDebts = {2}
  Health = {0, 2}
  HealthOne = 1
  Funds = {1}
  StartLedgers <- StartOrLookback
  LedgerLookback = 0
  EventPageLimit = 1
  LiqBonus = 1
  BpsDenominator = 1
  MinProfit = 1
  MaxLiquidationsPerRun = 1
  Failing <- Calls
  MaxEvents = 2
  MaxDisturbances = 2
SPECIFICATION Spec
INVARIANTS TypeOK IndexAccurate
PROPERTIES DueIsTried
