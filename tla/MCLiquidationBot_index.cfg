CONSTANTS
  alice = alice
  bob = bob
  shareA = shareA
  shareB = shareB
  None = None
  User = {alice, bob}
  Asset = {shareB}
  PrimaryAsset = shareA
  Debts = {0, 1, 2}
  OlderDebts <- New
  Health = {0, 2}
  HealthOne = 1
  Funds = {1}
  StartLedgers = {0}
  LedgerLookback = 0
  EventPageLimit = 9
  LiqBonus = 1
  BpsDenominator = 1
  MinProfit = 1
  MaxLiquidationsPerRun = 1
  Failing <- OnlyReads
  MaxEvents = 1
  MaxDisturbances = 1
SPECIFICATION Spec
INVARIANTS IndexComplete
