CONSTANTS
  alice = alice
  ops = ops
  oracle = oracle
  share = share
  reflector = reflector
  dia = dia
  None = None
  NoAddress = NoAddress
  Asset = {share}
  User = {alice}
  Operator = {ops, oracle}
  Adaptor = oracle
  Deployment <- OneDeployment
  Config <- LooseConfig
  Grantable <- Roles
  Amount = {2}
  TransferFee = {0}
  Rate <- EvenRate
  BpsDenominator = 4
  PriceScalar = 1
  SecondsPerYear = 2
  OracleStaleWindow = 1
  MaxCollateral = 2
  MaxFunds = 2
  MaxTime = 1
  Feed = {reflector, dia}
  DecimalsOf <- EqualDecimals
  FeedPrice = {1, 2}
  Sources <- BothFeeds
  Working <- BothCalls
  Skew <- InStep
  Tuning <- OneTuning
  DefaultTuning <- Short
  MaxI128 = 4
  OracleDecimals = 1
  MaxSamples = 1
SPECIFICATION Spec
PROPERTIES ImplementsParts AlarmStopsPayouts LoansAtRecentPrices LiquidationsAtRecentPrices
