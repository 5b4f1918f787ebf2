CONSTANTS
  alice = alice
  bob = bob
  ops = ops
  oracle = oracle
  shareA = shareA
  shareB = shareB
  NoAddress = NoAddress
  User = {alice}
  Operator = {ops, oracle}
  Asset = {shareA}
  Deployment <- SafeDeployment
  Config <- AllConfigs
  Grantable <- OneLiquidator
  Amount = {0, 1, 2, 4, 6}
  TransferFee = {0}
  Rate <- EvenRate
  Price = {0, 1, 2}
  PriceTime = {0, 1, 2}
  BpsDenominator = 4
  PriceScalar = 1
  SecondsPerYear = 2
  OracleStaleWindow = 1
  MaxCollateral = 6
  MaxFunds = 4
  MaxTime = 2
SPECIFICATION Spec
INVARIANT TotalBorrowsClearsWithDebt
