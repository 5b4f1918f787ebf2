CONSTANTS
  alice = alice
  bob = bob
  ops = ops
  oracle = oracle
  shareA = shareA
  shareB = shareB
  NoAddress = NoAddress
  User = {alice, bob}
  Operator = {ops, oracle}
  Asset = {shareA, shareB}
  Deployment <- SafeDeployment
  Config <- SafeConfigs
  Grantable <- OneLiquidator
  Amount = {2, 3}
  TransferFee = {0, 1}
  Rate <- EvenRate
  Price = {1, 2}
  PriceTime = {0}
  BpsDenominator = 4
  PriceScalar = 1
  SecondsPerYear = 2
  OracleStaleWindow = 1
  MaxCollateral = 5
  MaxFunds = 2
  MaxTime = 0
SPECIFICATION Spec
INVARIANTS DepositsAccounted CustodyCoversDeposits
