CONSTANTS
  alice = alice
  helixBridge = helixBridge
  ops = ops
  evm = evm
  axelar = axelar
  NoAddress = NoAddress
  Address = {alice, helixBridge}
  ContractOf <- ToAlice
  Payload <- Reported
  DefaultEpoch = 2
  Key = {evm}
  Operator = {ops}
  Source = {axelar}
  Message <- Repeated
  Limit <- SameDuration
  Amount <- UpToOne
  MaxI128 = 3
  MaxU64 = 2
  MaxLedger = 2
  MaxWithdrawals = 2
  Deployment <- BridgedToken
  TokenAdmin = {alice}
  Handler = helixBridge
SPECIFICATION Spec
INVARIANTS QuotesWithinReports WithdrawalsDistinct
PROPERTIES ImplementsParts
