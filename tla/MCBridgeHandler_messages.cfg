CONSTANTS
  alice = alice
  bob = bob
  ops = ops
  council = council
  evm = evm
  contractId = contractId
  axelar = axelar
  other = other
  NoAddress = NoAddress
  Address = {alice, bob}
  ContractOf <- DirectOwner
  Payload <- AllPayloads
  DefaultEpoch = 2
  Key = {evm, contractId}
  Operator = {ops}
  Source = {axelar, other}
  Message <- MixedMessages
  Limit <- Tight
  Amount = {2}
  MaxI128 = 3
  MaxU64 = 3
  MaxLedger = 1
  MaxWithdrawals = 1
SPECIFICATION Spec
INVARIANTS TypeOK SupplyBacked CountersComplete AppliedThroughOneMessage
PROPERTIES RateMovesOncePerReport
