CONSTANTS
  alice = alice
  bob = bob
  helixBridge = helixBridge
  NoAddress = {alice, bob, helixBridge}
  Address = {alice, bob, helixBridge}
  Spender = {bob}
  Deployment <- OneContract
  Amount <- SmallAmounts
  MaxI128 = 3
  MaxLedger = 1
SPECIFICATION Spec
INVARIANTS TypeOK SharesConserved QuotesCovered ConversionNeverGains
PROPERTIES BurnKeepsRate OnlyAuthorizedDebits AllowanceGrantedByOwner ImplementsLedger
