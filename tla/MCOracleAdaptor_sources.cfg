CONSTANTS
  eth = eth
  btc = btc
  reflector = reflector
  dia = dia
  None = None
  Asset = {eth}
  Feed = {reflector, dia}
  DecimalsOf <- SameDecimals
  Price = {2, 3}
  Sources <- EitherOrder
  Working <- InParts
  Pausing = {TRUE, FALSE}
  Skew <- AheadToo
  Tuning <- Narrower
  DefaultTuning <- Narrow
  BpsDenominator = 4
  MaxI128 = 10000
  OracleDecimals = 1
  OracleStaleWindow = 1
  MaxTime = 1
  MaxSamples = 1
SPECIFICATION Spec
INVARIANTS TypeOK OneSourceIsEnough AlarmHolds
PROPERTIES AcceptedNearSources UpdateMakesServable
