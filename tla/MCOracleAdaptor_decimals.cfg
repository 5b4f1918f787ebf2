CONSTANTS
  eth = eth
  btc = btc
  reflector = reflector
  dia = dia
  None = None
  Asset = {eth}
  Feed = {reflector, dia}
  DecimalsOf <- MoreDecimals
  Price = {2, 20}
  Sources <- UsualOrder
  Working <- UpOrDown
  Pausing = {}
  Skew <- InStep
  Tuning <- One
  DefaultTuning <- Wide
  BpsDenominator = 4
  MaxI128 = 10000
  OracleDecimals = 1
  OracleStaleWindow = 1
  MaxTime = 1
  MaxSamples = 2
SPECIFICATION Spec
INVARIANTS ServedInDeclaredDecimals
