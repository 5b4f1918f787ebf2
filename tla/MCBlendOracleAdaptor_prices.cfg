CONSTANTS
  eth = eth
  usd = usd
  reflector = reflector
  dia = dia
  None = None
  Asset = {eth}
  Feed = {reflector, dia}
  DecimalsOf <- SameDecimals
  Price = {2, 3}
  Sources <- UsualOrder
  Working <- UpOrDown
  Pausing = {}
  Skew <- InStep
  Tuning <- One
  DefaultTuning <- Brief
  BpsDenominator = 4
  MaxI128 = 10000
  OracleDecimals = 1
  OracleStaleWindow = 1
  MaxTime = 2
  MaxSamples = 2
  Other = {usd}
  AssetList <- WithAndWithout
  Resolution = {0, 1}
  MockEntry <- Entries
SPECIFICATION BlendSpec
INVARIANTS ServedWithinRecentPrices BlendPricesReported
