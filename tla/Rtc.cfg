SPECIFICATION RLiveSpec
CONSTANTS
  MAX_HZ = 8
  WordSize = 16
  Rates <- MCRates
  Depth = 2
INVARIANTS ReadKeepsUp NotTooSoon
PROPERTIES ReadReturns
