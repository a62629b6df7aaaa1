SPECIFICATION RSpec
CONSTANTS
  MAX_HZ = 8
  WordSize = 16
  Rates <- MCRates
  Depth = 2
INVARIANT ReadOnTime
