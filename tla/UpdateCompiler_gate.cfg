SPECIFICATION SpecCompile
CONSTANTS
  Jobs <- LastLayer
  kArenaAlign = 64
  HeaderBytes = 280
  InstrBytes = 64
  EmitBytes = 24
  kSeeuRodataAlignment = 16384
  WordSize = 100000000
  kSourceSpaceLimit = 10000000
INVARIANT RejectionsAreCorrect
CHECK_DEADLOCK FALSE
