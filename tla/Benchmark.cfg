\* Two threads, sweeps of three records and rounds of two queries; latencies
\* whose sum may be too large for an unsigned int.
CONSTANTS
  Thread      = {t1, t2}
  MAX_RECORDS = 3
  MaxQuery    = 2
  RunTimes    = 2
  Latency     = {1, 2, 6}
  UInt        = 16
  MaxWarmups  = 4
SPECIFICATION Spec
SYMMETRY Interchangeable
INVARIANTS TypeOK LogOfRound StatisticsSound
PROPERTIES SweptFirst
CHECK_DEADLOCK FALSE
