\* The program without options.
CONSTANTS
  Thread      = {t1, t2}
  MAX_RECORDS = 3
  MaxQuery    = 2
  RunTimes    = 2
  Latency     = {1, 2, 6}
  UInt        = 16
  MaxWarmups  = 4
SPECIFICATION Spec
PROPERTIES RunsByDefault
CHECK_DEADLOCK FALSE
