\* Pools of one and a half units, and memory for three of them and one grain.
CONSTANTS
  Pool       = {p1, p2, p3}
  CacheSize  = 10
  PoolSize   = 3
  Unit       = 2
  MaxConfigs = 2
SPECIFICATION Spec
SYMMETRY Interchangeable
INVARIANTS TypeOK ServerEnds
PROPERTIES ConfigReached PartitionReached ShortOnlyOfMemory
CHECK_DEADLOCK FALSE
