\* Two threads, two queries each, two rounds, one prepared record.
CONSTANTS
  Thread      = {t1, t2}
  NoValue     = NoValue
  NoKey       = NoKey
  MAX_RECORDS = 1
  MAX_QUERIES = 2
  Rounds      = 2
SPECIFICATION Spec
SYMMETRY Interchangeable
CONSTRAINT FewEntries
INVARIANTS TypeOK InsertsAreNew Coherent CleanedUp ReadsFind
CHECK_DEADLOCK FALSE
