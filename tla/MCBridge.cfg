CONSTANTS
  Tasks = {t1, t2, t3}
  MaxConcurrent = 1
  BusyWaits = {0, 1}
  Delay = 1
  MaxChunks = 2
SPECIFICATION FairSpec
INVARIANTS TypeOK SlotsConserved
PROPERTIES PacedSends RequestsEnd
