CONSTANTS
  s1 = s1
  s2 = s2
  s3 = s3
  Senders = {s1, s2, s3}
  Tasks = {k1, k2}
  Stripe <- Striped
  MaxSenders = 2
  MaxPairs = 2
  Budget = 6
  Ttl = 2
  Sizes <- Lengths
  MaxTurns <- Questions
SPECIFICATION FairSpec
INVARIANTS TypeOK MemoryBounded TimersMatch ResetForgets InOrder
PROPERTIES EvictsOldest ComesToRest
