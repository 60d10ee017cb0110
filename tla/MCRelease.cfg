CONSTANTS
  a = a
  b = b
  s1 = s1
  s2 = s2
  Runs = {a, b}
  Sources = {s1, s2}
  ManualRuns = {a, b}
  s0 = s0
  OldSource = s0
  MaxEdits = 2
  MaxRetries = 1
  MaxJobs = 2
SYMMETRY Symmetry
SPECIFICATION Spec
CHECK_DEADLOCK FALSE
INVARIANTS OneBuild Published PublicOnce
PROPERTY NoDowngrade
