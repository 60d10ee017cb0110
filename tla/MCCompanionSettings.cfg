CONSTANTS
  r1 = r1
  r2 = r2
  Bits = {0, 2, 5}
  Manual = {0, 7}
  Rest = {r1, r2}
  Possible <- MCPossible
  Patches <- MCPatches
  MaxEvents = 1
SPECIFICATION FairSpec
INVARIANTS TypeOK VerifiedIsTrue Untouched NoPassingPolicy Honest
PROPERTIES OwnReplies LockReturns
